------------------------ MODULE SocketServicesProofs -------------------------
(***************************************************************************)
(* Proofs about SocketServices, for any number of processes and any        *)
(* unreset_limit: the type invariant, that no pending bit of s->state      *)
(* outlives the threads (NothingPending), and that the socket is powered   *)
(* only for a card that is in and awake (HotOnlyWithCard).                 *)
(*                                                                         *)
(* Neither property is inductive: both speak of the moment when all is at  *)
(* rest.  PendingOwned says who will clear each bit in the meantime.       *)
(***************************************************************************)
EXTENDS SocketServices, TLAPS

\* The thread t holds the socket in or after its reset.
Resetting(t) == pc[t] \in {"settle", "unreset"}
SomeResetting == \E t \in Threads : Resetting(t)

Has(b) == b \in state

\* Before ds.c has registered nothing has happened.
Untouched ==
    ~registered => state = {} /\ \A t \in Threads : pc[t] \in {"idle", "again"}

\* A bit that is pending has a thread that will take it away.
ShutdownOwned == Has("SHUTDOWN_PENDING") => \E t \in Threads : pc[t] = "shutdown"
SetupOwned ==
    Has("SETUP_PENDING") => \E t \in Threads : pc[t] = "setup" \/ Resetting(t)

\* A setup that has come as far as SOCKET_PRESENT is in its reset, unless the
\* socket was suspended or is on its way down.
SetupResets ==
    /\ Has("PRESENT") /\ Has("SETUP_PENDING")
    /\ ~Has("SUSPEND") /\ ~Has("SHUTDOWN_PENDING")
    => SomeResetting

\* A reset that a user asked for is under way; where the end of it would be
\* taken for the end of a setup, a second thread follows.
ResetOwned == Has("RESET_PENDING") /\ ~Has("SHUTDOWN_PENDING") => SomeResetting
ResetTwice ==
    /\ Has("RESET_PENDING") /\ ~Has("SHUTDOWN_PENDING")
    /\ Has("SETUP_PENDING") /\ ~Has("SUSPEND")
    => \E t1, t2 \in Threads : t1 # t2 /\ Resetting(t1) /\ Resetting(t2)

\* Only a card that is present is reset, suspended or powered, and a suspended
\* one is powered only by a thread that wakes it up.
OnlyPresent == Has("RESET_PENDING") \/ Has("SUSPEND") \/ vcc => Has("PRESENT")
WakingOnly  == vcc /\ Has("SUSPEND") => SomeResetting

PendingOwned ==
    /\ Untouched /\ ShutdownOwned /\ SetupOwned /\ SetupResets
    /\ ResetOwned /\ ResetTwice /\ OnlyPresent /\ WakingOnly

-----------------------------------------------------------------------------
LEMMA LocalsType ==
    /\ NoLocals \in Locals
    /\ \A why \in {"insert", "resume", "reset"} : For(why) \in Locals
    /\ \A d \in BOOLEAN : Saw(d) \in Locals
<1>1. 0 \in 0..(UnresetLimit - 1)
  BY SocketAssumption
<1>2. QED
  BY <1>1 DEF NoLocals, Locals, For, Saw


\* The places a thread can be at.
Places == {"idle", "again", "shutdown", "setup", "settle", "unreset", "asleep"}

\* Only the thread that sleeps, or returns, changes its place.
LEMMA SleepType ==
    ASSUME TypeOK, NEW t \in Threads, NEW l \in Locals, NEW p \in Places,
           Sleep(t, p, l)
    PROVE  /\ pc' \in [Threads -> Places] /\ loc' \in [Threads -> Locals]
           /\ pc'[t] = p
           /\ \A o \in Threads : o # t => pc'[o] = pc[o]
BY DEF TypeOK, Sleep, Places

LEMMA ReturnType ==
    ASSUME TypeOK, NEW t \in Threads, Return(t)
    PROVE  /\ pc' \in [Threads -> Places] /\ loc' \in [Threads -> Locals]
           /\ pc'[t] \in {"idle", "again"}
           /\ \A o \in Threads : o # t => pc'[o] = pc[o]
<1>1. (IF t = keventd THEN "again" ELSE "idle") \in Places
  BY DEF Places
<1>2. QED
  BY <1>1, SleepType, LocalsType DEF Return

\* What the stretches of code leave behind.
LEMMA SetupSocketEffect ==
    ASSUME TypeOK, NEW t \in Threads, NEW s \in SUBSET Bits,
           NEW unset \in SUBSET Bits,
           NEW why \in {"insert", "resume", "reset"}, SetupSocket(t, s, unset, why)
    PROVE  /\ pc' \in [Threads -> Places] /\ loc' \in [Threads -> Locals]
           /\ state' \in SUBSET Bits /\ vcc' \in BOOLEAN /\ ejected' \in BOOLEAN
           /\ \A o \in Threads : o # t => pc'[o] = pc[o]
           /\ \/ pc'[t] = "settle" /\ state' = s \cup {"PRESENT"} /\ vcc' = TRUE
              \/ pc'[t] \in {"idle", "again"} /\ state' = s \ unset /\ vcc' = vcc
<1>1. CASE card
  <2>1. Sleep(t, "settle", For(why))
    BY <1>1 DEF SetupSocket
  <2>2. For(why) \in Locals /\ "settle" \in Places
    BY LocalsType DEF Places
  <2>3. QED
    BY <1>1, <2>1, <2>2, SleepType DEF SetupSocket, Bits, TypeOK
<1>2. CASE ~card
  <2>1. Return(t)
    BY <1>2 DEF SetupSocket
  <2>2. QED
    BY <1>2, <2>1, ReturnType DEF SetupSocket, TypeOK
<1>3. QED
  BY <1>1, <1>2

LEMMA AfterShutdownEffect ==
    ASSUME TypeOK, NEW t \in Threads, NEW s \in SUBSET Bits, NEW d \in BOOLEAN,
           AfterShutdown(t, s, d)
    PROVE  /\ pc' \in [Threads -> Places] /\ loc' \in [Threads -> Locals]
           /\ state' \in SUBSET Bits
           /\ \A o \in Threads : o # t => pc'[o] = pc[o]
           /\ \/ pc'[t] = "setup" /\ state' = s \cup {"SETUP_PENDING"}
              \/ pc'[t] \in {"idle", "again"} /\ state' = s
<1>1. CASE d /\ "SETUP_PENDING" \notin s
  <2>1. PICK why \in {"insert", "resume", "reset"} : Sleep(t, "setup", For(why))
    BY <1>1 DEF AfterShutdown
  <2>2. For(why) \in Locals /\ "setup" \in Places
    BY LocalsType DEF Places
  <2>3. QED
    BY <1>1, <2>1, <2>2, SleepType DEF AfterShutdown, Bits
<1>2. CASE ~d \/ "SETUP_PENDING" \in s
  BY <1>2, ReturnType DEF AfterShutdown
<1>3. QED
  BY <1>1, <1>2

LEMMA ParseEventsEffect ==
    ASSUME TypeOK, NEW t \in Threads, NEW s \in SUBSET Bits, ParseEvents(t, s)
    PROVE  /\ pc' \in [Threads -> Places] /\ loc' \in [Threads -> Locals]
           /\ state' \in SUBSET Bits
           /\ kDetect' \in BOOLEAN /\ missed' \in BOOLEAN /\ ejected' \in BOOLEAN
           /\ announced' \in BOOLEAN /\ crossed' \in BOOLEAN
           /\ \A o \in Threads : o # t => pc'[o] = pc[o]
           /\ \/ pc'[t] = "shutdown" /\ state' = BeginShutdown(s)
              \/ /\ ~MustShutdown(s)
                 /\ pc'[t] = "setup" /\ state' = s \cup {"SETUP_PENDING"}
              \/ pc'[t] \in {"idle", "again"} /\ state' = s
<1>1. kDetect' \in BOOLEAN /\ missed' \in BOOLEAN /\ ejected' \in BOOLEAN
  BY DEF ParseEvents, TypeOK
<1>2. announced' \in BOOLEAN /\ crossed' \in BOOLEAN
  BY DEF ParseEvents, TypeOK, Enter, Alone
<1>3. CASE MustShutdown(s)
  <2>1. Sleep(t, "shutdown", Saw(card)) /\ state' = BeginShutdown(s)
    BY <1>3 DEF ParseEvents
  <2>2. Saw(card) \in Locals /\ "shutdown" \in Places
    BY LocalsType DEF Places, TypeOK
  <2>3. BeginShutdown(s) \in SUBSET Bits
    BY DEF BeginShutdown, Bits, EVENT_MASK
  <2>4. QED
    BY <1>1, <1>2, <2>1, <2>2, <2>3, SleepType
<1>4. CASE ~MustShutdown(s)
  <2>1. AfterShutdown(t, s, card) /\ card \in BOOLEAN
    BY <1>4 DEF ParseEvents, TypeOK
  <2>2. QED
    BY <1>1, <1>2, <1>4, <2>1, AfterShutdownEffect
<1>5. QED
  BY <1>3, <1>4

-----------------------------------------------------------------------------
(* The type invariant.                                                     *)

LEMMA GetStatusType ==
    ASSUME TypeOK, GetStatus
    PROVE  kDetect' \in BOOLEAN /\ missed' \in BOOLEAN
BY DEF GetStatus, TypeOK

LEMMA EnterType ==
    ASSUME TypeOK, NEW t \in Threads, Enter(t)
    PROVE  crossed' \in BOOLEAN
BY DEF Enter, TypeOK, Alone

LEMMA InitType == Init => TypeOK
BY LocalsType DEF Init, TypeOK

LEMMA HardwareType ==
    ASSUME TypeOK, Move \/ PollEvent
    PROVE  TypeOK'
BY DEF TypeOK, Move, PollEvent, csVars, thrVars, histVars

LEMMA WakeType ==
    ASSUME TypeOK, NEW t \in Threads, Wake(t)
    PROVE  TypeOK'
<1>0. loc[t] \in Locals /\ state \in SUBSET Bits
  BY DEF TypeOK
<1>1. CASE Shutdown(t)
  <2>1. AfterShutdown(t, state \cap {"SETUP_PENDING"}, loc[t].status)
    BY <1>1 DEF Shutdown
  <2>2. loc[t].status \in BOOLEAN /\ state \cap {"SETUP_PENDING"} \in SUBSET Bits
    BY <1>0 DEF Locals
  <2>3. QED
    BY <1>1, <2>1, <2>2, AfterShutdownEffect DEF Shutdown, TypeOK, Places, histVars
<1>2. CASE Setup(t)
  <2>1. loc[t].cause \in {"insert", "resume", "reset"}
    BY <1>0 DEF Locals
  <2>2. SetupSocket(t, state, {"SETUP_PENDING"}, loc[t].cause) /\ GetStatus
    BY <1>2 DEF Setup
  <2>0. {"SETUP_PENDING"} \in SUBSET Bits
    BY DEF Bits
  <2>3. QED
    BY <1>0, <1>2, <2>0, <2>1, <2>2, SetupSocketEffect, GetStatusType
    DEF Setup, TypeOK, Places
<1>3. CASE Reset(t)
  <2>1. Sleep(t, "unreset", loc[t]) /\ "unreset" \in Places
    BY <1>3 DEF Reset, Places
  <2>2. QED
    BY <1>0, <1>3, <2>1, SleepType DEF Reset, TypeOK, Places, csVars, histVars
<1>4. CASE NotReady(t)
  <2>1. GetStatus
    BY <1>4 DEF NotReady
  <2>0. loc[t].tries \in Nat /\ UnresetLimit \in Nat
    BY <1>0, SocketAssumption DEF Locals
  <2>2. CASE loc[t].tries + 1 < UnresetLimit
    <3>1. [loc[t] EXCEPT !.tries = @ + 1] \in Locals
      BY <1>0, <2>2, SocketAssumption DEF Locals
    <3>2. Sleep(t, "unreset", [loc[t] EXCEPT !.tries = @ + 1]) /\ "unreset" \in Places
      BY <1>4, <2>0, <2>2 DEF NotReady, Places
    <3>3. state' = state /\ unready' = unready
      BY <1>4, <2>0, <2>2 DEF NotReady
    <3>4. QED
      BY <1>4, <2>1, <3>1, <3>2, <3>3, SleepType, GetStatusType
      DEF NotReady, TypeOK, Places
  <2>3. CASE ~(loc[t].tries + 1 < UnresetLimit)
    <3>1. Return(t) /\ state' = state \ EVENT_MASK /\ unready' = TRUE
      BY <1>4, <2>3 DEF NotReady
    <3>2. QED
      BY <1>0, <1>4, <2>1, <3>1, ReturnType, GetStatusType
      DEF NotReady, TypeOK, Places
  <2>4. QED
    BY <2>2, <2>3
<1>5. CASE ReadyAgain(t)
  <2>1. CASE ParseEvents(t, state \ EVENT_MASK)
    <3>1. state \ EVENT_MASK \in SUBSET Bits
      BY <1>0
    <3>2. QED
      BY <1>5, <2>1, <3>1, ParseEventsEffect DEF ReadyAgain, TypeOK, Places
  <2>2. CASE ~ParseEvents(t, state \ EVENT_MASK)
    BY <1>0, <1>5, <2>2, ReturnType, GetStatusType DEF ReadyAgain, TypeOK, Places
  <2>3. QED
    BY <2>1, <2>2
<1>6. CASE ReadyNew(t)
  BY <1>0, <1>6, ReturnType, GetStatusType DEF ReadyNew, TypeOK, Places
<1>7. CASE ReadyReset(t)
  BY <1>0, <1>7, ReturnType, GetStatusType DEF ReadyReset, TypeOK, Places
<1>8. QED
  BY <1>1, <1>2, <1>3, <1>4, <1>5, <1>6, <1>7 DEF Wake

LEMMA TaskType ==
    ASSUME TypeOK, Task
    PROVE  TypeOK'
<1>0. keventd \in Threads /\ state \in SUBSET Bits
  BY DEF Threads, TypeOK
<1>1. queued' \in BOOLEAN /\ card' = card /\ registered' = registered
  BY DEF Task, TypeOK
<1>2. CASE card # kDetect /\ registered
  <2>1. ParseEvents(keventd, state) /\ UNCHANGED <<vcc, edges, unready>>
    BY <1>2 DEF Task, TaskLoop
  <2>2. QED
    BY <1>0, <1>1, <2>1, ParseEventsEffect DEF TypeOK, Places
<1>3. CASE card # kDetect /\ ~registered
  <2>1. /\ GetStatus /\ Return(keventd)
        /\ UNCHANGED <<csVars, ejected, announced, unready, crossed>>
    BY <1>3 DEF Task, TaskLoop
  <2>2. QED
    BY <1>0, <1>1, <2>1, ReturnType, GetStatusType DEF TypeOK, Places, csVars
<1>4. CASE card = kDetect
  <2>1. Sleep(keventd, "idle", NoLocals) /\ UNCHANGED <<kDetect, csVars, histVars>>
    BY <1>4 DEF Task, TaskLoop
  <2>2. "idle" \in Places
    BY DEF Places
  <2>3. QED
    BY <1>0, <1>1, <2>1, <2>2, SleepType, LocalsType
    DEF TypeOK, Places, csVars, histVars
<1>5. QED
  BY <1>2, <1>3, <1>4

LEMMA UserType ==
    ASSUME TypeOK, NEW u \in Users, UserCall(u) \/ PmResume(u)
    PROVE  TypeOK'
<1>0. u \in Threads /\ state \in SUBSET Bits
  BY DEF Threads, TypeOK
<1>s. state \cup {"SETUP_PENDING"} \in SUBSET Bits
  BY <1>0 DEF Bits
<1>1. CASE Register(u)
  BY <1>0, <1>s, <1>1, SetupSocketEffect, GetStatusType, EnterType
  DEF Register, TypeOK, Places
<1>2. CASE CardStatus(u)
  BY <1>2, GetStatusType DEF CardStatus, TypeOK, csVars, thrVars
<1>3. CASE ResetCard(u)
  <2>1. For("reset") \in Locals /\ "unreset" \in Places
    BY LocalsType DEF Places
  <2>2. QED
    BY <1>0, <1>3, <2>1, SleepType, EnterType DEF ResetCard, TypeOK, Places, Bits
<1>4. CASE SuspendCard(u)
  BY <1>0, <1>4, EnterType DEF SuspendCard, SuspendSocket, TypeOK, Bits, thrVars
<1>5. CASE ResumeCard(u)
  BY <1>0, <1>5, SetupSocketEffect, GetStatusType, EnterType
  DEF ResumeCard, TypeOK, Places
<1>6. CASE EjectCard(u)
  <2>1. BeginShutdown(state) \in SUBSET Bits /\ "shutdown" \in Places
    BY <1>0 DEF BeginShutdown, Bits, EVENT_MASK, Places
  <2>2. QED
    BY <1>0, <1>6, <2>1, SleepType, LocalsType, EnterType
    DEF EjectCard, TypeOK, Places
<1>7. CASE InsertCard(u)
  BY <1>0, <1>s, <1>7, SetupSocketEffect, GetStatusType, EnterType
  DEF InsertCard, TypeOK, Places
<1>8. CASE PmSuspend(u)
  <2>1. "asleep" \in Places /\ state \cup {"SUSPEND"} \in SUBSET Bits
    BY <1>0 DEF Places, Bits
  <2>2. QED
    BY <1>0, <1>8, <2>1, SleepType, LocalsType, EnterType
    DEF PmSuspend, SuspendSocket, TypeOK, Places, csVars
<1>9. CASE PmResume(u)
  <2>1. CASE ParseEvents(u, state)
    BY <1>0, <1>9, <2>1, ParseEventsEffect DEF PmResume, TypeOK, Places
  <2>2. CASE ~ParseEvents(u, state)
    BY <1>0, <1>9, <2>2, ReturnType, GetStatusType DEF PmResume, TypeOK, Places
  <2>3. QED
    BY <2>1, <2>2
<1>10. QED
  BY <1>1, <1>2, <1>3, <1>4, <1>5, <1>6, <1>7, <1>8, <1>9 DEF UserCall

LEMMA NextType == TypeOK /\ [Next]_vars => TypeOK'
<1>1. ASSUME TypeOK, Next PROVE TypeOK'
  <2>1. keventd \in Threads /\ Users \subseteq Threads
    BY DEF Threads
  <2>2. QED
    BY <1>1, <2>1, HardwareType, TaskType, WakeType, UserType DEF Next
<1>2. ASSUME TypeOK, UNCHANGED vars PROVE TypeOK'
  BY <1>2 DEF TypeOK, vars, csVars, thrVars, histVars
<1>3. QED
  BY <1>1, <1>2

\* The variables of the socket services keep their types, and unreset_socket()
\* never looks more often than unreset_limit allows.
THEOREM TypeCorrect == Spec => []TypeOK
BY InitType, NextType, PTL DEF Spec
-----------------------------------------------------------------------------
(* The owners of the pending bits.                                         *)

LEMMA InitOwned == Init => PendingOwned
BY DEF Init, PendingOwned, Untouched, ShutdownOwned, SetupOwned, SetupResets,
    ResetOwned, ResetTwice, OnlyPresent, WakingOnly, Resetting, SomeResetting, Has

\* A step that leaves s->state, Vcc and the places of the threads alone.
LEMMA SameOwned ==
    ASSUME PendingOwned, state' = state, vcc' = vcc, pc' = pc,
           registered' = registered
    PROVE  PendingOwned'
BY DEF PendingOwned, Untouched, ShutdownOwned, SetupOwned, SetupResets,
    ResetOwned, ResetTwice, OnlyPresent, WakingOnly, Resetting, SomeResetting, Has

\* setup_socket().
LEMMA SetupSocketOwned ==
    ASSUME TypeOK, PendingOwned, NEW t \in Threads, NEW s \in SUBSET Bits,
           NEW unset \in SUBSET Bits, NEW why \in {"insert", "resume", "reset"},
           SetupSocket(t, s, unset, why), registered',
           pc[t] \in {"idle", "setup"},
           \/ s = state /\ ("SETUP_PENDING" \in unset \/ pc[t] = "idle")
           \/ /\ s = state \cup {"SETUP_PENDING"} /\ ~Has("PRESENT")
              /\ "SETUP_PENDING" \in unset,
           unset \subseteq {"SETUP_PENDING"}
    PROVE  PendingOwned'
<1>0. /\ pc' \in [Threads -> Places] /\ loc' \in [Threads -> Locals]
      /\ state' \in SUBSET Bits /\ vcc' \in BOOLEAN /\ ejected' \in BOOLEAN
      /\ \A o \in Threads : o # t => pc'[o] = pc[o]
      /\ \/ pc'[t] = "settle" /\ state' = s \cup {"PRESENT"} /\ vcc' = TRUE
         \/ pc'[t] \in {"idle", "again"} /\ state' = s \ unset /\ vcc' = vcc
  BY SetupSocketEffect
<1>1. Untouched'
  BY <1>0 DEF PendingOwned, Untouched, Has
<1>2. ShutdownOwned'
  BY <1>0 DEF PendingOwned, ShutdownOwned, Has
<1>3. SetupOwned'
  BY <1>0 DEF PendingOwned, SetupOwned, Resetting, Has
<1>4. SetupResets'
  BY <1>0 DEF PendingOwned, SetupResets, OnlyPresent, SomeResetting, Resetting, Has
<1>5. ResetOwned'
  BY <1>0 DEF PendingOwned, ResetOwned, ResetTwice, SomeResetting, Resetting, Has
<1>6. ResetTwice'
  BY <1>0 DEF PendingOwned, ResetTwice, SetupResets, OnlyPresent,
      SomeResetting, Resetting, Has
<1>7. OnlyPresent'
  BY <1>0 DEF PendingOwned, OnlyPresent, Has
<1>8. WakingOnly'
  BY <1>0 DEF PendingOwned, WakingOnly, SomeResetting, Resetting, Has
<1>9. QED
  BY <1>1, <1>2, <1>3, <1>4, <1>5, <1>6, <1>7, <1>8 DEF PendingOwned

\* parse_events(), called with s->state as it is or out of unreset_socket().
LEMMA ParseEventsOwned ==
    ASSUME TypeOK, PendingOwned, NEW t \in Threads, NEW s \in SUBSET Bits,
           ParseEvents(t, s), registered', vcc' = vcc \/ vcc' = FALSE,
           \/ s = state /\ pc[t] \in {"idle", "again", "asleep"}
           \/ s = state \ EVENT_MASK /\ pc[t] = "unreset"
    PROVE  PendingOwned'
<1>0. /\ pc' \in [Threads -> Places] /\ loc' \in [Threads -> Locals]
      /\ state' \in SUBSET Bits
      /\ kDetect' \in BOOLEAN /\ missed' \in BOOLEAN /\ ejected' \in BOOLEAN
      /\ announced' \in BOOLEAN /\ crossed' \in BOOLEAN
      /\ \A o \in Threads : o # t => pc'[o] = pc[o]
      /\ \/ pc'[t] = "shutdown" /\ state' = BeginShutdown(s)
         \/ /\ ~MustShutdown(s)
            /\ pc'[t] = "setup" /\ state' = s \cup {"SETUP_PENDING"}
         \/ pc'[t] \in {"idle", "again"} /\ state' = s
  BY ParseEventsEffect
<1>a. vcc \in BOOLEAN /\ vcc' \in BOOLEAN
  BY DEF TypeOK
<1>1. Untouched'
  BY <1>0, <1>a DEF PendingOwned, Untouched, Has,
      BeginShutdown, MustShutdown, EVENT_MASK
<1>2. ShutdownOwned'
  BY <1>0, <1>a DEF PendingOwned, ShutdownOwned, Has,
      BeginShutdown, MustShutdown, EVENT_MASK
<1>3. SetupOwned'
  BY <1>0, <1>a DEF PendingOwned, SetupOwned, Resetting, Has,
      BeginShutdown, MustShutdown, EVENT_MASK
<1>4. SetupResets'
  BY <1>0, <1>a DEF PendingOwned, SetupResets, OnlyPresent, SomeResetting, Resetting, Has,
      BeginShutdown, MustShutdown, EVENT_MASK
<1>5. ResetOwned'
  BY <1>0, <1>a DEF PendingOwned, ResetOwned, ResetTwice, SomeResetting, Resetting, Has,
      BeginShutdown, MustShutdown, EVENT_MASK
<1>6. ResetTwice'
  BY <1>0, <1>a DEF PendingOwned, ResetTwice, SetupResets, OnlyPresent,
      SomeResetting, Resetting, Has,
      BeginShutdown, MustShutdown, EVENT_MASK
<1>7. OnlyPresent'
  BY <1>0, <1>a DEF PendingOwned, OnlyPresent, Has,
      BeginShutdown, MustShutdown, EVENT_MASK
<1>8. WakingOnly'
  <2>1. CASE s = state /\ pc[t] \in {"idle", "again", "asleep"}
    <3>1. SUFFICES ASSUME vcc', Has("SUSPEND")' PROVE SomeResetting'
      BY DEF WakingOnly
    <3>a. vcc
      BY <3>1
    <3>b. Has("SUSPEND")
      BY <1>0, <2>1, <3>1 DEF Has, BeginShutdown
    <3>2. vcc /\ Has("SUSPEND")
      BY <3>a, <3>b
    <3>3. PICK o \in Threads : Resetting(o)
      BY <3>2 DEF PendingOwned, WakingOnly, SomeResetting
    <3>4. QED
      BY <1>0, <2>1, <3>3 DEF SomeResetting, Resetting
  <2>2. CASE s = state \ EVENT_MASK
    BY <1>0, <2>2 DEF WakingOnly, Has, BeginShutdown, EVENT_MASK
  <2>3. QED
    BY <2>1, <2>2
<1>9. QED
  BY <1>1, <1>2, <1>3, <1>4, <1>5, <1>6, <1>7, <1>8 DEF PendingOwned

\* The end of do_shutdown().
LEMMA ShutdownOwnedStep ==
    ASSUME TypeOK, PendingOwned, NEW t \in Threads, Shutdown(t)
    PROVE  PendingOwned'
<1>a. AfterShutdown(t, state \cap {"SETUP_PENDING"}, loc[t].status)
  BY DEF Shutdown
<1>b. loc[t].status \in BOOLEAN /\ state \cap {"SETUP_PENDING"} \in SUBSET Bits
  BY DEF TypeOK, Locals
<1>0. /\ pc' \in [Threads -> Places] /\ loc' \in [Threads -> Locals]
      /\ state' \in SUBSET Bits
      /\ \A o \in Threads : o # t => pc'[o] = pc[o]
      /\ \/ /\ pc'[t] = "setup"
            /\ state' = (state \cap {"SETUP_PENDING"}) \cup {"SETUP_PENDING"}
         \/ pc'[t] \in {"idle", "again"} /\ state' = state \cap {"SETUP_PENDING"}
  BY <1>a, <1>b, AfterShutdownEffect
<1>c. pc[t] = "shutdown" /\ vcc' = FALSE /\ registered' = registered
  BY DEF Shutdown
<1>1. Untouched'
  BY <1>0, <1>c DEF PendingOwned, Untouched, Has
<1>2. ShutdownOwned'
  BY <1>0, <1>c DEF PendingOwned, ShutdownOwned, Has
<1>3. SetupOwned'
  BY <1>0, <1>c DEF PendingOwned, SetupOwned, Resetting, Has
<1>4. SetupResets'
  BY <1>0, <1>c DEF PendingOwned, SetupResets, OnlyPresent, SomeResetting, Resetting, Has
<1>5. ResetOwned'
  BY <1>0, <1>c DEF PendingOwned, ResetOwned, ResetTwice, SomeResetting, Resetting, Has
<1>6. ResetTwice'
  BY <1>0, <1>c DEF PendingOwned, ResetTwice, SetupResets, OnlyPresent,
      SomeResetting, Resetting, Has
<1>7. OnlyPresent'
  BY <1>0, <1>c DEF PendingOwned, OnlyPresent, Has
<1>8. WakingOnly'
  BY <1>0, <1>c DEF PendingOwned, WakingOnly, SomeResetting, Resetting, Has
<1>9. QED
  BY <1>1, <1>2, <1>3, <1>4, <1>5, <1>6, <1>7, <1>8 DEF PendingOwned

\* The ends of unreset_socket() that clear EVENT_MASK.
LEMMA ExitOwned ==
    ASSUME TypeOK, PendingOwned, NEW t \in Threads, pc[t] = "unreset", Return(t),
           state' = state \ EVENT_MASK, vcc' = vcc, registered' = registered
    PROVE  PendingOwned'
<1>0. /\ pc' \in [Threads -> Places] /\ loc' \in [Threads -> Locals]
      /\ pc'[t] \in {"idle", "again"}
      /\ \A o \in Threads : o # t => pc'[o] = pc[o]
  BY ReturnType
<1>a. state \in SUBSET Bits /\ vcc \in BOOLEAN
  BY DEF TypeOK
<1>1. Untouched'
  BY <1>0, <1>a DEF PendingOwned, Untouched, Has,
      EVENT_MASK
<1>2. ShutdownOwned'
  BY <1>0, <1>a DEF PendingOwned, ShutdownOwned, Has,
      EVENT_MASK
<1>3. SetupOwned'
  BY <1>0, <1>a DEF PendingOwned, SetupOwned, Resetting, Has,
      EVENT_MASK
<1>4. SetupResets'
  BY <1>0, <1>a DEF PendingOwned, SetupResets, OnlyPresent, SomeResetting, Resetting, Has,
      EVENT_MASK
<1>5. ResetOwned'
  BY <1>0, <1>a DEF PendingOwned, ResetOwned, ResetTwice, SomeResetting, Resetting, Has,
      EVENT_MASK
<1>6. ResetTwice'
  BY <1>0, <1>a DEF PendingOwned, ResetTwice, SetupResets, OnlyPresent,
      SomeResetting, Resetting, Has,
      EVENT_MASK
<1>7. OnlyPresent'
  BY <1>0, <1>a DEF PendingOwned, OnlyPresent, Has,
      EVENT_MASK
<1>8. WakingOnly'
  BY <1>0, <1>a DEF PendingOwned, WakingOnly, SomeResetting, Resetting, Has,
      EVENT_MASK
<1>9. QED
  BY <1>1, <1>2, <1>3, <1>4, <1>5, <1>6, <1>7, <1>8 DEF PendingOwned

\* The end of unreset_socket() that announces the card.
LEMMA ReadyNewOwned ==
    ASSUME TypeOK, PendingOwned, NEW t \in Threads, ReadyNew(t)
    PROVE  PendingOwned'
<1>b. /\ Return(t) /\ state' = state \ {"SETUP_PENDING"}
      /\ vcc' = vcc /\ registered' = registered
      /\ pc[t] = "unreset" /\ "SUSPEND" \notin state /\ "SETUP_PENDING" \in state
  BY DEF ReadyNew
<1>0. /\ pc' \in [Threads -> Places] /\ loc' \in [Threads -> Locals]
      /\ pc'[t] \in {"idle", "again"}
      /\ \A o \in Threads : o # t => pc'[o] = pc[o]
  BY <1>b, ReturnType
<1>a. state \in SUBSET Bits /\ vcc \in BOOLEAN
  BY DEF TypeOK
<1>1. Untouched'
  BY <1>0, <1>a, <1>b DEF PendingOwned, Untouched, Has
<1>2. ShutdownOwned'
  BY <1>0, <1>a, <1>b DEF PendingOwned, ShutdownOwned, Has
<1>3. SetupOwned'
  BY <1>0, <1>a, <1>b DEF PendingOwned, SetupOwned, Resetting, Has
<1>4. SetupResets'
  BY <1>0, <1>a, <1>b DEF PendingOwned, SetupResets, OnlyPresent, SomeResetting, Resetting, Has
<1>5. ResetOwned'
  BY <1>0, <1>a, <1>b DEF PendingOwned, ResetOwned, ResetTwice, SomeResetting, Resetting, Has
<1>6. ResetTwice'
  BY <1>0, <1>a, <1>b DEF PendingOwned, ResetTwice, SetupResets, OnlyPresent,
      SomeResetting, Resetting, Has
<1>7. OnlyPresent'
  BY <1>0, <1>a, <1>b DEF PendingOwned, OnlyPresent, Has
<1>8. WakingOnly'
  BY <1>0, <1>a, <1>b DEF PendingOwned, WakingOnly, SomeResetting, Resetting, Has
<1>9. QED
  BY <1>1, <1>2, <1>3, <1>4, <1>5, <1>6, <1>7, <1>8 DEF PendingOwned

\* reset_socket() begins.
LEMMA ResetOwnedStep ==
    ASSUME TypeOK, PendingOwned, NEW t \in Threads, Reset(t)
    PROVE  PendingOwned'
<1>b. /\ Sleep(t, "unreset", loc[t]) /\ pc[t] = "settle"
      /\ state' = state /\ vcc' = vcc /\ registered' = registered
  BY DEF Reset, csVars
<1>a. /\ state \in SUBSET Bits /\ vcc \in BOOLEAN
      /\ loc[t] \in Locals /\ "unreset" \in Places
  BY DEF TypeOK, Places
<1>0. /\ pc' \in [Threads -> Places] /\ loc' \in [Threads -> Locals]
      /\ pc'[t] = "unreset"
      /\ \A o \in Threads : o # t => pc'[o] = pc[o]
  BY <1>a, <1>b, SleepType
<1>1. Untouched'
  BY <1>0, <1>a, <1>b DEF PendingOwned, Untouched, Has
<1>2. ShutdownOwned'
  BY <1>0, <1>a, <1>b DEF PendingOwned, ShutdownOwned, Has
<1>3. SetupOwned'
  BY <1>0, <1>a, <1>b DEF PendingOwned, SetupOwned, Resetting, Has
<1>4. SetupResets'
  BY <1>0, <1>a, <1>b DEF PendingOwned, SetupResets, OnlyPresent, SomeResetting, Resetting, Has
<1>5. ResetOwned'
  BY <1>0, <1>a, <1>b DEF PendingOwned, ResetOwned, ResetTwice, SomeResetting, Resetting, Has
<1>6. ResetTwice'
  BY <1>0, <1>a, <1>b DEF PendingOwned, ResetTwice, SetupResets, OnlyPresent,
      SomeResetting, Resetting, Has
<1>7. OnlyPresent'
  BY <1>0, <1>a, <1>b DEF PendingOwned, OnlyPresent, Has
<1>8. WakingOnly'
  BY <1>0, <1>a, <1>b DEF PendingOwned, WakingOnly, SomeResetting, Resetting, Has
<1>9. QED
  BY <1>1, <1>2, <1>3, <1>4, <1>5, <1>6, <1>7, <1>8 DEF PendingOwned

LEMMA WakeOwned ==
    ASSUME TypeOK, PendingOwned, NEW t \in Threads, Wake(t)
    PROVE  PendingOwned'
<1>0. state \in SUBSET Bits /\ vcc \in BOOLEAN /\ loc[t] \in Locals
  BY DEF TypeOK
<1>1. CASE Shutdown(t)
  BY <1>1, ShutdownOwnedStep
<1>2. CASE Setup(t)
  <2>1. /\ SetupSocket(t, state, {"SETUP_PENDING"}, loc[t].cause)
        /\ pc[t] = "setup" /\ registered' = registered
    BY <1>2 DEF Setup
  <2>2. registered'
    BY <2>1 DEF PendingOwned, Untouched
  <2>3. {"SETUP_PENDING"} \in SUBSET Bits /\ loc[t].cause \in {"insert", "resume", "reset"}
    BY <1>0 DEF Bits, Locals
  <2>4. QED
    BY <1>0, <2>1, <2>2, <2>3, SetupSocketOwned
<1>3. CASE Reset(t)
  BY <1>3, ResetOwnedStep
<1>4. CASE NotReady(t)
  <2>1. pc[t] = "unreset" /\ vcc' = vcc /\ registered' = registered
    BY <1>4 DEF NotReady
  <2>2. CASE Return(t) /\ state' = state \ EVENT_MASK
    BY <2>1, <2>2, ExitOwned
  <2>3. CASE pc' = [pc EXCEPT ![t] = "unreset"] /\ state' = state
    <3>1. pc' = pc
      BY <2>1, <2>3 DEF TypeOK
    <3>2. QED
      BY <2>1, <2>3, <3>1, SameOwned
  <2>4. QED
    BY <1>4, <2>2, <2>3 DEF NotReady, Sleep
<1>5. CASE ReadyAgain(t)
  <2>1. pc[t] = "unreset" /\ vcc' = vcc /\ registered' = registered
    BY <1>5 DEF ReadyAgain
  <2>2. registered'
    BY <2>1 DEF PendingOwned, Untouched
  <2>3. CASE ParseEvents(t, state \ EVENT_MASK)
    <3>1. state \ EVENT_MASK \in SUBSET Bits
      BY <1>0
    <3>2. QED
      BY <2>1, <2>2, <2>3, <3>1, ParseEventsOwned
  <2>4. CASE Return(t) /\ state' = state \ EVENT_MASK
    BY <2>1, <2>4, ExitOwned
  <2>5. QED
    BY <1>5, <2>3, <2>4 DEF ReadyAgain
<1>6. CASE ReadyNew(t)
  BY <1>6, ReadyNewOwned
<1>7. CASE ReadyReset(t)
  BY <1>7, ExitOwned DEF ReadyReset
<1>8. QED
  BY <1>1, <1>2, <1>3, <1>4, <1>5, <1>6, <1>7 DEF Wake

\* A step of a thread outside Card Services, which at most cuts the power.
LEMMA QuietOwned ==
    ASSUME TypeOK, PendingOwned, NEW t \in Threads,
           pc[t] \in {"idle", "again", "asleep"},
           pc'[t] \in {"idle", "again", "asleep"},
           registered \/ pc'[t] \in {"idle", "again"},
           \A o \in Threads : o # t => pc'[o] = pc[o],
           state' = state, vcc' = vcc \/ vcc' = FALSE, registered' = registered
    PROVE  PendingOwned'
<1>0. vcc \in BOOLEAN /\ vcc' \in BOOLEAN
  BY DEF TypeOK
<1>1. Untouched'
  BY <1>0 DEF PendingOwned, Untouched, Has
<1>2. ShutdownOwned'
  BY <1>0 DEF PendingOwned, ShutdownOwned, Has
<1>3. SetupOwned'
  BY <1>0 DEF PendingOwned, SetupOwned, Resetting, Has
<1>4. SetupResets'
  BY <1>0 DEF PendingOwned, SetupResets, OnlyPresent, SomeResetting, Resetting, Has
<1>5. ResetOwned'
  BY <1>0 DEF PendingOwned, ResetOwned, ResetTwice, SomeResetting, Resetting, Has
<1>6. ResetTwice'
  BY <1>0 DEF PendingOwned, ResetTwice, SetupResets, OnlyPresent,
      SomeResetting, Resetting, Has
<1>7. OnlyPresent'
  BY <1>0 DEF PendingOwned, OnlyPresent, Has
<1>8. WakingOnly'
  BY <1>0 DEF PendingOwned, WakingOnly, SomeResetting, Resetting, Has
<1>9. QED
  BY <1>1, <1>2, <1>3, <1>4, <1>5, <1>6, <1>7, <1>8 DEF PendingOwned

\* suspend_socket(), on the way to sleep or not.
LEMMA SuspendOwned ==
    ASSUME TypeOK, PendingOwned, NEW t \in Threads, SuspendSocket, pc[t] = "idle",
           pc'[t] \in {"idle", "asleep"},
           \A o \in Threads : o # t => pc'[o] = pc[o], registered'
    PROVE  PendingOwned'
<1>0. /\ state' = state \cup {"SUSPEND"} /\ vcc' = FALSE
      /\ "PRESENT" \in state /\ state \in SUBSET Bits
  BY DEF TypeOK, SuspendSocket
<1>1. Untouched'
  BY <1>0 DEF PendingOwned, Untouched, Has
<1>2. ShutdownOwned'
  BY <1>0 DEF PendingOwned, ShutdownOwned, Has
<1>3. SetupOwned'
  BY <1>0 DEF PendingOwned, SetupOwned, Resetting, Has
<1>4. SetupResets'
  BY <1>0 DEF PendingOwned, SetupResets, OnlyPresent, SomeResetting, Resetting, Has
<1>5. ResetOwned'
  BY <1>0 DEF PendingOwned, ResetOwned, ResetTwice, SomeResetting, Resetting, Has
<1>6. ResetTwice'
  BY <1>0 DEF PendingOwned, ResetTwice, SetupResets, OnlyPresent,
      SomeResetting, Resetting, Has
<1>7. OnlyPresent'
  BY <1>0 DEF PendingOwned, OnlyPresent, Has
<1>8. WakingOnly'
  BY <1>0 DEF PendingOwned, WakingOnly, SomeResetting, Resetting, Has
<1>9. QED
  BY <1>1, <1>2, <1>3, <1>4, <1>5, <1>6, <1>7, <1>8 DEF PendingOwned

\* pcmcia_reset_card().
LEMMA ResetCardOwned ==
    ASSUME TypeOK, PendingOwned, NEW u \in Threads, ResetCard(u)
    PROVE  PendingOwned'
<1>b. /\ Sleep(u, "unreset", For("reset")) /\ pc[u] = "idle"
      /\ state' = state \cup {"RESET_PENDING"} /\ vcc' = vcc
      /\ registered /\ registered' = registered /\ "PRESENT" \in state
  BY DEF ResetCard, Calls
<1>a. /\ state \in SUBSET Bits /\ vcc \in BOOLEAN
      /\ For("reset") \in Locals /\ "unreset" \in Places
  BY LocalsType DEF TypeOK, Places
<1>0. /\ pc' \in [Threads -> Places] /\ loc' \in [Threads -> Locals]
      /\ pc'[u] = "unreset"
      /\ \A o \in Threads : o # u => pc'[o] = pc[o]
  BY <1>a, <1>b, SleepType
<1>1. Untouched'
  BY <1>0, <1>a, <1>b DEF PendingOwned, Untouched, Has
<1>2. ShutdownOwned'
  BY <1>0, <1>a, <1>b DEF PendingOwned, ShutdownOwned, Has
<1>3. SetupOwned'
  BY <1>0, <1>a, <1>b DEF PendingOwned, SetupOwned, Resetting, Has
<1>4. SetupResets'
  BY <1>0, <1>a, <1>b DEF PendingOwned, SetupResets, OnlyPresent, SomeResetting, Resetting, Has
<1>5. ResetOwned'
  BY <1>0, <1>a, <1>b DEF PendingOwned, ResetOwned, ResetTwice, SomeResetting, Resetting, Has
<1>6. ResetTwice'
  BY <1>0, <1>a, <1>b DEF PendingOwned, ResetTwice, SetupResets, OnlyPresent,
      SomeResetting, Resetting, Has
<1>7. OnlyPresent'
  BY <1>0, <1>a, <1>b DEF PendingOwned, OnlyPresent, Has
<1>8. WakingOnly'
  BY <1>0, <1>a, <1>b DEF PendingOwned, WakingOnly, SomeResetting, Resetting, Has
<1>9. QED
  BY <1>1, <1>2, <1>3, <1>4, <1>5, <1>6, <1>7, <1>8 DEF PendingOwned

\* pcmcia_eject_card() up to the sleep of do_shutdown().
LEMMA EjectCardOwned ==
    ASSUME TypeOK, PendingOwned, NEW u \in Threads, EjectCard(u)
    PROVE  PendingOwned'
<1>b. /\ Sleep(u, "shutdown", NoLocals) /\ pc[u] = "idle"
      /\ state' = BeginShutdown(state) /\ vcc' = vcc
      /\ registered /\ registered' = registered /\ "PRESENT" \in state
  BY DEF EjectCard, Calls
<1>a. /\ state \in SUBSET Bits /\ vcc \in BOOLEAN /\ "shutdown" \in Places
  BY DEF TypeOK, Places
<1>0. /\ pc' \in [Threads -> Places] /\ loc' \in [Threads -> Locals]
      /\ pc'[u] = "shutdown"
      /\ \A o \in Threads : o # u => pc'[o] = pc[o]
  BY <1>a, <1>b, SleepType, LocalsType
<1>1. Untouched'
  BY <1>0, <1>a, <1>b DEF PendingOwned, Untouched, Has,
      BeginShutdown, EVENT_MASK
<1>2. ShutdownOwned'
  BY <1>0, <1>a, <1>b DEF PendingOwned, ShutdownOwned, Has,
      BeginShutdown, EVENT_MASK
<1>3. SetupOwned'
  BY <1>0, <1>a, <1>b DEF PendingOwned, SetupOwned, Resetting, Has,
      BeginShutdown, EVENT_MASK
<1>4. SetupResets'
  BY <1>0, <1>a, <1>b DEF PendingOwned, SetupResets, OnlyPresent, SomeResetting, Resetting, Has,
      BeginShutdown, EVENT_MASK
<1>5. ResetOwned'
  BY <1>0, <1>a, <1>b DEF PendingOwned, ResetOwned, ResetTwice, SomeResetting, Resetting, Has,
      BeginShutdown, EVENT_MASK
<1>6. ResetTwice'
  BY <1>0, <1>a, <1>b DEF PendingOwned, ResetTwice, SetupResets, OnlyPresent,
      SomeResetting, Resetting, Has,
      BeginShutdown, EVENT_MASK
<1>7. OnlyPresent'
  BY <1>0, <1>a, <1>b DEF PendingOwned, OnlyPresent, Has,
      BeginShutdown, EVENT_MASK
<1>8. WakingOnly'
  BY <1>0, <1>a, <1>b DEF PendingOwned, WakingOnly, SomeResetting, Resetting, Has,
      BeginShutdown, EVENT_MASK
<1>9. QED
  BY <1>1, <1>2, <1>3, <1>4, <1>5, <1>6, <1>7, <1>8 DEF PendingOwned

LEMMA TaskOwned ==
    ASSUME TypeOK, PendingOwned, Task
    PROVE  PendingOwned'
<1>0. keventd \in Threads /\ state \in SUBSET Bits
  BY DEF Threads, TypeOK
<1>1. registered' = registered /\ pc[keventd] \in {"idle", "again", "asleep"}
  BY DEF Task
<1>2. CASE card # kDetect /\ registered
  <2>1. ParseEvents(keventd, state) /\ vcc' = vcc
    BY <1>2 DEF Task, TaskLoop
  <2>2. QED
    BY <1>0, <1>1, <1>2, <2>1, ParseEventsOwned
<1>3. CASE card # kDetect /\ ~registered
  <2>1. Return(keventd) /\ state' = state /\ vcc' = vcc
    BY <1>3 DEF Task, TaskLoop, csVars
  <2>2. /\ pc'[keventd] \in {"idle", "again"}
        /\ \A o \in Threads : o # keventd => pc'[o] = pc[o]
    BY <1>0, <2>1, ReturnType
  <2>3. QED
    BY <1>0, <1>1, <2>1, <2>2, QuietOwned
<1>4. CASE card = kDetect
  <2>1. Sleep(keventd, "idle", NoLocals) /\ state' = state /\ vcc' = vcc
    BY <1>4 DEF Task, TaskLoop, csVars
  <2>2. /\ pc'[keventd] = "idle"
        /\ \A o \in Threads : o # keventd => pc'[o] = pc[o]
    BY <1>0, <2>1 DEF Sleep, TypeOK
  <2>3. QED
    BY <1>0, <1>1, <2>1, <2>2, QuietOwned
<1>5. QED
  BY <1>2, <1>3, <1>4

LEMMA UserOwned ==
    ASSUME TypeOK, PendingOwned, NEW u \in Users, UserCall(u) \/ PmResume(u)
    PROVE  PendingOwned'
<1>0. u \in Threads /\ state \in SUBSET Bits /\ vcc \in BOOLEAN
  BY DEF Threads, TypeOK
<1>s. /\ state \cup {"SETUP_PENDING"} \in SUBSET Bits
      /\ {"SETUP_PENDING"} \in SUBSET Bits /\ {} \in SUBSET Bits
  BY <1>0 DEF Bits
<1>1. CASE Register(u)
  <2>1. /\ SetupSocket(u, state \cup {"SETUP_PENDING"}, {"SETUP_PENDING"}, "insert")
        /\ registered' = TRUE /\ ~registered /\ pc[u] = "idle"
    BY <1>1 DEF Register, Calls
  <2>2. ~Has("PRESENT")
    BY <2>1 DEF PendingOwned, Untouched, Has
  <2>3. QED
    BY <1>0, <1>s, <2>1, <2>2, SetupSocketOwned
<1>2. CASE CardStatus(u)
  BY <1>2, SameOwned DEF CardStatus, csVars, thrVars
<1>3. CASE ResetCard(u)
  BY <1>0, <1>3, ResetCardOwned
<1>4. CASE SuspendCard(u)
  <2>1. SuspendSocket /\ pc[u] = "idle" /\ pc' = pc /\ registered'
    BY <1>4 DEF SuspendCard, Calls, thrVars
  <2>2. QED
    BY <1>0, <2>1, SuspendOwned
<1>5. CASE ResumeCard(u)
  <2>1. /\ SetupSocket(u, state, {}, "resume") /\ registered' /\ pc[u] = "idle"
    BY <1>5 DEF ResumeCard, Calls
  <2>2. QED
    BY <1>0, <1>s, <2>1, SetupSocketOwned
<1>6. CASE EjectCard(u)
  BY <1>0, <1>6, EjectCardOwned
<1>7. CASE InsertCard(u)
  <2>1. /\ SetupSocket(u, state \cup {"SETUP_PENDING"}, {"SETUP_PENDING"}, "insert")
        /\ registered' /\ pc[u] = "idle" /\ ~Has("PRESENT")
    BY <1>7 DEF InsertCard, Calls, Has
  <2>2. QED
    BY <1>0, <1>s, <2>1, SetupSocketOwned
<1>8. CASE PmSuspend(u)
  <2>1. /\ Sleep(u, "asleep", NoLocals) /\ pc[u] = "idle"
        /\ registered /\ registered' = registered
    BY <1>8 DEF PmSuspend, Calls
  <2>2. pc'[u] = "asleep" /\ \A o \in Threads : o # u => pc'[o] = pc[o]
    BY <1>0, <2>1 DEF Sleep, TypeOK
  <2>3. CASE SuspendSocket
    BY <1>0, <2>1, <2>2, <2>3, SuspendOwned
  <2>4. CASE UNCHANGED csVars
    BY <1>0, <2>1, <2>2, <2>4, QuietOwned DEF csVars
  <2>5. QED
    BY <1>8, <2>3, <2>4 DEF PmSuspend
<1>9. CASE PmResume(u)
  <2>1. pc[u] = "asleep" /\ vcc' = FALSE /\ registered' = registered
    BY <1>9 DEF PmResume
  <2>2. registered
    BY <1>0, <2>1 DEF PendingOwned, Untouched
  <2>3. CASE ParseEvents(u, state)
    BY <1>0, <2>1, <2>2, <2>3, ParseEventsOwned
  <2>4. CASE Return(u) /\ state' = state
    <3>1. /\ pc'[u] \in {"idle", "again"}
          /\ \A o \in Threads : o # u => pc'[o] = pc[o]
      BY <1>0, <2>4, ReturnType
    <3>2. QED
      BY <1>0, <2>1, <2>4, <3>1, QuietOwned
  <2>5. QED
    BY <1>9, <2>3, <2>4 DEF PmResume
<1>10. QED
  BY <1>1, <1>2, <1>3, <1>4, <1>5, <1>6, <1>7, <1>8, <1>9 DEF UserCall

LEMMA NextOwned == TypeOK /\ PendingOwned /\ [Next]_vars => PendingOwned'
<1>1. ASSUME TypeOK, PendingOwned, Next PROVE PendingOwned'
  <2>1. keventd \in Threads /\ Users \subseteq Threads
    BY DEF Threads
  <2>2. CASE Move \/ PollEvent
    BY <1>1, <2>2, SameOwned DEF Move, PollEvent, csVars, thrVars
  <2>3. QED
    BY <1>1, <2>1, <2>2, TaskOwned, WakeOwned, UserOwned DEF Next
<1>2. ASSUME PendingOwned, UNCHANGED vars PROVE PendingOwned'
  BY <1>2, SameOwned DEF vars, csVars, thrVars
<1>3. QED
  BY <1>1, <1>2

\* At rest nobody is there to own a bit.
LEMMA OwnedAtRest == TypeOK /\ PendingOwned => NothingPending /\ HotOnlyWithCard
<1>1. SUFFICES ASSUME TypeOK, PendingOwned, AtRest
               PROVE  /\ state \subseteq {"PRESENT", "SUSPEND"}
                      /\ vcc => Present /\ ~Suspended
  BY DEF NothingPending, HotOnlyWithCard
<1>2. ~SomeResetting
  BY <1>1 DEF AtRest, SomeResetting, Resetting
<1>3. ~Has("SHUTDOWN_PENDING") /\ ~Has("SETUP_PENDING")
  BY <1>1 DEF AtRest, PendingOwned, ShutdownOwned, SetupOwned, Resetting
<1>4. ~Has("RESET_PENDING")
  BY <1>1, <1>2, <1>3 DEF PendingOwned, ResetOwned
<1>5. vcc => Present /\ ~Suspended
  BY <1>1, <1>2 DEF PendingOwned, OnlyPresent, WakingOnly, Has, Present, Suspended
<1>6. QED
  BY <1>1, <1>3, <1>4, <1>5 DEF TypeOK, Bits, Has

\* At every moment each pending bit of s->state has a thread that will clear it.
THEOREM PendingBitsOwned == Spec => []PendingOwned
BY InitOwned, NextOwned, TypeCorrect, PTL DEF Spec

\* However the threads cross in Card Services, none of the pending bits of
\* s->state outlives them.
THEOREM NothingPendingCorrect == Spec => []NothingPending
BY OwnedAtRest, TypeCorrect, PendingBitsOwned, PTL

\* However they cross, shutdown_socket(), suspend_socket() and setup_socket()
\* never leave an empty or a suspended socket hot.
THEOREM HotOnlyWithCardCorrect == Spec => []HotOnlyWithCard
BY OwnedAtRest, TypeCorrect, PendingBitsOwned, PTL
=============================================================================
