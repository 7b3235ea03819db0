------------------------- MODULE SocketAloneProofs --------------------------
(***************************************************************************)
(* Proofs about SocketServices, of what Card Services promises as long as  *)
(* the calls of its users do not cross: that it knows whether there is a   *)
(* card, that its clients do, and that they are sent the event that        *)
(* matches the cause of a reset.                                           *)
(*                                                                         *)
(* AloneInv says what a thread finds at each of its sleeps if no other one *)
(* entered meanwhile.  It is inductive together with PendingOwned, which   *)
(* holds however the calls cross.                                          *)
(***************************************************************************)
EXTENDS SocketServicesProofs

Inside(t) == pc[t] \in {"shutdown", "setup", "settle", "unreset"}

\* The bits of s->state, and the power, at each sleep of t.
Phase(t) ==
    /\ pc[t] = "shutdown" => ~Has("SETUP_PENDING")
    /\ pc[t] \in {"setup", "settle", "unreset"} =>
        /\ loc[t].cause = "insert" => Has("SETUP_PENDING") /\ ~Has("SUSPEND")
        /\ loc[t].cause = "resume" => Has("SUSPEND")
        /\ loc[t].cause = "reset"  => ~Has("SETUP_PENDING") /\ pc[t] = "unreset"
    /\ pc[t] = "setup" => (Has("PRESENT") <=> loc[t].cause = "resume")
    /\ pc[t] \in {"settle", "unreset"} =>
        Has("PRESENT") /\ (loc[t].cause # "reset" => vcc)

\* What t has seen of the card is still the last sample.
Counts == registered /\ ~missed /\ ~ejected
Seen(t) ==
    Counts =>
        /\ pc[t] = "shutdown" => (loc[t].status <=> kDetect)
        /\ pc[t] \in {"setup", "settle", "unreset"} => kDetect

\* What the clients have been told.
Served(t) ==
    ~unready =>
        /\ pc[t] = "shutdown" => ~announced
        /\ pc[t] \in {"setup", "settle", "unreset"} =>
            /\ announced <=> loc[t].cause # "insert"
            /\ loc[t].cause = "reset" => vcc /\ ~Has("SUSPEND")

\* What holds when nobody is inside.
Quiet ==
    /\ Counts => (Has("PRESENT") <=> kDetect)
    /\ ~unready => /\ announced <=> Has("PRESENT")
                   /\ Has("PRESENT") /\ ~Has("SUSPEND") => vcc

\* Unless calls crossed, one thread at most is inside, and finds what it left.
AloneInv ==
    ~crossed =>
        /\ \A t, o \in Threads : Inside(t) /\ Inside(o) => t = o
        /\ \A t \in Threads : Phase(t) /\ Seen(t) /\ Served(t)
        /\ (\A t \in Threads : ~Inside(t)) => Quiet

-----------------------------------------------------------------------------
(* The parts of a step.                                                    *)

\* Only the thread that goes to sleep changes its place and its locals.
LEMMA SleepMoves ==
    ASSUME TypeOK, NEW t \in Threads, NEW p, NEW l, Sleep(t, p, l)
    PROVE  /\ pc'[t] = p /\ loc'[t] = l
           /\ \A o \in Threads : o # t => pc'[o] = pc[o] /\ loc'[o] = loc[o]
  BY DEF TypeOK, Sleep

\* A thread that returns is outside, and only it moves.
LEMMA ReturnMoves ==
    ASSUME TypeOK, NEW t \in Threads, Return(t)
    PROVE  /\ pc'[t] \in {"idle", "again"}
           /\ \A o \in Threads : o # t => pc'[o] = pc[o] /\ loc'[o] = loc[o]
  <1>1. /\ pc'[t] = IF t = keventd THEN "again" ELSE "idle"
        /\ \A o \in Threads : o # t => pc'[o] = pc[o] /\ loc'[o] = loc[o]
    BY SleepMoves DEF Return
  <1> QED BY <1>1

\* get_status() leaves k_state as it is, or takes a change away.
LEMMA GetStatusSees ==
    ASSUME GetStatus
    PROVE  /\ kDetect' <=> card
           /\ ~missed' => ~missed /\ card = kDetect /\ kDetect' = kDetect
  BY Zenon DEF GetStatus

\* Whoever enters without crossing is alone.
LEMMA EnterAlone ==
    ASSUME NEW t \in Threads, Enter(t), ~crossed'
    PROVE  ~crossed /\ Alone(t)
  BY Zenon DEF Enter

\* While t is alone the others are outside, and stay there.
LEMMA OthersOut ==
    ASSUME NEW t \in Threads, Alone(t), \A o \in Threads : o # t => pc'[o] = pc[o]
    PROVE  \A o \in Threads : o # t => ~Inside(o) /\ ~Inside(o)'
  BY DEF Alone, Inside

\* If nobody is inside nothing is pending.
LEMMA NothingPends ==
    ASSUME TypeOK, PendingOwned, \A o \in Threads : ~Inside(o)
    PROVE  state \subseteq {"PRESENT", "SUSPEND"}
  BY DEF TypeOK, Bits, PendingOwned, ShutdownOwned, SetupOwned, ResetOwned, SomeResetting,
         Resetting, Inside, Has

\* If the others are outside it is enough to look at t.
LEMMA LoneAfter ==
    ASSUME NEW t \in Threads, \A o \in Threads : o # t => ~Inside(o)',
           Phase(t)', Seen(t)', Served(t)', ~Inside(t)' => Quiet'
    PROVE  AloneInv'
  <1>1. \A o \in Threads : o # t => (Phase(o) /\ Seen(o) /\ Served(o))'
    BY DEF Inside, Phase, Seen, Served
  <1> QED BY <1>1 DEF AloneInv

\* Steps that leave Card Services alone, except that they may sample the socket,
\* or turn off the power of an empty one.
LEMMA StillAlone ==
    ASSUME TypeOK, AloneInv, ~crossed' => ~crossed,
           \A t \in Threads : \/ pc'[t] = pc[t] /\ loc'[t] = loc[t]
                              \/ ~Inside(t) /\ ~Inside(t)',
           ~missed' => ~missed /\ kDetect' = kDetect,
           vcc' = vcc \/ ~Has("PRESENT"),
           UNCHANGED <<state, registered, ejected, announced, unready>>
    PROVE  AloneInv'
  <1> SUFFICES ASSUME ~crossed' PROVE AloneInv'
    BY DEF AloneInv
  <1>1. \A t \in Threads : Inside(t)' => Inside(t) /\ pc'[t] = pc[t] /\ loc'[t] = loc[t]
    BY DEF Inside
  <1>2. \A t \in Threads : Phase(t)' /\ Seen(t)' /\ Served(t)'
    <2> SUFFICES ASSUME NEW t \in Threads, Inside(t)'
                 PROVE  Phase(t)' /\ Seen(t)' /\ Served(t)'
      BY DEF Inside, Phase, Seen, Served
    <2>1. Phase(t) /\ Seen(t) /\ Served(t) /\ pc'[t] = pc[t] /\ loc'[t] = loc[t]
      BY <1>1 DEF AloneInv
    <2>2. Phase(t)'
      BY <2>1 DEF Phase, Has
    <2>3. Seen(t)'
      BY <2>1 DEF Seen, Counts
    <2>4. Served(t)'
      BY <2>1 DEF Served, Phase, Has
    <2> QED BY <2>2, <2>3, <2>4
  <1>3. (\A t \in Threads : ~Inside(t)') => Quiet'
    <2> SUFFICES ASSUME \A t \in Threads : ~Inside(t)' PROVE Quiet'
      OBVIOUS
    <2>1. \A t \in Threads : ~Inside(t)
      BY DEF Inside
    <2>2. Quiet
      BY <2>1 DEF AloneInv
    <2> QED BY <2>2 DEF Quiet, Counts, Has
  <1>4. \A t, o \in Threads : Inside(t)' /\ Inside(o)' => t = o
    BY <1>1 DEF AloneInv
  <1> QED BY <1>2, <1>3, <1>4 DEF AloneInv

\* setup_socket() by a thread that is alone.
LEMMA SetupAlone ==
    ASSUME TypeOK, NEW t \in Threads, NEW s \in SUBSET Bits,
           NEW unset \in SUBSET {"SETUP_PENDING"}, NEW why \in {"insert", "resume"},
           SetupSocket(t, s, unset, why), GetStatus,
           \A o \in Threads : o # t => ~Inside(o),
           unready' = unready, announced' = announced,
           why = "insert" => "SETUP_PENDING" \in s /\ "SUSPEND" \notin s,
           why = "resume" => "SUSPEND" \in s,
           "PRESENT" \in s <=> why = "resume",
           ~unready => (announced <=> why = "resume"),
           "PRESENT" \in s /\ registered' /\ ~missed /\ ~ejected => kDetect
    PROVE  AloneInv'
  <1>1. CASE card
    <2>1. /\ Sleep(t, "settle", For(why)) /\ state' = s \cup {"PRESENT"} /\ vcc'
      BY <1>1, Zenon DEF SetupSocket
    <2>2. /\ pc'[t] = "settle" /\ loc'[t].cause = why
          /\ \A o \in Threads : o # t => pc'[o] = pc[o]
      BY <2>1, SleepMoves DEF For
    <2>3. kDetect'
      BY <1>1, GetStatusSees
    <2>4. Phase(t)' /\ Served(t)'
      BY <2>1, <2>2 DEF Phase, Served, Has
    <2>5. Seen(t)' /\ Inside(t)'
      BY <2>2, <2>3 DEF Seen, Inside
    <2>6. \A o \in Threads : o # t => ~Inside(o)'
      BY <2>2 DEF Inside
    <2> QED BY <2>4, <2>5, <2>6, LoneAfter
  <1>2. CASE ~card
    <2>1. /\ Return(t) /\ state' = s \ unset /\ vcc' = vcc /\ ejected' = ejected
      BY <1>2 DEF SetupSocket
    <2>2. /\ pc'[t] \in {"idle", "again"}
          /\ \A o \in Threads : o # t => pc'[o] = pc[o]
      BY <2>1, ReturnMoves
    <2>3. ~kDetect' /\ (~missed' => ~missed /\ ~kDetect)
      BY <1>2, GetStatusSees
    <2>4. Phase(t)' /\ Served(t)' /\ Seen(t)' /\ \A o \in Threads : ~Inside(o)'
      BY <2>2 DEF Phase, Served, Seen, Inside
    <2>5. Quiet'
      BY <2>1, <2>3 DEF Quiet, Counts, Has
    <2> QED BY <2>4, <2>5, LoneAfter
  <1> QED BY <1>1, <1>2

\* do_shutdown() begins: whatever happened before, t is alone from now on.
LEMMA ShutdownBegins ==
    ASSUME TypeOK, NEW t \in Threads, NEW s \in SUBSET Bits, Alone(t), NEW d,
           Sleep(t, "shutdown", d), state' = BeginShutdown(s), ~announced',
           Counts' => (d.status <=> kDetect')
    PROVE  AloneInv'
  <1>1. /\ pc'[t] = "shutdown" /\ loc'[t] = d
        /\ \A o \in Threads : o # t => pc'[o] = pc[o]
    BY SleepMoves
  <1>2. ~Has("SETUP_PENDING")'
    BY DEF BeginShutdown, EVENT_MASK, Has
  <1>3. Phase(t)' /\ Served(t)' /\ Seen(t)' /\ Inside(t)'
    BY <1>1, <1>2 DEF Phase, Served, Seen, Inside
  <1> QED BY <1>1, <1>3, OthersOut, LoneAfter

\* parse_events() by a thread that comes from outside, ...
LEMMA ParseAlone ==
    ASSUME TypeOK, PendingOwned, AloneInv, NEW t \in Threads, ~Inside(t),
           ParseEvents(t, state), unready' = unready, registered' = registered
    PROVE  AloneInv'
  <1> SUFFICES ASSUME ~crossed' PROVE AloneInv'
    BY DEF AloneInv
  <1>0. kDetect' = card /\ state \in SUBSET Bits
    BY DEF ParseEvents, TypeOK
  <1>1. CASE MustShutdown(state)
    <2>1. /\ Sleep(t, "shutdown", Saw(card)) /\ state' = BeginShutdown(state)
          /\ ~announced' /\ Alone(t)
      BY <1>1, Zenon DEF ParseEvents
    <2>2. Saw(card).status = card
      BY DEF Saw
    <2> QED BY <1>0, <2>1, <2>2, ShutdownBegins
  <1>2. CASE ~MustShutdown(state)
    <2>1. /\ AfterShutdown(t, state, card) /\ Enter(t) /\ announced' = announced
      BY <1>2 DEF ParseEvents
    <2>2. ~crossed /\ Alone(t)
      BY <2>1, EnterAlone
    <2>3. \A o \in Threads : ~Inside(o)
      BY <2>2 DEF Alone, Inside
    <2>4. state \subseteq {"PRESENT", "SUSPEND"} /\ Quiet
      BY <2>2, <2>3, NothingPends DEF AloneInv
    <2>5. Has("PRESENT") => Has("SUSPEND") /\ card
      BY <1>2, <2>4 DEF MustShutdown, Has
    <2>6. Has("SUSPEND") => Has("PRESENT")
      BY DEF PendingOwned, OnlyPresent
    <2>7. CASE card
      <3> DEFINE why == IF "SUSPEND" \in state THEN "resume" ELSE "insert"
      <3>1. state' = state \cup {"SETUP_PENDING"} /\ Sleep(t, "setup", For(why))
        BY <2>1, <2>4, <2>7 DEF AfterShutdown
      <3>2. /\ pc'[t] = "setup" /\ loc'[t].cause = why
            /\ \A o \in Threads : o # t => pc'[o] = pc[o]
        BY <3>1, SleepMoves DEF For
      <3>3. Phase(t)'
        BY <3>1, <3>2, <2>5, <2>6 DEF Phase, Has
      <3>4. Served(t)'
        BY <3>1, <3>2, <2>1, <2>4, <2>5, <2>6 DEF Served, Quiet, Has
      <3>5. Seen(t)' /\ Inside(t)'
        BY <3>2, <2>7, <1>0 DEF Seen, Inside
      <3> QED BY <2>2, <3>2, <3>3, <3>4, <3>5, OthersOut, LoneAfter
    <2>8. CASE ~card
      <3>1. state' = state /\ Return(t)
        BY <2>1, <2>8 DEF AfterShutdown
      <3>2. /\ pc'[t] \in {"idle", "again"}
            /\ \A o \in Threads : o # t => pc'[o] = pc[o]
        BY <3>1, ReturnMoves
      <3>3. Phase(t)' /\ Served(t)' /\ Seen(t)'
        BY <3>2 DEF Phase, Served, Seen, Inside
      <3>4. Quiet'
        BY <1>0, <2>1, <2>4, <2>5, <2>8, <3>1 DEF Quiet, Has
      <3> QED BY <2>2, <3>2, <3>3, <3>4, OthersOut, LoneAfter
    <2> QED BY <2>7, <2>8
  <1> QED BY <1>1, <1>2

\* ... and by one whose card turns out to be another one after a resume.
LEMMA ParseChanged ==
    ASSUME TypeOK, PendingOwned, AloneInv, NEW t \in Threads, pc[t] = "unreset",
           ParseEvents(t, state \ EVENT_MASK)
    PROVE  AloneInv'
  <1> SUFFICES ASSUME ~crossed' PROVE AloneInv'
    BY DEF AloneInv
  <1> DEFINE s == state \ EVENT_MASK
  <1>0. kDetect' = card /\ s \in SUBSET Bits
    BY DEF ParseEvents, TypeOK
  <1>1. CASE MustShutdown(s)
    <2>1. /\ Sleep(t, "shutdown", Saw(card)) /\ state' = BeginShutdown(s)
          /\ ~announced' /\ Alone(t)
      BY <1>1, Zenon DEF ParseEvents
    <2>2. Saw(card).status = card
      BY DEF Saw
    <2> QED BY <1>0, <2>1, <2>2, ShutdownBegins
  <1>2. CASE ~MustShutdown(s)
    <2>1. Enter(t)
      BY <1>2 DEF ParseEvents
    <2>2. ~crossed /\ Alone(t)
      BY <2>1, EnterAlone
    <2>3. Has("PRESENT")
      BY <2>2 DEF AloneInv, Phase
    <2>4. Has("SHUTDOWN_PENDING")
      BY <1>2, <2>3 DEF MustShutdown, Has, EVENT_MASK
    <2>5. PICK o \in Threads : pc[o] = "shutdown"
      BY <2>4 DEF PendingOwned, ShutdownOwned
    <2> QED BY <2>2, <2>5 DEF Alone
  <1> QED BY <1>1, <1>2
-----------------------------------------------------------------------------
(* The steps of a thread that wakes up.                                    *)

\* shutdown_socket(), after which only a card that was sampled is set up.
LEMMA ShutdownAlone ==
    ASSUME TypeOK, AloneInv, NEW t \in Threads, Shutdown(t)
    PROVE  AloneInv'
  <1> SUFFICES ASSUME ~crossed' PROVE AloneInv'
    BY DEF AloneInv
  <1>1. /\ pc[t] = "shutdown" /\ Inside(t) /\ ~crossed /\ kDetect' = kDetect
        /\ registered' = registered /\ missed' = missed /\ ejected' = ejected
        /\ announced' = announced /\ unready' = unready
        /\ AfterShutdown(t, state \cap {"SETUP_PENDING"}, loc[t].status)
    BY DEF Shutdown, histVars, Inside
  <1>2. Phase(t) /\ Seen(t) /\ Served(t) /\ \A o \in Threads : o # t => ~Inside(o)
    BY <1>1 DEF AloneInv
  <1>3. state \cap {"SETUP_PENDING"} = {}
    BY <1>1, <1>2 DEF Phase, Has
  <1>4. CASE loc[t].status
    <2>1. state' = {"SETUP_PENDING"} /\ Sleep(t, "setup", For("insert"))
      BY <1>1, <1>3, <1>4 DEF AfterShutdown
    <2>2. /\ pc'[t] = "setup" /\ loc'[t].cause = "insert"
          /\ \A o \in Threads : o # t => pc'[o] = pc[o]
      BY <2>1, SleepMoves DEF For
    <2>3. Phase(t)' /\ Served(t)'
      BY <1>1, <1>2, <2>1, <2>2 DEF Phase, Served, Has
    <2>4. Seen(t)' /\ Inside(t)'
      BY <1>1, <1>2, <1>4, <2>2 DEF Seen, Counts, Inside
    <2>5. \A o \in Threads : o # t => ~Inside(o)'
      BY <1>2, <2>2 DEF Inside
    <2> QED BY <2>3, <2>4, <2>5, LoneAfter
  <1>5. CASE ~loc[t].status
    <2>1. state' = {} /\ Return(t)
      BY <1>1, <1>3, <1>5 DEF AfterShutdown
    <2>2. /\ pc'[t] \in {"idle", "again"}
          /\ \A o \in Threads : o # t => pc'[o] = pc[o]
      BY <2>1, ReturnMoves
    <2>3. Phase(t)' /\ Served(t)' /\ Seen(t)'
      BY <2>2 DEF Phase, Served, Seen
    <2>4. Quiet'
      BY <1>1, <1>2, <1>5, <2>1 DEF Quiet, Seen, Served, Counts, Has
    <2>5. \A o \in Threads : o # t => ~Inside(o)'
      BY <1>2, <2>2 DEF Inside
    <2> QED BY <2>3, <2>4, <2>5, LoneAfter
  <1> QED BY <1>4, <1>5

\* setup_socket(), after setup_delay.
LEMMA SetupStepAlone ==
    ASSUME TypeOK, AloneInv, NEW t \in Threads, Setup(t)
    PROVE  AloneInv'
  <1> SUFFICES ASSUME ~crossed' PROVE AloneInv'
    BY DEF AloneInv
  <1>1. /\ pc[t] = "setup" /\ Inside(t) /\ ~crossed /\ GetStatus
        /\ registered' = registered
        /\ announced' = announced /\ unready' = unready
        /\ SetupSocket(t, state, {"SETUP_PENDING"}, loc[t].cause)
    BY DEF Setup, Inside
  <1>2. Phase(t) /\ Seen(t) /\ Served(t) /\ \A o \in Threads : o # t => ~Inside(o)
    BY <1>1 DEF AloneInv
  <1>3. loc[t].cause \in {"insert", "resume", "reset"} /\ state \in SUBSET Bits
    BY DEF TypeOK, Locals
  <1>4. /\ loc[t].cause \in {"insert", "resume"}
        /\ loc[t].cause = "insert" => "SETUP_PENDING" \in state /\ "SUSPEND" \notin state
        /\ loc[t].cause = "resume" => "SUSPEND" \in state
        /\ "PRESENT" \in state <=> loc[t].cause = "resume"
    BY <1>1, <1>2, <1>3 DEF Phase, Has
  <1>5. ~unready => (announced <=> loc[t].cause = "resume")
    BY <1>1, <1>2, <1>4 DEF Served
  <1>6. registered' /\ ~missed /\ ~ejected => kDetect
    BY <1>1, <1>2 DEF Seen, Counts
  <1>7. {"SETUP_PENDING"} \in SUBSET {"SETUP_PENDING"}
    OBVIOUS
  <1> QED BY <1>1, <1>2, <1>3, <1>4, <1>5, <1>6, <1>7, SetupAlone

\* A thread that stays in the reset keeps what it knows.
LEMMA ResettingAlone ==
    ASSUME TypeOK, AloneInv, ~crossed, NEW t \in Threads, NEW l,
           pc[t] \in {"settle", "unreset"}, Sleep(t, "unreset", l),
           l.cause = loc[t].cause, ~missed' => ~missed /\ kDetect' = kDetect,
           UNCHANGED <<state, vcc, registered, ejected, announced, unready>>
    PROVE  AloneInv'
  <1>1. Inside(t) /\ Phase(t) /\ Seen(t) /\ Served(t)
    BY DEF AloneInv, Inside
  <1>2. \A o \in Threads : o # t => ~Inside(o)
    BY <1>1 DEF AloneInv
  <1>3. /\ pc'[t] = "unreset" /\ loc'[t].cause = loc[t].cause
        /\ \A o \in Threads : o # t => pc'[o] = pc[o]
    BY SleepMoves
  <1>4. Phase(t)' /\ Inside(t)'
    BY <1>1, <1>3 DEF Phase, Has, Inside
  <1>5. Served(t)'
    BY <1>1, <1>3 DEF Served, Has
  <1>6. Seen(t)'
    BY <1>1, <1>3 DEF Seen, Counts
  <1>7. \A o \in Threads : o # t => ~Inside(o)'
    BY <1>2, <1>3 DEF Inside
  <1> QED BY <1>4, <1>5, <1>6, <1>7, LoneAfter

\* unreset_socket() ends: the card it leaves is announced and powered, unless it
\* did not get ready.
LEMMA ExitAlone ==
    ASSUME TypeOK, AloneInv, ~crossed, NEW t \in Threads, pc[t] = "unreset",
           Return(t), GetStatus, NEW unset \in SUBSET EVENT_MASK, state' = state \ unset,
           UNCHANGED <<registered, ejected, vcc>>, ~unready' => announced' /\ vcc
    PROVE  AloneInv'
  <1>1. Inside(t) /\ Phase(t) /\ Seen(t)
    BY DEF AloneInv, Inside
  <1>2. \A o \in Threads : o # t => ~Inside(o)
    BY <1>1 DEF AloneInv
  <1>3. /\ pc'[t] \in {"idle", "again"}
        /\ \A o \in Threads : o # t => pc'[o] = pc[o]
    BY ReturnMoves
  <1>4. Phase(t)' /\ Served(t)' /\ Seen(t)' /\ \A o \in Threads : o # t => ~Inside(o)'
    BY <1>2, <1>3 DEF Phase, Served, Seen, Inside
  <1>5. Has("PRESENT")'
    BY <1>1 DEF Phase, Has, EVENT_MASK
  <1>6. Counts' => kDetect'
    BY <1>1, GetStatusSees DEF Seen, Counts
  <1>7. Quiet'
    BY <1>5, <1>6 DEF Quiet
  <1> QED BY <1>4, <1>7, LoneAfter

\* What unreset_socket() finds in s->state tells why the socket was reset.
LEMMA BitsTellCause ==
    ASSUME TypeOK, AloneInv, ~crossed, NEW t \in Threads, pc[t] = "unreset"
    PROVE  /\ loc[t].cause # "reset" => vcc
           /\ Has("SUSPEND") /\ ~unready => loc[t].cause = "resume"
           /\ ~Has("SUSPEND") /\ Has("SETUP_PENDING") => loc[t].cause = "insert"
           /\ ~Has("SUSPEND") /\ ~Has("SETUP_PENDING") => loc[t].cause = "reset"
           /\ ~unready => (announced <=> loc[t].cause # "insert")
           /\ ~unready /\ loc[t].cause = "reset" => vcc
  <1>1. Phase(t) /\ Served(t)
    BY DEF AloneInv
  <1>2. loc[t].cause \in {"insert", "resume", "reset"}
    BY DEF TypeOK, Locals
  <1>3. ~unready => (announced <=> loc[t].cause # "insert")
    BY <1>1 DEF Served
  <1>4. ~unready /\ loc[t].cause = "reset" => vcc /\ ~Has("SUSPEND")
    BY <1>1 DEF Served
  <1>5. /\ loc[t].cause # "reset" => vcc
        /\ loc[t].cause = "insert" => Has("SETUP_PENDING") /\ ~Has("SUSPEND")
        /\ loc[t].cause = "resume" => Has("SUSPEND")
        /\ loc[t].cause = "reset"  => ~Has("SETUP_PENDING")
    BY <1>1 DEF Phase
  <1> QED BY <1>2, <1>3, <1>4, <1>5

\* All of them.
LEMMA WakeAlone ==
    ASSUME TypeOK, PendingOwned, AloneInv, NEW t \in Threads, Wake(t)
    PROVE  AloneInv'
  <1> USE DEF Has
  <1>0. EVENT_MASK \in SUBSET EVENT_MASK /\ {"SETUP_PENDING"} \in SUBSET EVENT_MASK
    BY DEF EVENT_MASK
  <1>1. CASE Reset(t)
    <2>1. CASE crossed'
      BY <2>1 DEF AloneInv
    <2>2. CASE ~crossed'
      BY <1>1, <2>2, ResettingAlone DEF Reset, csVars, histVars
    <2> QED BY <2>1, <2>2
  <1>2. CASE NotReady(t)
    <2>0. GetStatus /\ pc[t] = "unreset" /\ crossed' = crossed /\ vcc' = vcc
          /\ registered' = registered /\ ejected' = ejected /\ announced' = announced
      BY <1>2 DEF NotReady
    <2>1. CASE crossed'
      BY <2>1 DEF AloneInv
    <2>2. CASE /\ ~crossed' /\ Sleep(t, "unreset", [loc[t] EXCEPT !.tries = @ + 1])
               /\ UNCHANGED <<state, unready>>
      <3> DEFINE l == [loc[t] EXCEPT !.tries = @ + 1]
      <3>1. l.cause = loc[t].cause /\ Sleep(t, "unreset", l)
        BY <2>2 DEF TypeOK, Locals
      <3>2. ~missed' => ~missed /\ kDetect' = kDetect
        BY <2>0, GetStatusSees
      <3>3. ~crossed /\ pc[t] \in {"settle", "unreset"}
        BY <2>0, <2>2
      <3>4. UNCHANGED <<state, vcc, registered, ejected, announced, unready>>
        BY <2>0, <2>2
      <3> HIDE DEF l
      <3> QED BY <3>3, <3>4, <2>0, <2>2, <3>1, <3>2, ResettingAlone
    <2>3. CASE ~crossed' /\ state' = state \ EVENT_MASK /\ unready' /\ Return(t)
      BY <1>0, <2>0, <2>3, ExitAlone
    <2> QED BY <1>2, <2>1, <2>2, <2>3 DEF NotReady
  <1>3. CASE ReadyAgain(t)
    <2>1. CASE crossed'
      BY <2>1 DEF AloneInv
    <2>2. CASE ParseEvents(t, state \ EVENT_MASK)
      BY <1>3, <2>2, ParseChanged DEF ReadyAgain
    <2>3. CASE /\ ~crossed' /\ GetStatus /\ state' = state \ EVENT_MASK /\ Return(t)
               /\ UNCHANGED <<ejected, announced, crossed>>
      <3>1. /\ pc[t] = "unreset" /\ "SUSPEND" \in state /\ vcc' = vcc
            /\ registered' = registered /\ unready' = unready
        BY <1>3 DEF ReadyAgain
      <3>2. ~unready' => announced' /\ vcc
        BY <2>3, <3>1, BitsTellCause
      <3> QED BY <1>0, <2>3, <3>1, <3>2, ExitAlone
    <2> QED BY <1>3, <2>1, <2>2, <2>3 DEF ReadyAgain
  <1>4. CASE ReadyNew(t)
    <2>1. CASE crossed'
      BY <2>1 DEF AloneInv
    <2>2. CASE ~crossed'
      <3>1. /\ pc[t] = "unreset" /\ "SUSPEND" \notin state /\ "SETUP_PENDING" \in state
            /\ GetStatus /\ state' = state \ {"SETUP_PENDING"} /\ announced'
            /\ Return(t) /\ UNCHANGED <<registered, vcc, ejected, crossed>>
        BY <1>4 DEF ReadyNew
      <3>2. vcc
        BY <2>2, <3>1, BitsTellCause
      <3> QED BY <1>0, <2>2, <3>1, <3>2, ExitAlone
    <2> QED BY <2>1, <2>2
  <1>5. CASE ReadyReset(t)
    <2>1. CASE crossed'
      BY <2>1 DEF AloneInv
    <2>2. CASE ~crossed'
      <3>1. /\ pc[t] = "unreset" /\ "SUSPEND" \notin state /\ "SETUP_PENDING" \notin state
            /\ GetStatus /\ state' = state \ EVENT_MASK
            /\ Return(t)
            /\ UNCHANGED <<registered, vcc, ejected, crossed, announced, unready>>
        BY <1>5 DEF ReadyReset
      <3>2. ~unready => announced /\ vcc
        BY <2>2, <3>1, BitsTellCause
      <3> QED BY <1>0, <2>2, <3>1, <3>2, ExitAlone
    <2> QED BY <2>1, <2>2
  <1> QED BY <1>1, <1>2, <1>3, <1>4, <1>5, ShutdownAlone, SetupStepAlone DEF Wake
-----------------------------------------------------------------------------
(* The steps of a thread that enters Card Services.                        *)

\* What it finds there, if it does not cross another one.
LEMMA EntersQuiet ==
    ASSUME TypeOK, PendingOwned, AloneInv, NEW t \in Threads, pc[t] = "idle", Enter(t),
           ~crossed'
    PROVE  /\ ~crossed /\ Alone(t) /\ Quiet /\ \A o \in Threads : ~Inside(o)
           /\ state \subseteq {"PRESENT", "SUSPEND"} /\ state \in SUBSET Bits
           /\ Has("SUSPEND") => Has("PRESENT")
  <1>1. ~crossed /\ Alone(t)
    BY EnterAlone
  <1>2. \A o \in Threads : ~Inside(o)
    BY <1>1 DEF Alone, Inside
  <1>3. Quiet
    BY <1>1, <1>2 DEF AloneInv
  <1>4. state \in SUBSET Bits /\ (Has("SUSPEND") => Has("PRESENT"))
    BY DEF TypeOK, PendingOwned, OnlyPresent
  <1> QED BY <1>1, <1>2, <1>3, <1>4, NothingPends

\* sa1100_pcmcia_task_handler().
LEMMA TaskAlone ==
    ASSUME TypeOK, PendingOwned, AloneInv, Task
    PROVE  AloneInv'
  <1>0. keventd \in Threads
    BY DEF Threads
  <1>1. ~Inside(keventd) /\ registered' = registered /\ TaskLoop
    BY DEF Task, Inside
  <1>2. CASE ParseEvents(keventd, state) /\ unready' = unready
    BY <1>0, <1>1, <1>2, ParseAlone
  <1>3. CASE /\ GetStatus /\ Return(keventd)
             /\ UNCHANGED <<csVars, ejected, announced, unready, crossed>>
    <2>1. /\ pc'[keventd] \in {"idle", "again"}
          /\ \A o \in Threads : o # keventd => pc'[o] = pc[o] /\ loc'[o] = loc[o]
      BY <1>0, <1>3, ReturnMoves
    <2>2. ~missed' => ~missed /\ kDetect' = kDetect
      BY <1>3, GetStatusSees
    <2>3. ~Inside(keventd)'
      BY <2>1 DEF Inside
    <2> QED BY <1>1, <1>3, <2>1, <2>2, <2>3, StillAlone DEF csVars
  <1>4. CASE Sleep(keventd, "idle", NoLocals) /\ UNCHANGED <<kDetect, csVars, histVars>>
    <2>1. /\ pc'[keventd] = "idle"
          /\ \A o \in Threads : o # keventd => pc'[o] = pc[o] /\ loc'[o] = loc[o]
      BY <1>0, <1>4, SleepMoves
    <2>2. ~Inside(keventd)'
      BY <2>1 DEF Inside
    <2> QED BY <1>1, <1>4, <2>1, <2>2, StillAlone DEF csVars, histVars
  <1> QED BY <1>1, <1>2, <1>3, <1>4 DEF TaskLoop

\* pcmcia_register_client() and pcmcia_insert_card(): there is no card yet.
LEMMA InsertAlone ==
    ASSUME TypeOK, PendingOwned, AloneInv, NEW u \in Threads, pc[u] = "idle", Enter(u),
           GetStatus, ~Has("PRESENT"), UNCHANGED <<announced, unready>>,
           SetupSocket(u, state \cup {"SETUP_PENDING"}, {"SETUP_PENDING"}, "insert")
    PROVE  AloneInv'
  <1> SUFFICES ASSUME ~crossed' PROVE AloneInv'
    BY DEF AloneInv
  <1> DEFINE s == state \cup {"SETUP_PENDING"}
  <1>1. /\ Quiet /\ \A o \in Threads : ~Inside(o)
        /\ state \in SUBSET Bits /\ ~Has("SUSPEND")
    BY EntersQuiet
  <1>2. ~unready => ~announced
    BY <1>1 DEF Quiet
  <1>3. /\ s \in SUBSET Bits /\ "SETUP_PENDING" \in s /\ "SUSPEND" \notin s
        /\ "PRESENT" \notin s /\ SetupSocket(u, s, {"SETUP_PENDING"}, "insert")
    BY <1>1 DEF Bits, Has
  <1>4. {"SETUP_PENDING"} \in SUBSET {"SETUP_PENDING"} /\ "insert" \in {"insert", "resume"}
    OBVIOUS
  <1> HIDE DEF s
  <1> QED BY <1>1, <1>2, <1>3, <1>4, SetupAlone

\* pcmcia_resume_card(), of a card the clients know.
LEMMA ResumeAlone ==
    ASSUME TypeOK, PendingOwned, AloneInv, NEW u \in Threads, ResumeCard(u)
    PROVE  AloneInv'
  <1> SUFFICES ASSUME ~crossed' PROVE AloneInv'
    BY DEF AloneInv
  <1>0. /\ pc[u] = "idle" /\ Enter(u) /\ GetStatus /\ SetupSocket(u, state, {}, "resume")
        /\ "PRESENT" \in state /\ "SUSPEND" \in state /\ registered' = registered
        /\ announced' = announced /\ unready' = unready
    BY DEF ResumeCard, Calls
  <1>1. /\ Quiet /\ \A o \in Threads : ~Inside(o) /\ state \in SUBSET Bits
    BY <1>0, EntersQuiet
  <1>2. ~unready => announced
    BY <1>0, <1>1 DEF Quiet, Has
  <1>3. registered' /\ ~missed /\ ~ejected => kDetect
    BY <1>0, <1>1 DEF Quiet, Counts, Has
  <1>4. {} \in SUBSET {"SETUP_PENDING"} /\ "resume" \in {"insert", "resume"}
    OBVIOUS
  <1> QED BY <1>0, <1>1, <1>2, <1>3, <1>4, SetupAlone

\* pcmcia_reset_card(), of a card that is powered unless it is suspended.
LEMMA ResetCardAlone ==
    ASSUME TypeOK, PendingOwned, AloneInv, NEW u \in Threads, ResetCard(u)
    PROVE  AloneInv'
  <1> SUFFICES ASSUME ~crossed' PROVE AloneInv'
    BY DEF AloneInv
  <1>0. /\ pc[u] = "idle" /\ Enter(u) /\ "PRESENT" \in state
        /\ state' = state \cup {"RESET_PENDING"} /\ Sleep(u, "unreset", For("reset"))
        /\ UNCHANGED <<kDetect, registered, vcc, missed, ejected, announced>>
    BY DEF ResetCard, Calls
  <1>1. ~unready' => ~unready /\ "SUSPEND" \notin state
    BY Zenon DEF ResetCard
  <1>2. /\ Quiet /\ Alone(u) /\ state \subseteq {"PRESENT", "SUSPEND"}
    BY <1>0, EntersQuiet
  <1>3. /\ pc'[u] = "unreset" /\ loc'[u].cause = "reset"
        /\ \A o \in Threads : o # u => pc'[o] = pc[o]
    BY <1>0, SleepMoves DEF For
  <1>4. Phase(u)' /\ Inside(u)'
    BY <1>0, <1>2, <1>3 DEF Phase, Has, Inside
  <1>5. Seen(u)'
    BY <1>0, <1>2, <1>3 DEF Seen, Quiet, Counts, Has
  <1>6. ~unready' => announced' /\ vcc' /\ ~Has("SUSPEND")'
    BY <1>0, <1>1, <1>2 DEF Quiet, Has
  <1>7. Served(u)'
    BY <1>3, <1>6 DEF Served
  <1> QED BY <1>2, <1>3, <1>4, <1>5, <1>7, OthersOut, LoneAfter

\* suspend_socket(), which takes the power from a card the clients keep.
LEMMA SuspendAlone ==
    ASSUME TypeOK, PendingOwned, AloneInv, NEW u \in Threads, pc[u] = "idle", Enter(u),
           SuspendSocket, \A o \in Threads : ~Inside(o) => ~Inside(o)',
           UNCHANGED <<kDetect, registered, missed, ejected, announced, unready>>
    PROVE  AloneInv'
  <1> SUFFICES ASSUME ~crossed' PROVE AloneInv'
    BY DEF AloneInv
  <1>1. /\ Quiet /\ \A o \in Threads : ~Inside(o)
    BY EntersQuiet
  <1>2. Quiet'
    BY <1>1 DEF Quiet, Counts, Has, SuspendSocket
  <1>3. Phase(u)' /\ Seen(u)' /\ Served(u)'
    BY <1>1 DEF Phase, Seen, Served, Inside
  <1> QED BY <1>1, <1>2, <1>3, LoneAfter

\* All of them.
LEMMA UserAlone ==
    ASSUME TypeOK, PendingOwned, AloneInv, NEW u \in Users, UserCall(u) \/ PmResume(u)
    PROVE  AloneInv'
  <1>0. u \in Threads /\ state \in SUBSET Bits
    BY DEF Threads, TypeOK
  <1>1. CASE Register(u)
    <2>1. /\ pc[u] = "idle" /\ Enter(u) /\ GetStatus /\ ~registered
          /\ SetupSocket(u, state \cup {"SETUP_PENDING"}, {"SETUP_PENDING"}, "insert")
          /\ announced' = announced /\ unready' = unready
      BY <1>1 DEF Register, Calls
    <2>2. ~Has("PRESENT")
      BY <2>1 DEF PendingOwned, Untouched, Has
    <2> QED BY <1>0, <2>1, <2>2, InsertAlone
  <1>2. CASE CardStatus(u)
    <2>1. /\ GetStatus
          /\ UNCHANGED <<state, vcc, registered, ejected, announced, unready, crossed>>
          /\ pc' = pc /\ loc' = loc
      BY <1>2 DEF CardStatus, csVars, thrVars
    <2>2. ~missed' => ~missed /\ kDetect' = kDetect
      BY <2>1, GetStatusSees
    <2> QED BY <2>1, <2>2, StillAlone
  <1>3. CASE SuspendCard(u)
    <2>1. /\ pc[u] = "idle" /\ Enter(u) /\ SuspendSocket /\ pc' = pc
          /\ UNCHANGED <<kDetect, registered, missed, ejected, announced, unready>>
      BY <1>3 DEF SuspendCard, Calls, thrVars
    <2>2. \A o \in Threads : ~Inside(o) => ~Inside(o)'
      BY <2>1 DEF Inside
    <2> QED BY <1>0, <2>1, <2>2, SuspendAlone
  <1>4. CASE EjectCard(u)
    <2>1. /\ pc[u] = "idle" /\ Enter(u) /\ state' = BeginShutdown(state)
          /\ ejected' /\ ~announced' /\ Sleep(u, "shutdown", NoLocals)
      BY <1>4 DEF EjectCard, Calls
    <2>2. CASE crossed'
      BY <2>2 DEF AloneInv
    <2>3. CASE ~crossed'
      <3>1. Alone(u)
        BY <1>0, <2>1, <2>3, EnterAlone
      <3>2. ~Counts'
        BY <2>1 DEF Counts
      <3> QED BY <1>0, <2>1, <3>1, <3>2, ShutdownBegins
    <2> QED BY <2>2, <2>3
  <1>5. CASE InsertCard(u)
    <2>1. /\ pc[u] = "idle" /\ Enter(u) /\ GetStatus
          /\ SetupSocket(u, state \cup {"SETUP_PENDING"}, {"SETUP_PENDING"}, "insert")
          /\ announced' = announced /\ unready' = unready
          /\ state \cap {"PRESENT", "SETUP_PENDING"} = {}
      BY <1>5 DEF InsertCard, Calls
    <2>2. ~Has("PRESENT")
      BY <2>1 DEF Has
    <2> QED BY <1>0, <2>1, <2>2, InsertAlone
  <1>6. CASE PmSuspend(u)
    <2>1. /\ pc[u] = "idle" /\ Enter(u) /\ Sleep(u, "asleep", NoLocals)
          /\ UNCHANGED <<kDetect, registered, missed, ejected, announced, unready>>
          /\ SuspendSocket \/ UNCHANGED csVars
      BY <1>6 DEF PmSuspend, Calls
    <2>2. /\ pc'[u] = "asleep"
          /\ \A o \in Threads : o # u => pc'[o] = pc[o] /\ loc'[o] = loc[o]
      BY <1>0, <2>1, SleepMoves
    <2>3. ~Inside(u) /\ ~Inside(u)'
      BY <2>1, <2>2 DEF Inside
    <2>4. CASE SuspendSocket
      <3>1. \A o \in Threads : ~Inside(o) => ~Inside(o)'
        BY <2>2, <2>3 DEF Inside
      <3> QED BY <1>0, <2>1, <2>4, <3>1, SuspendAlone
    <2>5. CASE UNCHANGED csVars
      <3>1. ~crossed' => ~crossed
        BY <1>0, <2>1, EnterAlone
      <3> QED BY <2>1, <2>2, <2>3, <2>5, <3>1, StillAlone DEF csVars
    <2> QED BY <2>1, <2>4, <2>5
  <1>7. CASE PmResume(u)
    <2>1. pc[u] = "asleep" /\ ~Inside(u) /\ registered' = registered /\ unready' = unready
      BY <1>7 DEF PmResume, Inside
    <2>2. CASE ParseEvents(u, state)
      BY <1>0, <2>1, <2>2, ParseAlone
    <2>3. CASE /\ "PRESENT" \notin state /\ GetStatus /\ Return(u)
               /\ UNCHANGED <<state, ejected, announced, crossed>>
      <3>1. /\ pc'[u] \in {"idle", "again"}
            /\ \A o \in Threads : o # u => pc'[o] = pc[o] /\ loc'[o] = loc[o]
        BY <1>0, <2>3, ReturnMoves
      <3>2. ~missed' => ~missed /\ kDetect' = kDetect
        BY <2>3, GetStatusSees
      <3>3. ~Inside(u)' /\ ~Has("PRESENT")
        BY <2>3, <3>1 DEF Inside, Has
      <3> QED BY <2>1, <2>3, <3>1, <3>2, <3>3, StillAlone
    <2> QED BY <1>7, <2>2, <2>3 DEF PmResume
  <1> QED BY <1>0, <1>1, <1>2, <1>3, <1>4, <1>5, <1>6, <1>7, ResetCardAlone, ResumeAlone
          DEF UserCall

-----------------------------------------------------------------------------
(* The theorems.                                                           *)

\* When the driver has been loaded there is no card and nobody is inside.
LEMMA InitAlone == Init => AloneInv
  BY DEF Init, AloneInv, Inside, Phase, Seen, Served, Quiet, Counts, Has

\* Every step keeps it so.
LEMMA NextAlone == TypeOK /\ PendingOwned /\ AloneInv /\ [Next]_vars => AloneInv'
  <1>1. ASSUME TypeOK, PendingOwned, AloneInv, Next PROVE AloneInv'
    <2>1. keventd \in Threads /\ Users \subseteq Threads
      BY DEF Threads
    <2>2. CASE Move \/ PollEvent
      BY <1>1, <2>2, StillAlone DEF Move, PollEvent, csVars, thrVars, histVars
    <2>3. CASE Task
      BY <1>1, <2>3, TaskAlone
    <2>4. CASE Wake(keventd)
      BY <1>1, <2>1, <2>4, WakeAlone
    <2>5. CASE \E u \in Users : UserCall(u) \/ PmResume(u) \/ (Scheduled /\ Wake(u))
      BY <1>1, <2>1, <2>5, UserAlone, WakeAlone
    <2> QED BY <1>1, <2>2, <2>3, <2>4, <2>5 DEF Next
  <1>2. ASSUME TypeOK, AloneInv, UNCHANGED vars PROVE AloneInv'
    BY <1>2, StillAlone DEF vars, csVars, thrVars, histVars
  <1> QED BY <1>1, <1>2

\* At every moment a thread that is alone in Card Services finds at its sleeps
\* what it left in s->state, and what it has sampled and announced still holds.
THEOREM AloneFindsWhatItLeft == Spec => []AloneInv
  BY InitAlone, NextAlone, TypeCorrect, PendingBitsOwned, PTL DEF Spec

\* At rest nobody is inside.
LEMMA AloneAtRest == AloneInv => PresenceKnown /\ ClientsServed
  <1> SUFFICES ASSUME AloneInv, AtRest, ~crossed
               PROVE  /\ registered /\ ~missed /\ ~ejected => (Present <=> kDetect)
                      /\ ~unready => /\ announced <=> Present
                                     /\ Present /\ ~Suspended => vcc
    BY DEF PresenceKnown, ClientsServed
  <1>1. Quiet
    BY DEF AloneInv, AtRest, Inside
  <1> QED BY <1>1 DEF Quiet, Counts, Present, Suspended, Has

\* SOCKET_PRESENT is the last sample of the socket whenever all is at rest, for
\* any number of processes, unless get_status() took a change away, the card was
\* ejected, or calls crossed.
THEOREM PresenceAlwaysKnown == Spec => []PresenceKnown
  BY AloneAtRest, AloneFindsWhatItLeft, PTL

\* Whenever all is at rest the clients have been told of the card Card Services
\* has, and it is powered unless it is suspended.
THEOREM ClientsAlwaysServed == Spec => []ClientsServed
  BY AloneAtRest, AloneFindsWhatItLeft, PTL

\* The event that unreset_socket() picks by the bits of s->state is the one for
\* the cause of the reset.
LEMMA StepMatchesCause ==
    TypeOK /\ AloneInv /\ [Next]_vars
      => [\A t \in Threads : crossed \/ unready \/ CauseMatches(t)]_vars
  <1> SUFFICES ASSUME TypeOK, AloneInv, NEW t \in Threads, ~crossed, ~unready
               PROVE  CauseMatches(t)
    OBVIOUS
  <1>1. ReadyNew(t) \/ ReadyAgain(t) \/ ReadyReset(t) => pc[t] = "unreset"
    BY DEF ReadyNew, ReadyAgain, ReadyReset
  <1>2. ASSUME pc[t] = "unreset" PROVE CauseMatches(t)
    BY <1>2, BitsTellCause DEF CauseMatches, ReadyNew, ReadyAgain, ReadyReset, Has
  <1> QED BY <1>1, <1>2 DEF CauseMatches

\* Every step of unreset_socket() sends the event that matches the cause of the
\* reset, unless calls crossed or pcmcia_reset_card() met a suspended card.
THEOREM EventAlwaysMatchesCause == Spec => EventMatchesCauseUnlessCold
  BY StepMatchesCause, AloneFindsWhatItLeft, TypeCorrect, PTL
     DEF Spec, EventMatchesCauseUnlessCold
=============================================================================
