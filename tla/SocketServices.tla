--------------------------- MODULE SocketServices ---------------------------
(***************************************************************************)
(* The PCMCIA socket of the SIMpad as its users meet it: the socket        *)
(* services of the SA-1100 (drivers/pcmcia/sa1100_generic.c), the card     *)
(* detect pin (sa1100_simpad.c) and the event handling of Card Services    *)
(* (cs.c), composed.                                                       *)
(*                                                                         *)
(* The socket driver remembers the last sample of the socket in k_state.   *)
(* A timer and the card detect interrupt put its task on keventd's queue;  *)
(* the task samples again and calls parse_events() when the sample         *)
(* differs.  get_status(), which Card Services and the DS_GET_STATUS ioctl *)
(* call, samples the socket and overwrites k_state too.                    *)
(*                                                                         *)
(* Card Services keeps what it knows of the socket in the bits of s->state.*)
(* Nothing locks them: keventd, the ioctls of ds.c and the power           *)
(* management callback all work on them, and give way to one another       *)
(* wherever they sleep.  The kernel is not preemptive, so that an action   *)
(* is what a thread does from one sleep to the next; pc[t] names the sleep.*)
(* The pin, the timer and the interrupt act at any time, but not between   *)
(* two samples of one such stretch of code, which are microseconds apart.  *)
(***************************************************************************)
EXTENDS Naturals

CONSTANTS
    Users,        \* processes that call the ioctls, or suspend the machine
    UnresetLimit  \* unreset_limit: how often unreset_socket() looks for READY

keventd == "keventd"

ASSUME SocketAssumption ==
    /\ keventd \notin Users
    /\ UnresetLimit \in Nat \ {0}

Threads == Users \cup {keventd}

VARIABLES
    card,       \* is a card in the socket: GPIO_CF_CD is low
    kDetect,    \* skt->k_state.detect
    edges,      \* does GPIO_CF_CD interrupt
    queued,     \* is sa1100_pcmcia_task on the queue of keventd
    registered, \* skt->handler = parse_events
    state,      \* s->state, of the bits named in Bits
    vcc,        \* is s->socket.Vcc, and so skt->cs_state.Vcc, not 0
    pc,         \* where each thread sleeps
    loc,        \* the local variables of each thread: see Locals
    missed,     \* history: k_state took a change that parse_events() never met
    ejected,    \* history: Card Services let the card go at a user's request
    announced,  \* history: have the clients been sent CARD_INSERTION
    unready,    \* history: a card that did not get ready, or was reset suspended
    crossed     \* history: has a thread entered while another was inside

csVars   == <<state, vcc, edges>>
thrVars  == <<pc, loc>>
histVars == <<missed, ejected, announced, unready, crossed>>
vars == <<card, kDetect, queued, registered, csVars, thrVars, histVars>>

Bits == {"PRESENT", "SETUP_PENDING", "SUSPEND", "RESET_PENDING",
         "SHUTDOWN_PENDING"}
EVENT_MASK == {"SETUP_PENDING", "SUSPEND", "RESET_PENDING"}

\* status is the SS_DETECT bit of parse_events()' variable, tries counts the
\* looks of unreset_socket(), and cause, a history, is why the socket is reset.
Locals == [status : BOOLEAN, tries : 0..(UnresetLimit - 1),
           cause : {"insert", "resume", "reset"}]
NoLocals == [status |-> FALSE, tries |-> 0, cause |-> "insert"]

\* sa1100_pcmcia_driver_init(), which samples the socket into k_state,
\* registers it (init_socket()) and starts the timer; ds.c is still to come.
Init ==
    /\ card \in BOOLEAN /\ kDetect = card
    /\ edges = TRUE /\ queued = TRUE /\ registered = FALSE
    /\ state = {} /\ vcc = FALSE
    /\ pc = [t \in Threads |-> "idle"] /\ loc = [t \in Threads |-> NoLocals]
    /\ missed = FALSE /\ ejected = FALSE /\ announced = FALSE
    /\ unready = FALSE /\ crossed = FALSE

-----------------------------------------------------------------------------
(* The pin, the timer and the interrupt.                                   *)

\* The card goes in or out; with its edges on the pin interrupts.
Move ==
    /\ card' = ~card
    /\ queued' = (queued \/ edges)
    /\ UNCHANGED <<kDetect, registered, csVars, thrVars, histVars>>

\* sa1100_pcmcia_poll_event(), which arms the timer again.
PollEvent ==
    /\ ~queued /\ queued' = TRUE
    /\ UNCHANGED <<card, kDetect, registered, csVars, thrVars, histVars>>

-----------------------------------------------------------------------------
(* The parts of Card Services, each a stretch of code up to the next sleep.*)
(* s is s->state as the stretch finds it.                                  *)

\* t goes to sleep at p, with the locals l.
Sleep(t, p, l) == pc' = [pc EXCEPT ![t] = p] /\ loc' = [loc EXCEPT ![t] = l]

\* t comes back from Card Services: keventd to the loop of the task handler,
\* which samples once more, a user from the system call.
Return(t) == Sleep(t, IF t = keventd THEN "again" ELSE "idle", NoLocals)

For(why) == [status |-> FALSE, tries |-> 0, cause |-> why]
Saw(detect) == [status |-> detect, tries |-> 0, cause |-> "insert"]

\* No thread but t is in the middle of Card Services.
Alone(t) == \A o \in Threads \ {t} : pc[o] \in {"idle", "again", "asleep"}

\* t enters Card Services.
Enter(t) == crossed' = (crossed \/ ~Alone(t))

\* get_socket_status(), where the caller does not report what it finds.
GetStatus == kDetect' = card /\ missed' = (missed \/ card # kDetect)

\* Mutant: the pending bit stays when there is no card.
SetupSocketForgets(t, s, unset, why) ==
    \/ /\ card
       /\ state' = s \cup {"PRESENT"} /\ vcc' = TRUE
       /\ ejected' = FALSE
       /\ Sleep(t, "settle", For(why))
    \/ /\ ~card
       /\ state' = s
       /\ Return(t)
       /\ UNCHANGED <<vcc, ejected>>

\* Mutant: the pending bit goes before unreset_socket() has looked at it.
SetupSocketEarly(t, s, unset, why) ==
    \/ /\ card
       /\ state' = (s \cup {"PRESENT"}) \ {"SETUP_PENDING"} /\ vcc' = TRUE
       /\ ejected' = FALSE
       /\ Sleep(t, "settle", For(why))
    \/ /\ ~card
       /\ state' = s \ unset
       /\ Return(t)
       /\ UNCHANGED <<vcc, ejected>>

\* setup_socket() up to cs_sleep(vcc_settle); unset is what the caller
\* takes out of s->state when there is no card.
SetupSocket(t, s, unset, why) ==
    \/ /\ card
       /\ state' = s \cup {"PRESENT"} /\ vcc' = TRUE
       /\ ejected' = FALSE
       /\ Sleep(t, "settle", For(why))
    \/ /\ ~card
       /\ state' = s \ unset
       /\ Return(t)
       /\ UNCHANGED <<vcc, ejected>>

\* parse_events() after do_shutdown(); detect was sampled before it.
AfterShutdown(t, s, detect) ==
    \/ /\ detect /\ "SETUP_PENDING" \notin s
       /\ state' = s \cup {"SETUP_PENDING"}
       /\ Sleep(t, "setup", For(IF "SUSPEND" \in s THEN "resume" ELSE "insert"))
    \/ /\ ~detect \/ "SETUP_PENDING" \in s
       /\ state' = s
       /\ Return(t)

\* do_shutdown() up to its sleep.
BeginShutdown(s) ==
    (s \cup {"SHUTDOWN_PENDING"}) \
        (IF s \cap {"SETUP_PENDING", "RESET_PENDING"} # {} THEN EVENT_MASK ELSE {})

\* Mutant: a suspended card is never shut down.
MustShutdownAwake(s) ==
    /\ "PRESENT" \in s /\ "SUSPEND" \notin s
    /\ "SHUTDOWN_PENDING" \notin s

\* The condition under which parse_events() calls do_shutdown(), and
\* do_shutdown() does not return at once.
MustShutdown(s) ==
    /\ "PRESENT" \in s /\ ("SUSPEND" \notin s \/ ~card)
    /\ "SHUTDOWN_PENDING" \notin s

\* parse_events(s, SS_DETECT) up to its first sleep.
ParseEvents(t, s) ==
    /\ kDetect' = card /\ missed' = FALSE /\ ejected' = FALSE
    /\ \/ /\ MustShutdown(s)
          /\ state' = BeginShutdown(s)
          /\ announced' = FALSE /\ crossed' = ~Alone(t)
          /\ Sleep(t, "shutdown", Saw(card))
       \/ /\ ~MustShutdown(s)
          /\ AfterShutdown(t, s, card)
          /\ Enter(t)
          /\ UNCHANGED announced

-----------------------------------------------------------------------------
(* What a thread does when it wakes.                                       *)

\* Mutant: the socket is left hot.
ShutdownHot(t) ==
    /\ pc[t] = "shutdown"
    /\ edges' = TRUE
    /\ AfterShutdown(t, state \cap {"SETUP_PENDING"}, loc[t].status)
    /\ UNCHANGED <<card, kDetect, queued, registered, vcc, histVars>>

\* cs_sleep(shutdown_delay) ends: shutdown_socket().
Shutdown(t) ==
    /\ pc[t] = "shutdown"
    /\ vcc' = FALSE /\ edges' = TRUE
    /\ AfterShutdown(t, state \cap {"SETUP_PENDING"}, loc[t].status)
    /\ UNCHANGED <<card, kDetect, queued, registered, histVars>>

\* cs_sleep(setup_delay) or cs_sleep(resume_delay) ends.
Setup(t) ==
    /\ pc[t] = "setup"
    /\ GetStatus
    /\ SetupSocket(t, state, {"SETUP_PENDING"}, loc[t].cause)
    /\ UNCHANGED <<card, queued, registered, edges, announced, unready, crossed>>

\* cs_sleep(vcc_settle) ends: reset_socket(), which sleeps unreset_delay.
Reset(t) ==
    /\ pc[t] = "settle"
    /\ Sleep(t, "unreset", loc[t])
    /\ UNCHANGED <<card, kDetect, queued, registered, csVars, histVars>>

\* Mutant: one look too many.
NotReadyOnceMore(t) ==
    /\ pc[t] = "unreset"
    /\ GetStatus
    /\ \/ /\ loc[t].tries < UnresetLimit
          /\ Sleep(t, "unreset", [loc[t] EXCEPT !.tries = @ + 1])
          /\ UNCHANGED <<state, unready>>
       \/ /\ loc[t].tries = UnresetLimit
          /\ state' = state \ EVENT_MASK
          /\ unready' = TRUE
          /\ Return(t)
    /\ UNCHANGED <<card, queued, registered, vcc, edges, ejected, announced, crossed>>

\* unreset_socket() finds the card not ready: it looks again, or gives up.
NotReady(t) ==
    /\ pc[t] = "unreset"
    /\ GetStatus
    /\ \/ /\ loc[t].tries + 1 < UnresetLimit
          /\ Sleep(t, "unreset", [loc[t] EXCEPT !.tries = @ + 1])
          /\ UNCHANGED <<state, unready>>
       \/ /\ loc[t].tries + 1 = UnresetLimit
          /\ state' = state \ EVENT_MASK
          /\ unready' = TRUE
          /\ Return(t)
    /\ UNCHANGED <<card, queued, registered, vcc, edges, ejected, announced, crossed>>

\* unreset_socket() finds a suspended card ready.  verify_cis_cache() may
\* find that it is another card.
ReadyAgain(t) ==
    /\ pc[t] = "unreset" /\ "SUSPEND" \in state
    /\ \/ /\ GetStatus
          /\ state' = state \ EVENT_MASK
          /\ Return(t)
          /\ UNCHANGED <<ejected, announced, crossed>>
       \/ ParseEvents(t, state \ EVENT_MASK)
    /\ UNCHANGED <<card, queued, registered, vcc, edges, unready>>

\* Mutant: SETUP_PENDING is looked at before SUSPEND.
ReadyNewFirst(t) ==
    /\ pc[t] = "unreset" /\ "SETUP_PENDING" \in state
    /\ GetStatus
    /\ state' = state \ {"SETUP_PENDING"}
    /\ announced' = TRUE /\ unready' = FALSE
    /\ Return(t)
    /\ UNCHANGED <<card, queued, registered, vcc, edges, ejected, crossed>>

\* unreset_socket() finds a new card ready.
ReadyNew(t) ==
    /\ pc[t] = "unreset" /\ "SUSPEND" \notin state /\ "SETUP_PENDING" \in state
    /\ GetStatus
    /\ state' = state \ {"SETUP_PENDING"}
    /\ announced' = TRUE /\ unready' = FALSE
    /\ Return(t)
    /\ UNCHANGED <<card, queued, registered, vcc, edges, ejected, crossed>>

\* unreset_socket() ends a reset that a client or a user asked for.
ReadyReset(t) ==
    /\ pc[t] = "unreset" /\ "SUSPEND" \notin state /\ "SETUP_PENDING" \notin state
    /\ GetStatus
    /\ state' = state \ EVENT_MASK
    /\ Return(t)
    /\ UNCHANGED <<card, queued, registered, vcc, edges, ejected, announced,
                   unready, crossed>>

Wake(t) ==
    \/ Shutdown(t) \/ Setup(t) \/ Reset(t)
    \/ NotReady(t) \/ ReadyAgain(t) \/ ReadyNew(t) \/ ReadyReset(t)

-----------------------------------------------------------------------------
(* keventd: sa1100_pcmcia_task_handler().                                  *)

\* Mutant: only a card that comes is an event.
TaskLoopInsertions ==
    \/ /\ card /\ ~kDetect /\ registered
       /\ ParseEvents(keventd, state)
       /\ UNCHANGED <<vcc, edges, unready>>
    \/ /\ card => kDetect \/ ~registered
       /\ kDetect' = card
       /\ Sleep(keventd, "idle", NoLocals)
       /\ UNCHANGED <<csVars, histVars>>

\* One turn of its loop: sample, and report a change to the handler.
TaskLoop ==
    \/ /\ card # kDetect /\ registered
       /\ ParseEvents(keventd, state)
       /\ UNCHANGED <<vcc, edges, unready>>
    \/ /\ card # kDetect /\ ~registered
       /\ GetStatus
       /\ Return(keventd)
       /\ UNCHANGED <<csVars, ejected, announced, unready, crossed>>
    \/ /\ card = kDetect
       /\ Sleep(keventd, "idle", NoLocals)
       /\ UNCHANGED <<kDetect, csVars, histVars>>

Task ==
    /\ \/ /\ pc[keventd] = "idle" /\ queued /\ queued' = FALSE
       \/ /\ pc[keventd] = "again" /\ UNCHANGED queued
    /\ TaskLoop
    /\ UNCHANGED <<card, registered>>

-----------------------------------------------------------------------------
(* The ioctls and power management.                                        *)

\* keventd does not sleep between parse_events() and the next sample.
Scheduled == pc[keventd] # "again"

Calls(u) == pc[u] = "idle" /\ Scheduled

\* init_pcmcia_ds(): pcmcia_register_client() of the first client.
Register(u) ==
    /\ Calls(u) /\ ~registered /\ registered' = TRUE
    /\ Enter(u)
    /\ GetStatus
    /\ SetupSocket(u, state \cup {"SETUP_PENDING"}, {"SETUP_PENDING"}, "insert")
    /\ UNCHANGED <<card, queued, edges, announced, unready>>

\* pcmcia_get_status().
CardStatus(u) ==
    /\ Calls(u) /\ registered
    /\ GetStatus
    /\ UNCHANGED <<card, queued, registered, csVars, thrVars, ejected, announced,
                   unready, crossed>>

\* pcmcia_reset_card(), unless a client refuses.
ResetCard(u) ==
    /\ Calls(u) /\ registered /\ "PRESENT" \in state /\ "RESET_PENDING" \notin state
    /\ Enter(u)
    /\ state' = state \cup {"RESET_PENDING"}
    /\ unready' = (unready \/ "SUSPEND" \in state)
    /\ Sleep(u, "unreset", For("reset"))
    /\ UNCHANGED <<card, kDetect, queued, registered, vcc, edges, missed, ejected,
                   announced>>

\* suspend_socket() and what its callers add.
SuspendSocket ==
    /\ "PRESENT" \in state /\ "SUSPEND" \notin state
    /\ state' = state \cup {"SUSPEND"} /\ vcc' = FALSE /\ edges' = FALSE

\* pcmcia_suspend_card().
SuspendCard(u) ==
    /\ Calls(u) /\ registered
    /\ Enter(u)
    /\ SuspendSocket
    /\ UNCHANGED <<card, kDetect, queued, registered, thrVars, missed, ejected,
                   announced, unready>>

\* pcmcia_resume_card().
ResumeCard(u) ==
    /\ Calls(u) /\ registered /\ {"PRESENT", "SUSPEND"} \subseteq state
    /\ Enter(u)
    /\ GetStatus
    /\ SetupSocket(u, state, {}, "resume")
    /\ UNCHANGED <<card, queued, registered, edges, announced, unready>>

\* pcmcia_eject_card(), unless a client refuses.
EjectCard(u) ==
    /\ Calls(u) /\ registered
    /\ "PRESENT" \in state /\ "SHUTDOWN_PENDING" \notin state
    /\ Enter(u)
    /\ state' = BeginShutdown(state)
    /\ ejected' = TRUE /\ announced' = FALSE
    /\ Sleep(u, "shutdown", NoLocals)
    /\ UNCHANGED <<card, kDetect, queued, registered, vcc, edges, missed, unready>>

\* pcmcia_insert_card().
InsertCard(u) ==
    /\ Calls(u) /\ registered /\ state \cap {"PRESENT", "SETUP_PENDING"} = {}
    /\ Enter(u)
    /\ GetStatus
    /\ SetupSocket(u, state \cup {"SETUP_PENDING"}, {"SETUP_PENDING"}, "insert")
    /\ UNCHANGED <<card, queued, registered, edges, announced, unready>>

\* handle_pm_event(PM_SUSPEND).
PmSuspend(u) ==
    /\ Calls(u) /\ registered
    /\ \A t \in Users : pc[t] # "asleep"
    /\ Enter(u)
    /\ \/ SuspendSocket
       \/ ("PRESENT" \notin state \/ "SUSPEND" \in state) /\ UNCHANGED csVars
    /\ Sleep(u, "asleep", NoLocals)
    /\ UNCHANGED <<card, kDetect, queued, registered, missed, ejected, announced,
                   unready>>

\* handle_pm_event(PM_RESUME): init_socket(), and parse_events() if there was
\* a card or there is one.
PmResume(u) ==
    /\ pc[u] = "asleep" /\ Scheduled
    /\ vcc' = FALSE /\ edges' = TRUE
    /\ \/ /\ "PRESENT" \in state \/ card
          /\ ParseEvents(u, state)
       \/ /\ "PRESENT" \notin state /\ ~card
          /\ GetStatus
          /\ Return(u)
          /\ UNCHANGED <<state, ejected, announced, crossed>>
    /\ UNCHANGED <<card, queued, registered, unready>>

UserCall(u) ==
    \/ Register(u) \/ CardStatus(u) \/ ResetCard(u) \/ SuspendCard(u)
    \/ ResumeCard(u) \/ EjectCard(u) \/ InsertCard(u) \/ PmSuspend(u)

Next ==
    \/ Move \/ PollEvent \/ Task \/ Wake(keventd)
    \/ \E u \in Users : UserCall(u) \/ PmResume(u) \/ (Scheduled /\ Wake(u))

Spec == Init /\ [][Next]_vars

\* The timer always expires again, keventd runs what is queued, and a thread
\* whose sleep is over runs when the processor is free.
FairSpec ==
    /\ Spec
    /\ WF_vars(PollEvent) /\ WF_vars(Task) /\ WF_vars(Wake(keventd))
    /\ \A u \in Users : WF_vars(Scheduled /\ Wake(u)) /\ WF_vars(PmResume(u))

-----------------------------------------------------------------------------
(* Properties.                                                             *)

\* The variables hold what the code can put into them; between the looks of
\* unreset_socket() there are always some left.
TypeOK ==
    /\ card \in BOOLEAN /\ kDetect \in BOOLEAN /\ edges \in BOOLEAN
    /\ queued \in BOOLEAN /\ registered \in BOOLEAN
    /\ state \subseteq Bits /\ vcc \in BOOLEAN
    /\ pc \in [Threads -> {"idle", "again", "shutdown", "setup", "settle",
                           "unreset", "asleep"}]
    /\ loc \in [Threads -> Locals]
    /\ missed \in BOOLEAN /\ ejected \in BOOLEAN /\ announced \in BOOLEAN
    /\ unready \in BOOLEAN /\ crossed \in BOOLEAN

\* No thread is in the middle of Card Services, and the machine is awake.
AtRest == \A t \in Threads : pc[t] = "idle"

Present == "PRESENT" \in state
Suspended == "SUSPEND" \in state

\* However keventd, the ioctls and power management cross, none of the pending
\* bits of s->state outlives them: a SETUP_PENDING left behind would make
\* parse_events() ignore every later card, a SHUTDOWN_PENDING every removal.
NothingPending == AtRest => state \subseteq {"PRESENT", "SUSPEND"}

\* "Without these changes, the socket is left hot" says shutdown_socket(): once
\* the threads are done there is power only for a card that is in and awake.
HotOnlyWithCard == AtRest /\ vcc => Present /\ ~Suspended

\* Card Services knows whether there is a card: SOCKET_PRESENT is the last
\* sample, unless get_status() took the change away from the task handler, the
\* user ejected the card, or calls crossed.
PresenceKnown ==
    AtRest /\ registered /\ ~missed /\ ~ejected /\ ~crossed => (Present <=> kDetect)

\* The clients have a card, and unless it is suspended a powered one, exactly
\* when Card Services does: it never stays unannounced, nor outlives its removal.
ClientsServed ==
    AtRest /\ ~unready /\ ~crossed =>
        /\ announced <=> Present
        /\ Present /\ ~Suspended => vcc

\* The event that unreset_socket() sends is the one for the cause of the reset.
CauseMatches(t) ==
    /\ ReadyNew(t) => loc[t].cause = "insert"
    /\ ReadyAgain(t) => loc[t].cause = "resume"
    /\ ReadyReset(t) => loc[t].cause = "reset"

\* "Unreset_socket() sends a CS event that matches the cause of the reset": it
\* does, unless calls crossed or pcmcia_reset_card() met a suspended card.
EventMatchesCauseUnlessCold ==
    [][\A t \in Threads : crossed \/ unready \/ CauseMatches(t)]_vars

Stable == <>[]card \/ <>[]~card

\* "Let's poll for events in addition to IRQs": once the card stays in or stays
\* out, Card Services finds out, unless it was ejected or suspended.
Detects ==
    Stable /\ <>[](registered /\ ~ejected /\ ~Suspended /\ ~crossed)
        => <>[](Present <=> card)

\* It does find out when no get_status() took the change away.
DetectsUnlessMissed ==
    Stable /\ <>[](registered /\ ~ejected /\ ~Suspended /\ ~crossed /\ ~missed)
        => <>[](Present <=> card)
=============================================================================
