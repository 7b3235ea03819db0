------------------------------ MODULE Switches -------------------------------
(***************************************************************************)
(* The SIMpad's switches: the device that reports them to a process        *)
(* (drivers/misc/switches-core.c), and the two interrupt handlers that     *)
(* feed its list of events, for the power switch at a pin of the SA-1110   *)
(* (switches-sa1100.c) and for those at pins of the codec                  *)
(* (switches-ucb1x00.c, called by ucb1x00_irq()).                          *)
(*                                                                         *)
(* The kernel is uniprocessor and not preemptive.  The power switch's      *)
(* handler runs with interrupts disabled, in one step; the codec's runs    *)
(* with interrupts enabled, so that the former may get into the middle of  *)
(* its list_add_tail(): spin_lock() keeps nobody out on one processor.  A  *)
(* process runs only while no handler does.  It has interrupts disabled    *)
(* where it takes an event, unless copy_to_user() meets a page that is not *)
(* there: the pager may sleep, and then handlers and other processes run.  *)
(***************************************************************************)
EXTENDS Naturals, Sequences, FiniteSets

CONSTANTS
    UcbSwitches, \* switches at the codec's pins, 0..5
    SaSwitches,  \* switches at the SA-1110's pins: the power switch
    Cells,       \* memory for struct switches_action
    Readers,     \* processes that share the open device
    MaxEdges,    \* how often a switch moves
    MaxSleeps,   \* how often the system sleeps
    MaxFaults    \* how often copy_to_user() sleeps

ASSUME SwitchesAssumption ==
    /\ UcbSwitches \subseteq Nat
    /\ SaSwitches \cap UcbSwitches = {}
    /\ IsFiniteSet(Cells)
ASSUME LimitsAssumption == MaxEdges \in Nat /\ MaxSleeps \in Nat /\ MaxFaults \in Nat

Anchor == "switches_event_queue"
ASSUME AnchorAssumption == Anchor \notin Cells

Nodes == Cells \cup {Anchor}
Switches == UcbSwitches \cup SaSwitches

VARIABLES
    pins,     \* is each switch pressed?
    latched,  \* switches with an edge in IE_STATUS or GEDR
    states,   \* static states of the two handlers
    users,    \* switches_users
    next, prev, \* the list heads
    act,      \* what each action descriptor holds
    used,     \* the descriptors kmalloc() has given out
    hpc,      \* where the codec's handler is
    isr,      \* the sources ucb1x00_irq() has still to serve
    new, before, \* the arguments of its __list_add()
    rpc,      \* where each reader is
    ev,       \* its local variable event, while copy_to_user() sleeps
    power,    \* "on", "asleep" or "resuming"
    edges, sleeps, faults,
    known,    \* history: each switch as the events read so far tell it
    unread,   \* history: switches whose last event was freed and not delivered
    lost,     \* history: switches of which the latest change made no event
    stale,    \* history: switches that moved unseen, at boot or in sleep
    raced,    \* history: readers that missed a wake-up
    nested,   \* history: has a list_add_tail() been interrupted by another?
    shared    \* history: has a reader taken an event while another copied it?

pinVars  == <<pins, latched, edges>>
listVars == <<next, prev, act, used>>
ucbVars  == <<hpc, isr, new, before>>
sysVars  == <<power, sleeps>>
readVars == <<ev, faults, known, unread, shared>>
vars == <<pinVars, states, users, listVars, ucbVars, rpc, sysVars, readVars,
          lost, stale, raced, nested>>

NoAction == [sw |-> 0, on |-> FALSE, gap |-> FALSE]

\* switches_init(): all sources are hooked and enabled; a switch may be pressed.
Init ==
    /\ pins \in [Switches -> BOOLEAN] /\ latched = {} /\ edges = 0
    /\ states = [s \in Switches |-> FALSE]
    /\ users = 0
    /\ next = [n \in Nodes |-> n] /\ prev = [n \in Nodes |-> n]
    /\ act = [c \in Cells |-> NoAction] /\ used = {}
    /\ hpc = "none" /\ isr = {} /\ new = Anchor /\ before = Anchor
    /\ rpc = [r \in Readers |-> "idle"] /\ ev = [r \in Readers |-> Anchor]
    /\ power = "on" /\ sleeps = 0 /\ faults = 0
    /\ known = [s \in Switches |-> FALSE] /\ unread = {} /\ shared = FALSE
    /\ lost = {} /\ stale = {s \in Switches : pins[s]} /\ raced = {} /\ nested = FALSE

-----------------------------------------------------------------------------
(* The list.                                                               *)

ListEmpty == next[Anchor] = Anchor

\* The nodes met from the anchor in direction f (next or prev), until the anchor.
Walk(f) ==
    LET node[i \in 1..(Cardinality(Cells) + 1)] ==
            IF i = 1 THEN f[Anchor]
            ELSE IF node[i - 1] = Anchor THEN Anchor ELSE f[node[i - 1]]
        len == Cardinality({i \in DOMAIN node : node[i] # Anchor})
    IN  [i \in 1..len |-> node[i]]

\* The events that wait, in the order in which they will be read.
Queue == LET w == Walk(next) IN [i \in DOMAIN w |-> act[w[i]]]

-----------------------------------------------------------------------------
(* switches_event().                                                       *)

\* Events are kept only while somebody has the device open.
Wanted == users > 0

\* Mutant: nobody is woken.
WakeNone == rpc

\* wake_up_interruptible(&switches_wait): those asleep in read() look again, so
\* do those in poll().
WakeUp == [r \in Readers |->
              CASE rpc[r] = "asleep"    -> "loop"
                [] rpc[r] = "pollsleep" -> "polling"
                [] OTHER                -> rpc[r]]

Wakes ==
    /\ rpc' = WakeUp
    /\ raced' = (raced \ {r \in Readers : rpc[r] = "asleep"})
                   \cup {r \in Readers : rpc[r] = "window"}

\* Mutant: a bouncing contact is not filtered out.
BouncesNever(s) == FALSE

\* "debounce": the handler finds the switch as it was.
Bounces(s) == states[s] = pins[s]

\* The board's handler reads the pin and remembers it.
Remember(s) ==
    /\ states' = [states EXCEPT ![s] = pins[s]]
    /\ stale' = stale \ {s}

\* The descriptor of the change of switch s.
Action(s) == [sw |-> s, on |-> pins[s], gap |-> s \in lost]

\* The change makes no event: the device is closed, or kmalloc() fails.
Dropped(s) == lost' = lost \cup {s}

Allocate(s, c) ==
    /\ act' = [act EXCEPT ![c] = Action(s)]
    /\ used' = used \cup {c}
    /\ lost' = lost \ {s}

-----------------------------------------------------------------------------
(* switches_sa1100_handler(), with interrupts disabled.                    *)

\* list_add_tail() as one step.
AddTail(c) ==
    /\ next' = [next EXCEPT ![c] = Anchor, ![prev[Anchor]] = c]
    /\ prev' = [prev EXCEPT ![Anchor] = c, ![c] = prev[Anchor]]

\* Is the codec's handler where another list_add_tail() does harm: after it has
\* loaded switches_event_queue.prev, before it has stored into the new node?
Harmful == hpc \in {"loaded", "stored"}

SaEvent(s) ==
    /\ power # "asleep" /\ s \in latched
    /\ latched' = latched \ {s}
    /\ Remember(s)
    /\ \/ /\ Bounces(s)
          /\ UNCHANGED <<listVars, rpc, lost, raced, nested>>
       \/ /\ ~Bounces(s)
          /\ Dropped(s)
          /\ UNCHANGED <<listVars, rpc, raced, nested>>
       \/ /\ ~Bounces(s) /\ Wanted
          /\ \E c \in Cells \ used : Allocate(s, c) /\ AddTail(c)
          /\ Wakes
          /\ nested' = (nested \/ Harmful)
    /\ UNCHANGED <<pins, edges, users, ucbVars, sysVars, readVars>>

-----------------------------------------------------------------------------
(* ucb1x00_irq() and switches_ucb1x00_handler(), with interrupts enabled.  *)

\* Read and clear IE_STATUS.
UcbIrq ==
    /\ power # "asleep" /\ hpc = "none" /\ latched \cap UcbSwitches # {}
    /\ isr' = latched \cap UcbSwitches
    /\ latched' = latched \ UcbSwitches
    /\ hpc' = "serve"
    /\ UNCHANGED <<pins, edges, states, users, listVars, new, before, rpc, sysVars,
                   readVars, lost, stale, raced, nested>>

\* The next source: everything up to the load of switches_event_queue.prev.
UcbServe ==
    /\ hpc = "serve"
    /\ \E s \in isr :
        /\ \A t \in isr : s <= t
        /\ isr' = isr \ {s}
        /\ Remember(s)
        /\ \/ /\ Bounces(s)
              /\ UNCHANGED <<act, used, lost, hpc, new, before>>
           \/ /\ ~Bounces(s)
              /\ Dropped(s)
              /\ UNCHANGED <<act, used, hpc, new, before>>
           \/ /\ ~Bounces(s) /\ Wanted
              /\ \E c \in Cells \ used : Allocate(s, c) /\ new' = c
              /\ before' = prev[Anchor]
              /\ hpc' = "loaded"
    /\ UNCHANGED <<pinVars, users, next, prev, rpc, sysVars, readVars, raced, nested>>

\* __list_add(): next->prev = new;
UcbStore ==
    /\ hpc = "loaded"
    /\ prev' = [prev EXCEPT ![Anchor] = new]
    /\ hpc' = "stored"
    /\ UNCHANGED <<pinVars, states, users, next, act, used, isr, new, before, rpc,
                   sysVars, readVars, lost, stale, raced, nested>>

\* new->next = next; new->prev = prev;
UcbStoreNew ==
    /\ hpc = "stored"
    /\ next' = [next EXCEPT ![new] = Anchor]
    /\ prev' = [prev EXCEPT ![new] = before]
    /\ hpc' = "linked"
    /\ UNCHANGED <<pinVars, states, users, act, used, isr, new, before, rpc,
                   sysVars, readVars, lost, stale, raced, nested>>

\* prev->next = new; and the wake-up.
UcbLink ==
    /\ hpc = "linked"
    /\ next' = [next EXCEPT ![before] = new]
    /\ Wakes
    /\ hpc' = "serve" /\ new' = Anchor /\ before' = Anchor
    /\ UNCHANGED <<pinVars, states, users, prev, act, used, isr,
                   sysVars, readVars, lost, stale, nested>>

\* Mutant: IE_STATUS is cleared once more when the sources have been served.
UcbEndClears ==
    /\ hpc = "serve" /\ isr = {}
    /\ hpc' = "none"
    /\ latched' = latched \ UcbSwitches
    /\ UNCHANGED <<pins, edges, states, users, listVars, isr, new, before, rpc, sysVars,
                   readVars, lost, stale, raced, nested>>

UcbEnd ==
    /\ hpc = "serve" /\ isr = {}
    /\ hpc' = "none"
    /\ UNCHANGED <<pinVars, states, users, listVars, isr, new, before, rpc, sysVars,
                   readVars, lost, stale, raced, nested>>

UcbStep == UcbServe \/ UcbStore \/ UcbStoreNew \/ UcbLink \/ UcbEnd

-----------------------------------------------------------------------------
(* The device.                                                             *)

\* A process, or the one of rs, can run: no handler does, and nobody else is
\* in the kernel at a place where he does not sleep.
ProcessRuns(rs) ==
    power # "asleep" /\ hpc = "none" /\ \A r \in Readers \ rs : rpc[r] # "window"

Goes(r, from, to) ==
    ProcessRuns({r}) /\ rpc[r] \in from /\ rpc' = [rpc EXCEPT ![r] = to]

QuietDevice == UNCHANGED <<pinVars, states, listVars, ucbVars, sysVars, lost, stale, nested>>

\* Mutant: switches_open() does not look at switches_users.
OpenShared ==
    /\ ProcessRuns({}) /\ users < 2
    /\ users' = users + 1
    /\ QuietDevice /\ UNCHANGED <<rpc, readVars, raced>>

\* switches_open() refuses a second user.
Open ==
    /\ ProcessRuns({}) /\ users = 0
    /\ users' = 1
    /\ QuietDevice /\ UNCHANGED <<rpc, readVars, raced>>

\* switches_release(): the list is left as it is.
Release ==
    /\ ProcessRuns({}) /\ users > 0 /\ \A r \in Readers : rpc[r] = "idle"
    /\ users' = users - 1
    /\ QuietDevice /\ UNCHANGED <<rpc, readVars, raced>>

Read(r) ==
    /\ users > 0
    /\ Goes(r, {"idle"}, "loop")
    /\ QuietDevice /\ UNCHANGED <<users, readVars, raced>>

\* The list is empty: interruptible_sleep_on() is called ...
ReadEmpty(r) ==
    /\ ListEmpty
    /\ Goes(r, {"loop"}, "window")
    /\ QuietDevice /\ UNCHANGED <<users, readVars, raced>>

\* ... or -EAGAIN is returned, or, if it is not empty, -EFAULT.
ReadError(r) ==
    /\ Goes(r, {"loop"}, "idle")
    /\ QuietDevice /\ UNCHANGED <<users, readVars, raced>>

\* ... and puts the reader on the wait queue.
ReadSleep(r) ==
    /\ Goes(r, {"window"}, "asleep")
    /\ QuietDevice /\ UNCHANGED <<users, readVars, raced>>

\* A signal ends the sleep: -ERESTARTSYS.
ReadSignal(r) ==
    /\ Goes(r, {"asleep"}, "idle")
    /\ raced' = raced \ {r}
    /\ QuietDevice /\ UNCHANGED <<users, readVars>>

\* Mutant: the successor's prev is not corrected.
DelHalf(c) ==
    /\ next' = [next EXCEPT ![prev[c]] = next[c]]
    /\ prev' = prev

\* list_del()
Del(c) ==
    /\ next' = [next EXCEPT ![prev[c]] = next[c]]
    /\ prev' = [prev EXCEPT ![next[c]] = prev[c]]

\* A read that comes to event c while another one is copying it.
Shares(r) == shared' = (shared \/ \E o \in Readers \ {r} : rpc[o] = "copy")

\* The end of a read: copy_to_user() has delivered event c or has failed, which
\* nobody looks at; the event is taken off the list and freed.  A second reader of
\* it, who is late, finds the old list head in its memory, or the event for which
\* the memory has been given out again.
Finish(c) ==
    /\ \/ /\ known' = [s \in Switches |-> IF s = act[c].sw THEN act[c].on ELSE known[s]]
          /\ unread' = unread \ {act[c].sw}
       \/ /\ unread' = unread \cup {act[c].sw}
          /\ UNCHANGED known
    /\ Del(c)
    /\ used' = used \ {c}
    /\ act' = [act EXCEPT ![c] = NoAction]

\* Copy the first event and take it off the list, with interrupts disabled.
ReadTake(r) ==
    /\ ~ListEmpty
    /\ Goes(r, {"loop"}, "idle")
    /\ Shares(r)
    /\ Finish(next[Anchor])
    /\ UNCHANGED <<pinVars, states, users, ucbVars, sysVars, ev, faults, lost, stale, raced,
                   nested>>

\* The copy of the first event has to wait for a page of the buffer ...
ReadFault(r) ==
    /\ ~ListEmpty /\ faults < MaxFaults
    /\ Goes(r, {"loop"}, "copy")
    /\ Shares(r)
    /\ ev' = [ev EXCEPT ![r] = next[Anchor]]
    /\ faults' = faults + 1
    /\ QuietDevice /\ UNCHANGED <<users, known, unread, raced>>

\* ... and goes on, whatever has become of the event.
ReadCopied(r) ==
    /\ Goes(r, {"copy"}, "idle")
    /\ Finish(ev[r])
    /\ ev' = [ev EXCEPT ![r] = Anchor]
    /\ UNCHANGED <<pinVars, states, users, ucbVars, sysVars, faults, shared, lost, stale,
                   raced, nested>>

\* select(): on the wait queue first, ...
Poll(r) ==
    /\ users > 0
    /\ Goes(r, {"idle"}, "polling")
    /\ QuietDevice /\ UNCHANGED <<users, readVars, raced>>

\* Mutant: poll() asks whether the list is empty.
PollTestInverted(r) ==
    /\ Goes(r, {"polling"}, IF ListEmpty THEN "idle" ELSE "pollsleep")
    /\ QuietDevice /\ UNCHANGED <<users, readVars, raced>>

\* ... then the look at the list.
PollTest(r) ==
    /\ Goes(r, {"polling"}, IF ListEmpty THEN "pollsleep" ELSE "idle")
    /\ QuietDevice /\ UNCHANGED <<users, readVars, raced>>

\* Its timeout, or a signal.
PollEnd(r) ==
    /\ Goes(r, {"pollsleep"}, "idle")
    /\ QuietDevice /\ UNCHANGED <<users, readVars, raced>>

-----------------------------------------------------------------------------
(* The switches, and the system's sleep.                                   *)

\* The switches whose edges are seen: after a sleep the codec's are enabled last.
Watched == CASE power = "on"       -> Switches
             [] power = "resuming" -> SaSwitches
             [] OTHER              -> {}

\* A switch is pressed or released.  (While the system is resuming, the touchscreen
\* may have its own interrupt enabled, and with it an edge of the codec's switches.)
Move(s) ==
    /\ edges < MaxEdges
    /\ edges' = edges + 1
    /\ pins' = [pins EXCEPT ![s] = ~@]
    /\ \/ power # "asleep" /\ latched' = latched \cup {s}
       \/ s \notin Watched /\ UNCHANGED latched
    /\ UNCHANGED <<states, users, listVars, ucbVars, rpc, sysVars, readVars, lost,
                   stale, raced, nested>>

Suspend ==
    /\ power = "on" /\ ProcessRuns({}) /\ sleeps < MaxSleeps
    /\ power' = "asleep" /\ sleeps' = sleeps + 1
    /\ UNCHANGED <<pinVars, states, users, listVars, ucbVars, rpc, readVars, lost,
                   stale, raced, nested>>

\* Of the switches of S nobody has seen, or will see, what they did.
Overlooked(S) == stale' = (stale \ S) \cup {s \in S : pins[s] # states[s]}

\* pm_do_suspend() discards the edges in GEDR, and the codec has lost its own;
\* the callbacks of other devices sleep, so that processes run.
Wake ==
    /\ power = "asleep"
    /\ power' = "resuming"
    /\ latched' = {}
    /\ Overlooked(SaSwitches)
    /\ UNCHANGED <<pins, edges, states, users, listVars, ucbVars, rpc, sleeps, readVars,
                   lost, raced, nested>>

\* ucb1x00_pm() clears IE_STATUS, and the interrupts are enabled by
\* simpad_switches_ucb1x00_reinit(); nobody looks at the pins.
Resume ==
    /\ power = "resuming" /\ ProcessRuns({})
    /\ power' = "on"
    /\ latched' = latched \ UcbSwitches
    /\ Overlooked(UcbSwitches)
    /\ UNCHANGED <<pins, edges, states, users, listVars, ucbVars, rpc, sleeps, readVars,
                   lost, raced, nested>>

Reader(r) ==
    \/ Read(r) \/ ReadEmpty(r) \/ ReadError(r) \/ ReadSleep(r) \/ ReadSignal(r)
    \/ ReadTake(r) \/ ReadFault(r) \/ ReadCopied(r) \/ Poll(r) \/ PollTest(r) \/ PollEnd(r)

Next ==
    \/ \E s \in SaSwitches : SaEvent(s)
    \/ UcbIrq \/ UcbStep
    \/ Open \/ Release
    \/ \E r \in Readers : Reader(r)
    \/ \E s \in Switches : Move(s)
    \/ Suspend \/ Wake \/ Resume

Spec == Init /\ [][Next]_vars

\* A handler runs to its end, and a process that can run does run.
FairSpec ==
    /\ Spec
    /\ WF_vars(UcbStep) /\ WF_vars(Wake) /\ WF_vars(Resume)
    /\ \A r \in Readers : WF_vars(ReadSleep(r)) /\ WF_vars(PollTest(r))

-----------------------------------------------------------------------------
(* Properties.                                                             *)

Actions == [sw : Switches \cup {0}, on : BOOLEAN, gap : BOOLEAN]

\* The types of the driver's variables and of the history.
TypeOK ==
    /\ pins \in [Switches -> BOOLEAN] /\ states \in [Switches -> BOOLEAN]
    /\ latched \subseteq Switches /\ isr \subseteq UcbSwitches
    /\ users \in 0..1
    /\ next \in [Nodes -> Nodes] /\ prev \in [Nodes -> Nodes]
    /\ act \in [Cells -> Actions] /\ used \subseteq Cells
    /\ hpc \in {"none", "serve", "loaded", "stored", "linked"}
    /\ new \in Nodes /\ before \in Nodes
    /\ rpc \in [Readers -> {"idle", "loop", "window", "asleep", "copy", "polling",
                          "pollsleep"}]
    /\ ev \in [Readers -> Nodes] /\ \A r \in Readers : rpc[r] = "copy" => ev[r] \in Cells
    /\ power \in {"on", "asleep", "resuming"}
    /\ edges \in 0..MaxEdges /\ sleeps \in 0..MaxSleeps /\ faults \in 0..MaxFaults
    /\ known \in [Switches -> BOOLEAN] /\ unread \subseteq Switches \cup {0}
    /\ lost \subseteq Switches /\ stale \subseteq Switches
    /\ raced \subseteq Readers /\ nested \in BOOLEAN /\ shared \in BOOLEAN

\* Nobody is in the middle of list_add_tail().
Settled == hpc \in {"none", "serve"}

\* spinlocks.txt: the lock protects the list.  The list is the same from both
\* ends, and holds every descriptor that has been allocated and not been freed.
ListIntact ==
    Settled => LET w == Walk(next) IN
        /\ Walk(prev) = [i \in DOMAIN w |-> w[Len(w) + 1 - i]]
        /\ {w[i] : i \in DOMAIN w} = used

\* No list_add_tail() has interrupted another one, and no two readers have been at
\* the same event.
Undisturbed == ~nested /\ ~shared

\* ... which is so unless one of these happens, although a reader may sleep between
\* taking hold of the first event and deleting it, and events are added meanwhile.
ListIntactUnlessDisturbed == Undisturbed => ListIntact

\* A reader is left asleep beside an event only if that event came between its
\* look at the list and its going to sleep; and poll() has no such gap.  (After two
\* readers have freed one event, there may be anything in the list.)
StrandedOnlyByRace ==
    ~shared => \A r \in Readers : \/ rpc[r] = "asleep" /\ r \notin raced
                                 \/ rpc[r] = "pollsleep"
                                 => ListEmpty

\* What is known of switch s after the first n events of the queue q, to one who
\* knew k before.
Told(k, q, s, n) ==
    LET of == {i \in 1..n : q[i].sw = s}
    IN  IF of = {} THEN k[s] ELSE q[CHOOSE i \in of : \A j \in of : j <= i].on

\* Is one who has read the first n events of q up to date on switch s, if before that
\* the last event of the switches of u was not delivered?
Informed(u, q, s, n) == s \notin u \/ \E i \in 1..n : q[i].sw = s

\* Presses and releases of a switch alternate in what is read, and lead to what
\* the driver knows of it, over sleep, closing and bouncing; except where the driver
\* could not keep an event, or freed it although copy_to_user() failed.
Alternates ==
    Settled /\ Undisturbed => LET q == Queue IN
        /\ \A i \in DOMAIN q :
              ~q[i].gap /\ Informed(unread, q, q[i].sw, i - 1)
                  => q[i].on # Told(known, q, q[i].sw, i - 1)
        /\ \A s \in Switches \ lost :
              Informed(unread, q, s, Len(q)) => Told(known, q, s, Len(q)) = states[s]

\* A reader who has read everything knows how each switch stands, unless the
\* driver has dropped or failed to deliver its latest change, or it moved while its
\* edges were not seen.
DrainedKnows ==
    hpc = "none" /\ Undisturbed => LET q == Queue IN
        \A s \in Watched \ (latched \cup lost \cup stale \cup unread) :
            (\A i \in DOMAIN q : q[i].sw # s) => known[s] = pins[s]

\* poll() returns when there is an event to read, as long as no two readers have been
\* at the same event.
PollReturns ==
    \A r \in Readers :
        (rpc[r] \in {"polling", "pollsleep"} /\ ~ListEmpty)
            ~> (rpc[r] = "idle" \/ ListEmpty \/ shared)
=============================================================================
