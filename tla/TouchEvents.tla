---------------------------- MODULE TouchEvents ------------------------------
(***************************************************************************)
(* The touchscreen's ring of events between ktsd and the processes that    *)
(* read the device (drivers/misc/ucb1x00-ts.c).  Nothing locks the ring.   *)
(*                                                                         *)
(* The kernel is uniprocessor and not preemptive.  A reader can be held up *)
(* in ucb1x00_ts_read() when it sleeps on ts->read_wait and, if its buffer *)
(* has been paged out, in copy_to_user(), after it has looked at the ring  *)
(* and before it has moved evt_tail.                                       *)
(***************************************************************************)
EXTENDS Naturals, Sequences

CONSTANTS
    NrEvents,   \* NR_EVENTS, a power of two, 16 in the code
    Readers,    \* processes that may read the device
    Usages,     \* who reads it, and whether their buffers may be paged out
    MaxCount,   \* the most events a read() asks for
    MaxEvents   \* how many events the thread generates

ASSUME NrEventsAssumption == NrEvents \in Nat \ {0, 1}
ASSUME LimitsAssumption == MaxCount \in Nat /\ MaxEvents \in Nat
ASSUME UsagesAssumption == Usages \subseteq [users : SUBSET Readers, faults : BOOLEAN]

VARIABLES
    head, tail, \* ts->evt_head, ts->evt_tail
    events,     \* ts->events
    valid,      \* the thread's variable valid: was a sample reported last?
    rpc,        \* where each reader is
    count,      \* how many events it still wants
    got,        \* how many it has received
    item,       \* the event it is copying
    result,     \* how many events its latest read() claims to have returned
    made,       \* history: how many events the thread has generated
    usage,      \* the usage of this behaviour
    dropped,    \* history: how many were lost since the first open, in a full
                \* ring or in a buffer that cannot be written to
    delivered   \* history: the events received, in the order of evt_pull()

ringVars == <<head, tail, events>>
readVars == <<rpc, count, got, item, result>>
vars == <<ringVars, readVars, valid, usage, made, dropped, delivered>>

\* "pen" is a sample, "release" the sample with pressure 0.
Events == [id : 0..MaxEvents, kind : {"none", "pen", "release"}]
NoEvent == [id |-> 0, kind |-> "none"]

Init ==
    /\ head = 0 /\ tail = 0
    /\ events = [i \in 0..(NrEvents - 1) |-> NoEvent]
    /\ valid = FALSE
    /\ rpc = [r \in Readers |-> "idle"]
    /\ count = [r \in Readers |-> 0] /\ got = [r \in Readers |-> 0]
    /\ item = [r \in Readers |-> NoEvent]
    /\ result = [r \in Readers |-> 0]
    /\ usage \in Usages
    /\ made = 0 /\ dropped = 0 /\ delivered = <<>>

-----------------------------------------------------------------------------
(* The ring.                                                               *)

\* Mutant: the index is not wrapped where the array ends.
AfterLate(i) == (i + 1) % (NrEvents + 1)

\* (i + 1) & (NR_EVENTS - 1)
After(i) == (i + 1) % NrEvents

Pending == head # tail

\* Mutant: a full ring is not noticed.
RingFullNever == FALSE

RingFull == After(head) = tail

\* Mutant: the readers are not woken.
WakeNobody == rpc

\* wake_up_interruptible(&ts->read_wait) wakes all who sleep on it.
WakeReaders == [r \in Readers |-> IF rpc[r] = "asleep" THEN "loop"
                                  ELSE IF rpc[r] = "poll" THEN "idle" ELSE rpc[r]]

\* ucb1x00_ts_evt_add(): an event that finds the ring full is dropped.
EvtAdd(kind) ==
    /\ made' = made + 1
    /\ IF RingFull
       THEN dropped' = dropped + 1 /\ UNCHANGED <<ringVars, rpc>>
       ELSE /\ events' = [events EXCEPT ![head] = [id |-> made', kind |-> kind]]
            /\ head' = After(head)
            /\ rpc' = WakeReaders
            /\ UNCHANGED <<tail, dropped>>
    /\ UNCHANGED <<count, got, item, result, usage, delivered>>

-----------------------------------------------------------------------------
(* ktsd.                                                                   *)

\* Without page faults nobody runs while a reader copies.
CpuFree == usage.faults \/ \A r \in Readers : rpc[r] # "copy"

\* Mutant: the thread does not remember that it reported a sample.
SampleUnmarked ==
    /\ CpuFree /\ made < MaxEvents
    /\ EvtAdd("pen")
    /\ UNCHANGED valid

\* The pen is down: a sample.
Sample ==
    /\ CpuFree /\ made < MaxEvents
    /\ EvtAdd("pen")
    /\ valid' = TRUE

\* The pen is up: a "pen off" sample, if one was reported before.
Release ==
    /\ CpuFree /\ made < MaxEvents
    /\ valid
    /\ EvtAdd("release")
    /\ valid' = FALSE

\* The last user has closed the device: the thread exits and clears the ring;
\* the next one starts with valid = 0.  The histories start anew.
ThreadExit ==
    /\ \A r \in Readers : rpc[r] = "idle"
    /\ head' = 0 /\ tail' = 0
    /\ valid' = FALSE
    /\ dropped' = 0 /\ delivered' = <<>>
    /\ UNCHANGED <<events, readVars, usage, made>>

-----------------------------------------------------------------------------
(* ucb1x00_ts_read() and ucb1x00_ts_poll().                                *)

Set(f, r, v) == [f EXCEPT ![r] = v]

Read(r) ==
    /\ CpuFree /\ r \in usage.users /\ rpc[r] = "idle"
    /\ \E n \in 1..MaxCount : count' = Set(count, r, n)
    /\ got' = Set(got, r, 0)
    /\ rpc' = Set(rpc, r, "loop")
    /\ UNCHANGED <<ringVars, item, result, valid, usage, made, dropped, delivered>>

\* return ptr == buffer ? err : ptr - buffer; a negative err is no event.
Return(r, err) ==
    /\ count' = Set(count, r, 0)
    /\ rpc' = Set(rpc, r, "idle")
    /\ result' = Set(result, r, IF got'[r] = 0 THEN err ELSE got'[r])

\* The buffer is full.
ReadEnd(r) ==
    /\ CpuFree /\ rpc[r] = "loop" /\ count[r] = 0
    /\ UNCHANGED got
    /\ Return(r, 0)
    /\ UNCHANGED <<ringVars, item, valid, usage, made, dropped, delivered>>

\* A signal is pending: -ERESTARTSYS.  It also ends a sleep.
ReadSignal(r) ==
    /\ CpuFree /\ rpc[r] \in {"loop", "asleep"} /\ count[r] > 0
    /\ UNCHANGED got
    /\ Return(r, 0)
    /\ UNCHANGED <<ringVars, item, valid, usage, made, dropped, delivered>>

\* An event is pending: ucb1x00_ts_evt_get(), and copy_to_user() ...
ReadCopy(r) ==
    /\ CpuFree /\ rpc[r] = "loop" /\ count[r] > 0 /\ Pending
    /\ item' = Set(item, r, events[tail])
    /\ rpc' = Set(rpc, r, "copy")
    /\ UNCHANGED <<ringVars, count, got, result, valid, usage, made, dropped, delivered>>

\* Mutant: the loop goes on before the event is pulled and counted.
ReadPullLater(r) ==
    /\ rpc[r] = "copy"
    /\ rpc' = Set(rpc, r, "loop")
    /\ UNCHANGED <<ringVars, count, got, item, result, valid, usage, made, dropped, delivered>>

\* ... which succeeds; ucb1x00_ts_evt_pull().
ReadPull(r) ==
    /\ rpc[r] = "copy"
    /\ tail' = After(tail)
    /\ delivered' = Append(delivered, item[r])
    /\ got' = Set(got, r, got[r] + 1)
    /\ count' = Set(count, r, count[r] - 1)
    /\ item' = Set(item, r, NoEvent)
    /\ rpc' = Set(rpc, r, "loop")
    /\ UNCHANGED <<head, events, result, valid, usage, made, dropped>>

\* ... or fails: the event is pulled all the same, and err is the number of
\* bytes that could not be copied, the size of an event.
ReadFault(r) ==
    /\ rpc[r] = "copy"
    /\ tail' = After(tail)
    /\ item' = Set(item, r, NoEvent)
    /\ UNCHANGED got
    /\ Return(r, 1)
    /\ dropped' = dropped + 1
    /\ UNCHANGED <<head, events, valid, usage, made, delivered>>

\* No event is pending: sleep, or -EAGAIN for a non-blocking file.
ReadSleep(r) ==
    /\ CpuFree /\ rpc[r] = "loop" /\ count[r] > 0 /\ ~Pending
    /\ rpc' = Set(rpc, r, "asleep")
    /\ UNCHANGED <<ringVars, count, got, item, result, valid, usage, made, dropped, delivered>>

ReadAgain(r) ==
    /\ CpuFree /\ rpc[r] = "loop" /\ count[r] > 0 /\ ~Pending
    /\ UNCHANGED got
    /\ Return(r, 0)
    /\ UNCHANGED <<ringVars, item, valid, usage, made, dropped, delivered>>

\* select() or poll() sleeps if no event is pending, else it returns.
Poll(r) ==
    /\ CpuFree /\ r \in usage.users /\ rpc[r] = "idle" /\ ~Pending
    /\ rpc' = Set(rpc, r, "poll")
    /\ UNCHANGED <<ringVars, count, got, item, result, valid, usage, made, dropped, delivered>>

\* A timeout or a signal ends it, too.
PollEnd(r) ==
    /\ CpuFree /\ rpc[r] = "poll"
    /\ rpc' = Set(rpc, r, "idle")
    /\ UNCHANGED <<ringVars, count, got, item, result, valid, usage, made, dropped, delivered>>

Loop(r) == ReadEnd(r) \/ ReadCopy(r) \/ ReadPull(r) \/ ReadFault(r) \/ ReadSleep(r)
           \/ ReadAgain(r)

Reader(r) == Read(r) \/ Loop(r) \/ ReadSignal(r) \/ Poll(r) \/ PollEnd(r)

Next ==
    \/ Sample \/ Release \/ ThreadExit
    \/ \E r \in Readers : Reader(r)

Spec == Init /\ [][Next]_vars

\* A process that is in read() and can run does run.
FairSpec == Spec /\ \A r \in Readers : WF_vars(Loop(r))

-----------------------------------------------------------------------------
(* Properties.                                                             *)

Places == {"idle", "loop", "copy", "asleep", "poll"}

\* The types of the ring and of the readers' state.
TypeOK ==
    /\ head \in 0..(NrEvents - 1) /\ tail \in 0..(NrEvents - 1)
    /\ events \in [0..(NrEvents - 1) -> Events]
    /\ valid \in BOOLEAN /\ usage \in Usages
    /\ rpc \in [Readers -> Places]
    /\ count \in [Readers -> 0..MaxCount] /\ got \in [Readers -> 0..MaxCount]
    /\ item \in [Readers -> Events]
    /\ result \in [Readers -> Nat]
    /\ made \in 0..MaxEvents /\ dropped \in 0..MaxEvents
    /\ delivered \in Seq(Events)

\* No reader sleeps in read() or poll() while an event is pending.
NotStranded == \A r \in Readers : rpc[r] \in {"asleep", "poll"} => ~Pending

\* The latest event a reader has received.
LastKind == IF delivered = <<>> THEN "release" ELSE delivered[Len(delivered)].kind

\* Nothing is left to read of a touch that is over.
Drained == ~valid /\ ~Pending /\ \A r \in Readers : rpc[r] # "copy"

\* ucb1x00_thread(): "If we spat out a valid sample set last time, spit out a
\* "pen off" sample here": when the readers have received everything of a touch
\* that is over, the last thing they have seen is its end.
PenOffSeen == Drained => LastKind = "release"

\* ... which is what they see as long as no event is lost.
PenOffSeenUnlessLost == dropped = 0 => PenOffSeen

\* kernel-hacking.tmpl: copy_to_user() returns "the amount of uncopied data (ie.
\* 0 still means success)": what read() returns is what it has copied.
ReadReturnsCopied == \A r \in Readers : rpc[r] = "idle" => result[r] = got[r]

\* A reader asleep when an event arrives goes on until the ring is empty or its
\* buffer is full.
ReaderDrains ==
    \A r \in Readers : (rpc[r] = "loop" /\ Pending) ~> (~Pending \/ rpc[r] = "idle")

-----------------------------------------------------------------------------
(* The ring implements a bounded queue that keeps one slot free.           *)

Queue == [i \in 1..((head + NrEvents - tail) % NrEvents) |->
             events[(tail + i - 1) % NrEvents]]

Abstract == INSTANCE EventQueue
                WITH Capacity <- NrEvents - 1, queue <- Queue

\* Every step of the ring is one of a bounded queue.
ImplementsQueue == Abstract!Spec
=============================================================================
