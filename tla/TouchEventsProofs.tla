-------------------------- MODULE TouchEventsProofs --------------------------
(***************************************************************************)
(* Proofs about TouchEvents, for a ring of any size and any set of         *)
(* readers: the ring keeps its promises, and implements EventQueue, as     *)
(* long as at most one process copies an event at a time.                  *)
(***************************************************************************)
EXTENDS TouchEvents, SequenceTheorems, TLAPS

\* The usages the proofs are about: if buffers may be paged out, one process
\* reads the device.  (Two whose copies both sleep can pull an event too many.)
OneCopies == \A u \in Usages : u.faults => \A r, s \in u.users : r = s

Slots == 0..(NrEvents - 1)

\* How many events are in the ring between two of its slots.
RingLen(h, t) == IF h >= t THEN h - t ELSE h + NrEvents - t

\* Only the processes of the usage read, and one of them copies at a time: the
\* event at the tail, which stays there while it does.
CopyInv ==
    /\ \A r \in Readers : rpc[r] # "idle" => r \in usage.users
    /\ \A r, s \in Readers : rpc[r] = "copy" /\ rpc[s] = "copy" => r = s
    /\ \A r \in Readers : rpc[r] = "copy" => Pending /\ item[r] = events[tail]

\* What a read() has still to get and what it got fit into its buffer.
BufferInv ==
    \A r \in Readers : /\ got[r] + count[r] <= MaxCount
                       /\ rpc[r] = "copy" => count[r] > 0

\* No event is lost twice, and none that still is in the ring.
LostInv == dropped + RingLen(head, tail) <= made

\* The latest event tells whether the pen is down, unless one was lost.
LastInv ==
    dropped = 0 =>
        LET kind == IF valid THEN "pen" ELSE "release" IN
        /\ Pending  => \A i \in Slots : After(i) = head => events[i].kind = kind
        /\ ~Pending => LastKind = kind

IInv == TypeOK /\ CopyInv /\ BufferInv /\ LostInv /\ NotStranded /\ LastInv
-----------------------------------------------------------------------------
(* Arithmetic of the ring.                                                 *)

\* Wrapping a number that is less than twice the modulus.
LEMMA ModSmall ==
    ASSUME NEW n \in Nat \ {0}, NEW a \in 0..(2 * n - 1)
    PROVE  a % n = IF a < n THEN a ELSE a - n
  <1>1. CASE a < n
    BY <1>1
  <1>2. CASE a >= n
    BY <1>2
  <1> QED BY <1>1, <1>2

\* The slot after another one, and that no two slots have the same next one.
LEMMA AfterSlot ==
    /\ \A i \in Slots : /\ After(i) = IF i = NrEvents - 1 THEN 0 ELSE i + 1
                        /\ After(i) \in Slots /\ After(i) # i
    /\ \A i, j \in Slots : After(i) = After(j) => i = j
  <1>1. \A i \in Slots : After(i) = IF i = NrEvents - 1 THEN 0 ELSE i + 1
    <2> TAKE i \in Slots
    <2>1. i + 1 \in 0..(2 * NrEvents - 1) /\ NrEvents \in Nat \ {0}
      BY NrEventsAssumption DEF Slots
    <2> QED BY <2>1, ModSmall, NrEventsAssumption DEF After, Slots
  <1> QED BY <1>1, NrEventsAssumption DEF Slots

\* Adding an event makes the ring longer by one, pulling one shorter.
LEMMA RingLenMoves ==
    ASSUME NEW h \in Slots, NEW t \in Slots
    PROVE  /\ RingLen(h, t) \in Slots
           /\ After(h) # t => RingLen(After(h), t) = RingLen(h, t) + 1
           /\ h # t => RingLen(h, After(t)) = RingLen(h, t) - 1
           /\ h = t <=> RingLen(h, t) = 0
           /\ After(h) = t => RingLen(h, t) = NrEvents - 1
  BY AfterSlot, NrEventsAssumption DEF Slots, RingLen
-----------------------------------------------------------------------------
(* The ring and its readers.                                               *)

\* Events as they are put into the ring.
LEMMA EventType ==
    /\ NoEvent \in Events
    /\ \A n \in 0..MaxEvents, k \in {"pen", "release"} : [id |-> n,
        kind |-> k] \in Events
  BY LimitsAssumption DEF Events, NoEvent

\* A wake-up keeps the readers' places and touches none that is awake.
LEMMA WakeType ==
    ASSUME rpc \in [Readers -> Places]
    PROVE  /\ WakeReaders \in [Readers -> Places]
           /\ \A r \in Readers :
                /\ WakeReaders[r] \in {"idle", "loop", "copy"}
                /\ WakeReaders[r] = "copy" <=> rpc[r] = "copy"
                /\ WakeReaders[r] # "idle" => rpc[r] # "idle"
  BY DEF WakeReaders, Places

\* What ucb1x00_ts_evt_add() does to a ring that is not full: it fills the slot at
\* the head, which is not the tail of a ring with something in it.
LEMMA Added ==
    ASSUME TypeOK, NEW kind \in {"pen", "release"}, EvtAdd(kind), ~RingFull,
        made < MaxEvents
    PROVE  /\ head' = After(head) /\ tail' = tail /\ head' # tail'
           /\ head' \in Slots /\ made' = made + 1 /\ dropped' = dropped
           /\ events' \in [Slots -> Events]
           /\ events'[head] = [id |-> made + 1, kind |-> kind]
           /\ \A i \in Slots : i # head => events'[i] = events[i]
           /\ rpc' = WakeReaders
           /\ UNCHANGED <<count, got, item, result, usage, delivered>>
  <1>1. [id |-> made + 1, kind |-> kind] \in Events
    <2>1. made + 1 \in 0..MaxEvents
      BY LimitsAssumption DEF TypeOK
    <2> QED BY <2>1, EventType
  <1>2. head \in Slots /\ After(head) \in Slots
    BY AfterSlot DEF TypeOK, Slots
  <1> QED BY <1>1, <1>2 DEF EvtAdd, RingFull, TypeOK, Slots

\* ... and to a full one.
LEMMA Refused ==
    ASSUME NEW kind, EvtAdd(kind), RingFull
    PROVE  /\ made' = made + 1 /\ dropped' = dropped + 1
           /\ UNCHANGED <<ringVars, readVars, usage, delivered>>
  BY DEF EvtAdd, ringVars, readVars

\* Only the tail is copied, and by one process.
LEMMA AddCopy ==
    ASSUME TypeOK, CopyInv, NEW kind \in {"pen", "release"}, EvtAdd(kind),
        made < MaxEvents
    PROVE  CopyInv'
  <1>1. CASE RingFull
    BY <1>1, Refused DEF CopyInv, Pending, ringVars, readVars
  <1>2. CASE ~RingFull
    <2>1. rpc \in [Readers -> Places] /\ tail \in Slots
      BY DEF TypeOK, Slots
    <2> QED BY <1>2, <2>1, Added, WakeType DEF CopyInv, Pending
  <1> QED BY <1>1, <1>2

\* An event that is added is in the ring or lost, ...
LEMMA AddLost ==
    ASSUME TypeOK, LostInv, NEW kind \in {"pen", "release"}, EvtAdd(kind),
        made < MaxEvents
    PROVE  LostInv'
  <1>0. head \in Slots /\ tail \in Slots /\ made \in Nat /\ dropped \in Nat
    BY LimitsAssumption DEF TypeOK, Slots
  <1>1. RingLen(head, tail) \in Nat
    BY <1>0, RingLenMoves, NrEventsAssumption DEF Slots
  <1>2. CASE RingFull
    BY <1>0, <1>1, <1>2, Refused DEF LostInv, ringVars
  <1>3. CASE ~RingFull
    BY <1>0, <1>1, <1>3, Added, RingLenMoves DEF LostInv, RingFull
  <1> QED BY <1>2, <1>3

\* ... and one that is pulled is no longer in the ring.
LEMMA PullLost ==
    ASSUME TypeOK, LostInv, Pending, tail' = After(tail), head' = head, made' = made,
           dropped' \in {dropped, dropped + 1}
    PROVE  LostInv'
  <1>0. head \in Slots /\ tail \in Slots /\ made \in Nat /\ dropped \in Nat
    BY LimitsAssumption DEF TypeOK, Slots
  <1>1. RingLen(head, tail) \in Nat /\ RingLen(head, After(tail)) = RingLen(head,
      tail) - 1
    BY <1>0, RingLenMoves, NrEventsAssumption DEF Slots, Pending
  <1> QED BY <1>0, <1>1 DEF LostInv

\* A new session begins with nothing lost.
LEMMA ClearLost ==
    ASSUME TypeOK, head' = 0, tail' = 0, dropped' = 0, made' = made PROVE LostInv'
  BY LimitsAssumption DEF LostInv, RingLen, TypeOK

\* One process copies at a time, and what it copies stays at the tail.
LEMMA CopyStep ==
    ASSUME OneCopies, TypeOK, CopyInv, [Next]_vars PROVE CopyInv'
  <1> USE DEF ringVars, CpuFree, CopyInv, TypeOK, Pending
  <1>1. CASE Sample
    BY <1>1, AddCopy DEF Sample
  <1>2. CASE Release
    BY <1>2, AddCopy DEF Release
  <1>3. CASE ThreadExit
    BY <1>3 DEF ThreadExit, readVars
  <1>4. ASSUME NEW r \in Readers, Read(r) PROVE CopyInv'
    BY <1>4 DEF Read, Set
  <1>5. ASSUME NEW r \in Readers, ReadEnd(r) PROVE CopyInv'
    BY <1>5 DEF ReadEnd, Set, Return
  <1>6. ASSUME NEW r \in Readers, ReadSignal(r) PROVE CopyInv'
    BY <1>6 DEF ReadSignal, Set, Return
  <1>7. ASSUME NEW r \in Readers, ReadCopy(r) PROVE CopyInv'
    BY <1>7 DEF ReadCopy, Set, OneCopies
  <1>8. ASSUME NEW r \in Readers, ReadPull(r) PROVE CopyInv'
    BY <1>8 DEF ReadPull, Set
  <1>9. ASSUME NEW r \in Readers, ReadFault(r) PROVE CopyInv'
    BY <1>9 DEF ReadFault, Set, Return
  <1>10. ASSUME NEW r \in Readers, ReadSleep(r) PROVE CopyInv'
    BY <1>10 DEF ReadSleep, Set
  <1>11. ASSUME NEW r \in Readers, ReadAgain(r) PROVE CopyInv'
    BY <1>11 DEF ReadAgain, Set, Return
  <1>12. ASSUME NEW r \in Readers, Poll(r) PROVE CopyInv'
    BY <1>12 DEF Poll, Set
  <1>13. ASSUME NEW r \in Readers, PollEnd(r) PROVE CopyInv'
    BY <1>13 DEF PollEnd, Set
  <1>14. CASE UNCHANGED vars
    BY <1>14 DEF vars, readVars
  <1> QED BY <1>1, <1>2, <1>3, <1>4, <1>5, <1>6, <1>7, <1>8, <1>9, <1>10, <1>11, <1>12,
     <1>13, <1>14 DEF Next, Reader, Loop

\* What is still wanted fits into the buffer.
LEMMA BufferStep ==
    ASSUME TypeOK, BufferInv, [Next]_vars PROVE BufferInv'
  <1> USE DEF ringVars, BufferInv, TypeOK
  <1>1. CASE Sample
    BY <1>1, WakeType DEF Sample, EvtAdd
  <1>2. CASE Release
    BY <1>2, WakeType DEF Release, EvtAdd
  <1>3. CASE ThreadExit
    BY <1>3 DEF ThreadExit, readVars
  <1>4. ASSUME NEW r \in Readers, Read(r) PROVE BufferInv'
    BY <1>4, LimitsAssumption DEF Read, Set
  <1>5. ASSUME NEW r \in Readers, ReadEnd(r) PROVE BufferInv'
    BY <1>5 DEF ReadEnd, Set, Return
  <1>6. ASSUME NEW r \in Readers, ReadSignal(r) PROVE BufferInv'
    BY <1>6 DEF ReadSignal, Set, Return
  <1>7. ASSUME NEW r \in Readers, ReadCopy(r) PROVE BufferInv'
    BY <1>7 DEF ReadCopy, Set
  <1>8. ASSUME NEW r \in Readers, ReadPull(r) PROVE BufferInv'
    BY <1>8 DEF ReadPull, Set
  <1>9. ASSUME NEW r \in Readers, ReadFault(r) PROVE BufferInv'
    BY <1>9 DEF ReadFault, Set, Return
  <1>10. ASSUME NEW r \in Readers, ReadSleep(r) PROVE BufferInv'
    BY <1>10 DEF ReadSleep, Set
  <1>11. ASSUME NEW r \in Readers, ReadAgain(r) PROVE BufferInv'
    BY <1>11 DEF ReadAgain, Set, Return
  <1>12. ASSUME NEW r \in Readers, Poll(r) PROVE BufferInv'
    BY <1>12 DEF Poll, Set
  <1>13. ASSUME NEW r \in Readers, PollEnd(r) PROVE BufferInv'
    BY <1>13 DEF PollEnd, Set
  <1>14. CASE UNCHANGED vars
    BY <1>14 DEF vars, readVars
  <1> QED BY <1>1, <1>2, <1>3, <1>4, <1>5, <1>6, <1>7, <1>8, <1>9, <1>10, <1>11, <1>12,
     <1>13, <1>14 DEF Next, Reader, Loop

\* No event is lost twice.
LEMMA LostStep ==
    ASSUME TypeOK, CopyInv, LostInv, [Next]_vars PROVE LostInv'
  <1> USE DEF ringVars
  <1>1. CASE Sample
    BY <1>1, AddLost DEF Sample
  <1>2. CASE Release
    BY <1>2, AddLost DEF Release
  <1>3. CASE ThreadExit
    BY <1>3, ClearLost DEF ThreadExit, readVars
  <1>4. ASSUME NEW r \in Readers, Read(r) PROVE LostInv'
    BY <1>4 DEF Read, Set, LostInv
  <1>5. ASSUME NEW r \in Readers, ReadEnd(r) PROVE LostInv'
    BY <1>5 DEF ReadEnd, Set, Return, LostInv
  <1>6. ASSUME NEW r \in Readers, ReadSignal(r) PROVE LostInv'
    BY <1>6 DEF ReadSignal, Set, Return, LostInv
  <1>7. ASSUME NEW r \in Readers, ReadCopy(r) PROVE LostInv'
    BY <1>7 DEF ReadCopy, Set, LostInv
  <1>8. ASSUME NEW r \in Readers, ReadPull(r) PROVE LostInv'
    BY <1>8, PullLost DEF ReadPull, Set, CopyInv
  <1>9. ASSUME NEW r \in Readers, ReadFault(r) PROVE LostInv'
    BY <1>9, PullLost DEF ReadFault, Set, Return, CopyInv
  <1>10. ASSUME NEW r \in Readers, ReadSleep(r) PROVE LostInv'
    BY <1>10 DEF ReadSleep, Set, LostInv
  <1>11. ASSUME NEW r \in Readers, ReadAgain(r) PROVE LostInv'
    BY <1>11 DEF ReadAgain, Set, Return, LostInv
  <1>12. ASSUME NEW r \in Readers, Poll(r) PROVE LostInv'
    BY <1>12 DEF Poll, Set, LostInv
  <1>13. ASSUME NEW r \in Readers, PollEnd(r) PROVE LostInv'
    BY <1>13 DEF PollEnd, Set, LostInv
  <1>14. CASE UNCHANGED vars
    BY <1>14 DEF vars, readVars, LostInv
  <1> QED BY <1>1, <1>2, <1>3, <1>4, <1>5, <1>6, <1>7, <1>8, <1>9, <1>10, <1>11, <1>12,
     <1>13, <1>14 DEF Next, Reader, Loop

\* Nobody is left asleep.
LEMMA StrandedStep ==
    ASSUME TypeOK, CopyInv, NotStranded, [Next]_vars PROVE NotStranded'
  <1> USE DEF ringVars, NotStranded, TypeOK, Pending
  <1>1. CASE Sample
    BY <1>1, WakeType DEF Sample, EvtAdd
  <1>2. CASE Release
    BY <1>2, WakeType DEF Release, EvtAdd
  <1>3. CASE ThreadExit
    BY <1>3 DEF ThreadExit, readVars
  <1>4. ASSUME NEW r \in Readers, Read(r) PROVE NotStranded'
    BY <1>4 DEF Read, Set
  <1>5. ASSUME NEW r \in Readers, ReadEnd(r) PROVE NotStranded'
    BY <1>5 DEF ReadEnd, Set, Return
  <1>6. ASSUME NEW r \in Readers, ReadSignal(r) PROVE NotStranded'
    BY <1>6 DEF ReadSignal, Set, Return
  <1>7. ASSUME NEW r \in Readers, ReadCopy(r) PROVE NotStranded'
    BY <1>7 DEF ReadCopy, Set
  <1>8. ASSUME NEW r \in Readers, ReadPull(r) PROVE NotStranded'
    BY <1>8 DEF ReadPull, Set, CopyInv
  <1>9. ASSUME NEW r \in Readers, ReadFault(r) PROVE NotStranded'
    BY <1>9 DEF ReadFault, Set, Return, CopyInv
  <1>10. ASSUME NEW r \in Readers, ReadSleep(r) PROVE NotStranded'
    BY <1>10 DEF ReadSleep, Set
  <1>11. ASSUME NEW r \in Readers, ReadAgain(r) PROVE NotStranded'
    BY <1>11 DEF ReadAgain, Set, Return
  <1>12. ASSUME NEW r \in Readers, Poll(r) PROVE NotStranded'
    BY <1>12 DEF Poll, Set
  <1>13. ASSUME NEW r \in Readers, PollEnd(r) PROVE NotStranded'
    BY <1>13 DEF PollEnd, Set
  <1>14. CASE UNCHANGED vars
    BY <1>14 DEF vars, readVars
  <1> QED BY <1>1, <1>2, <1>3, <1>4, <1>5, <1>6, <1>7, <1>8, <1>9, <1>10, <1>11, <1>12,
     <1>13, <1>14 DEF Next, Reader, Loop

\* The latest event of a touch: an event that is added is the latest one, ...
LEMMA AddLast ==
    ASSUME TypeOK, NEW kind \in {"pen", "release"}, EvtAdd(kind), made < MaxEvents,
           kind = (IF valid' THEN "pen" ELSE "release")
    PROVE  LastInv'
  <1>1. CASE RingFull
    BY <1>1, Refused, LimitsAssumption DEF LastInv, TypeOK
  <1>2. CASE ~RingFull
    <2>1. head \in Slots
      BY DEF TypeOK, Slots
    <2>2. Pending' /\ head' = After(head) /\ events'[head].kind = kind
      BY <1>2, Added DEF Pending
    <2>3. \A i \in Slots : After(i) = head' => events'[i].kind = kind
      BY <2>1, <2>2, AfterSlot
    <2>4. Slots' = Slots /\ \A i \in Slots : After(i)' = After(i)
      BY DEF Slots, After
    <2> QED BY <2>2, <2>3, <2>4 DEF LastInv, Slots, After
  <1> QED BY <1>1, <1>2

\* ... and one that empties the ring was the latest one.
LEMMA PullLast ==
    ASSUME TypeOK, CopyInv, LastInv, NEW r \in Readers, ReadPull(r)
    PROVE  LastInv'
  <1> SUFFICES ASSUME dropped' = 0 PROVE LastInv'
    BY DEF LastInv
  <1> DEFINE kind == IF valid THEN "pen" ELSE "release"
  <1>1. /\ Pending /\ item[r] = events[tail] /\ tail \in Slots
        /\ dropped = 0 /\ valid' = valid /\ head' = head /\ events' = events
        /\ tail' = After(tail) /\ delivered' = Append(delivered, item[r])
        /\ delivered \in Seq(Events) /\ item[r] \in Events
    BY DEF ReadPull, CopyInv, TypeOK, Slots
  <1>2. \A i \in Slots : After(i) = head => events[i].kind = kind
    BY <1>1 DEF LastInv
  <1>3. CASE Pending'
    BY <1>1, <1>2, <1>3 DEF LastInv, Slots, After
  <1>4. CASE ~Pending'
    <2>1. item[r].kind = kind
      BY <1>1, <1>2, <1>4 DEF Pending
    <2>2. delivered' # <<>> /\ delivered'[Len(delivered')] = item[r]
      BY <1>1, AppendProperties
    <2>3. LastKind' = kind
      BY <2>1, <2>2 DEF LastKind
    <2> QED BY <1>1, <1>4, <2>3 DEF LastInv
  <1> QED BY <1>3, <1>4

\* Unless an event is lost, the latest one tells whether the pen is down.
LEMMA LastStep ==
    ASSUME TypeOK, CopyInv, LastInv, [Next]_vars PROVE LastInv'
  <1> USE DEF ringVars
  <1>1. CASE Sample
    BY <1>1, AddLast DEF Sample
  <1>2. CASE Release
    BY <1>2, AddLast DEF Release
  <1>3. CASE ThreadExit
    BY <1>3 DEF ThreadExit, readVars, LastInv, LastKind, Pending, After, Slots
  <1>4. ASSUME NEW r \in Readers, Read(r) PROVE LastInv'
    BY <1>4 DEF Read, Set, LastInv, LastKind, Pending, After, Slots
  <1>5. ASSUME NEW r \in Readers, ReadEnd(r) PROVE LastInv'
    BY <1>5 DEF ReadEnd, Set, Return, LastInv, LastKind, Pending, After, Slots
  <1>6. ASSUME NEW r \in Readers, ReadSignal(r) PROVE LastInv'
    BY <1>6 DEF ReadSignal, Set, Return, LastInv, LastKind, Pending, After, Slots
  <1>7. ASSUME NEW r \in Readers, ReadCopy(r) PROVE LastInv'
    BY <1>7 DEF ReadCopy, Set, LastInv, LastKind, Pending, After, Slots
  <1>8. ASSUME NEW r \in Readers, ReadPull(r) PROVE LastInv'
    BY <1>8, PullLast DEF ReadPull, Set
  <1>9. ASSUME NEW r \in Readers, ReadFault(r) PROVE LastInv'
    BY <1>9, LimitsAssumption DEF ReadFault, Set, Return, LastInv, TypeOK
  <1>10. ASSUME NEW r \in Readers, ReadSleep(r) PROVE LastInv'
    BY <1>10 DEF ReadSleep, Set, LastInv, LastKind, Pending, After, Slots
  <1>11. ASSUME NEW r \in Readers, ReadAgain(r) PROVE LastInv'
    BY <1>11 DEF ReadAgain, Set, Return, LastInv, LastKind, Pending, After, Slots
  <1>12. ASSUME NEW r \in Readers, Poll(r) PROVE LastInv'
    BY <1>12 DEF Poll, Set, LastInv, LastKind, Pending, After, Slots
  <1>13. ASSUME NEW r \in Readers, PollEnd(r) PROVE LastInv'
    BY <1>13 DEF PollEnd, Set, LastInv, LastKind, Pending, After, Slots
  <1>14. CASE UNCHANGED vars
    BY <1>14 DEF vars, readVars, LastInv, LastKind, Pending, After, Slots
  <1> QED BY <1>1, <1>2, <1>3, <1>4, <1>5, <1>6, <1>7, <1>8, <1>9, <1>10, <1>11, <1>12,
     <1>13, <1>14 DEF Next, Reader, Loop

\* The types: ucb1x00_ts_evt_add() keeps them.
LEMMA AddType ==
    ASSUME TypeOK, LostInv', NEW kind \in {"pen", "release"}, EvtAdd(kind),
        made < MaxEvents,
           valid' \in BOOLEAN
    PROVE  TypeOK'
  <1>1. made' \in 0..MaxEvents /\ dropped' \in Nat
    BY LimitsAssumption DEF TypeOK, EvtAdd
  <1>2. head' \in Slots /\ tail' \in Slots
    <2>1. CASE RingFull
      BY <2>1, Refused DEF TypeOK, ringVars, Slots
    <2>2. CASE ~RingFull
      BY <2>2, Added DEF TypeOK, Slots
    <2> QED BY <2>1, <2>2
  <1>3. RingLen(head', tail') \in Nat
    BY <1>2, RingLenMoves, NrEventsAssumption DEF Slots
  <1>4. dropped' \in 0..MaxEvents
    BY <1>1, <1>3, LimitsAssumption DEF LostInv, RingLen
  <1>5. CASE RingFull
    BY <1>1, <1>4, <1>5, Refused DEF TypeOK, ringVars, readVars
  <1>6. CASE ~RingFull
    <2>1. rpc' \in [Readers -> Places]
      BY <1>6, Added, WakeType DEF TypeOK
    <2>2. events' \in [Slots -> Events]
      BY <1>6, Added
    <2> QED BY <1>1, <1>2, <1>4, <1>6, <2>1, <2>2, Added DEF TypeOK, Slots
  <1> QED BY <1>5, <1>6

\* An event lost in a buffer was in the ring before.
LEMMA FaultType ==
    ASSUME TypeOK, CopyInv, LostInv, NEW r \in Readers, ReadFault(r)
    PROVE  dropped' \in 0..MaxEvents
  <1>1. /\ head \in Slots /\ tail \in Slots /\ made \in 0..MaxEvents /\ dropped \in Nat
        /\ head # tail /\ dropped' = dropped + 1
    BY LimitsAssumption DEF TypeOK, Slots, ReadFault, CopyInv, Pending
  <1>2. RingLen(head, tail) \in Nat \ {0}
    BY <1>1, RingLenMoves, NrEventsAssumption DEF Slots
  <1> QED BY <1>1, <1>2, LimitsAssumption DEF LostInv

\* The next session begins with an empty ring.
LEMMA ExitType ==
    ASSUME TypeOK, ThreadExit
    PROVE  TypeOK'
  <1>1. valid' \in BOOLEAN
    BY Zenon DEF ThreadExit
  <1>2. delivered' \in Seq(Events)
    BY EmptySeq DEF ThreadExit
  <1>3. head' \in 0..(NrEvents - 1) /\ tail' \in 0..(NrEvents - 1) /\ dropped' \in 0..MaxEvents
    BY NrEventsAssumption, LimitsAssumption DEF ThreadExit
  <1> QED BY <1>1, <1>2, <1>3 DEF ThreadExit, TypeOK, readVars

\* Pulling an event, after it was copied or not.
LEMMA PullType ==
    ASSUME TypeOK, CopyInv, BufferInv, LostInv, NEW r \in Readers,
        ReadPull(r) \/ ReadFault(r)
    PROVE  TypeOK'
  <1>1. tail' \in 0..(NrEvents - 1)
    BY AfterSlot DEF TypeOK, ReadPull, ReadFault, Slots
  <1>2. rpc' \in [Readers -> Places]
    BY DEF TypeOK, Places, ReadPull, ReadFault, Return, Set
  <1>3. item' \in [Readers -> Events]
    BY EventType DEF TypeOK, ReadPull, ReadFault, Set
  <1>4. count' \in [Readers -> 0..MaxCount] /\ got' \in [Readers -> 0..MaxCount]
    <2>1. CASE ReadPull(r)
      <3>1. got[r] + 1 \in 0..MaxCount /\ count[r] - 1 \in 0..MaxCount
        BY <2>1, LimitsAssumption DEF TypeOK, BufferInv, ReadPull
      <3> QED BY <2>1, <3>1 DEF TypeOK, ReadPull, Set
    <2>2. CASE ReadFault(r)
      BY <2>2, LimitsAssumption DEF TypeOK, ReadFault, Return, Set
    <2> QED BY <2>1, <2>2
  <1>5. result' \in [Readers -> Nat]
    <2>1. CASE ReadPull(r)
      BY <2>1 DEF TypeOK, ReadPull
    <2>2. CASE ReadFault(r)
      <3>1. got'[r] \in Nat
        BY <1>4
      <3> QED BY <2>2, <3>1 DEF TypeOK, ReadFault, Return, Set
    <2> QED BY <2>1, <2>2
  <1>6. dropped' \in 0..MaxEvents
    BY FaultType DEF ReadPull, TypeOK
  <1>7. delivered' \in Seq(Events)
    <2>1. item[r] \in Events /\ delivered \in Seq(Events)
      BY DEF TypeOK
    <2>2. Append(delivered, item[r]) \in Seq(Events)
      BY <2>1, AppendProperties
    <2> QED BY <2>1, <2>2 DEF ReadPull, ReadFault
  <1>8. UNCHANGED <<head, events, valid, usage, made>>
    BY DEF ReadPull, ReadFault
  <1> QED BY <1>1, <1>2, <1>3, <1>4, <1>5, <1>6, <1>7, <1>8 DEF TypeOK

\* Every step keeps the types.
LEMMA TypeStep ==
    ASSUME TypeOK, CopyInv, BufferInv, LostInv, LostInv', [Next]_vars PROVE TypeOK'
  <1> USE DEF ringVars, TypeOK, Places
  <1>1. CASE Sample
    BY <1>1, AddType DEF Sample
  <1>2. CASE Release
    BY <1>2, AddType DEF Release
  <1>3. CASE ThreadExit
    BY <1>3, ExitType
  <1>4. ASSUME NEW r \in Readers, Read(r) PROVE TypeOK'
    BY <1>4, LimitsAssumption DEF Read, Set
  <1>5. ASSUME NEW r \in Readers, ReadEnd(r) PROVE TypeOK'
    BY <1>5, LimitsAssumption DEF ReadEnd, Set, Return
  <1>6. ASSUME NEW r \in Readers, ReadSignal(r) PROVE TypeOK'
    BY <1>6, LimitsAssumption DEF ReadSignal, Set, Return
  <1>7. ASSUME NEW r \in Readers, ReadCopy(r) PROVE TypeOK'
    BY <1>7 DEF ReadCopy, Set
  <1>8. ASSUME NEW r \in Readers, ReadPull(r) PROVE TypeOK'
    BY <1>8, PullType
  <1>9. ASSUME NEW r \in Readers, ReadFault(r) PROVE TypeOK'
    BY <1>9, PullType
  <1>10. ASSUME NEW r \in Readers, ReadSleep(r) PROVE TypeOK'
    BY <1>10 DEF ReadSleep, Set
  <1>11. ASSUME NEW r \in Readers, ReadAgain(r) PROVE TypeOK'
    BY <1>11, LimitsAssumption DEF ReadAgain, Set, Return
  <1>12. ASSUME NEW r \in Readers, Poll(r) PROVE TypeOK'
    BY <1>12 DEF Poll, Set
  <1>13. ASSUME NEW r \in Readers, PollEnd(r) PROVE TypeOK'
    BY <1>13 DEF PollEnd, Set
  <1>14. CASE UNCHANGED vars
    BY <1>14 DEF vars, readVars
  <1> QED BY <1>1, <1>2, <1>3, <1>4, <1>5, <1>6, <1>7, <1>8, <1>9, <1>10, <1>11, <1>12,
     <1>13, <1>14 DEF Next, Reader, Loop
-----------------------------------------------------------------------------
(* The invariant and what follows from it.                                 *)

\* The initial state satisfies the invariant.
LEMMA InitIInv == Init => IInv
  <1> SUFFICES ASSUME Init PROVE IInv
    OBVIOUS
  <1>1. TypeOK
    <2>1. valid \in BOOLEAN
      BY Zenon DEF Init
    <2>2. delivered \in Seq(Events)
      BY EmptySeq DEF Init
    <2>3. events \in [0..(NrEvents - 1) -> Events] /\ item \in [Readers -> Events]
      BY EventType DEF Init
    <2> QED BY <2>1, <2>2, <2>3, NrEventsAssumption, LimitsAssumption DEF Init, TypeOK,
               Places
  <1>2. CopyInv /\ BufferInv /\ NotStranded
    BY LimitsAssumption DEF Init, CopyInv, BufferInv, NotStranded
  <1>3. LostInv /\ LastInv
    BY DEF Init, LostInv, RingLen, LastInv, LastKind, Pending
  <1> QED BY <1>1, <1>2, <1>3 DEF IInv

\* Every step keeps it, if one process copies at a time.
LEMMA NextIInv == ASSUME OneCopies PROVE IInv /\ [Next]_vars => IInv'
  <1> SUFFICES ASSUME IInv, [Next]_vars PROVE IInv'
    OBVIOUS
  <1>1. CopyInv' /\ BufferInv' /\ NotStranded'
    BY CopyStep, BufferStep, StrandedStep DEF IInv
  <1>2. LostInv' /\ LastInv'
    BY LostStep, LastStep DEF IInv
  <1>3. TypeOK'
    BY <1>2, TypeStep DEF IInv
  <1> QED BY <1>1, <1>2, <1>3 DEF IInv

\* The invariant holds in every reachable state.
THEOREM IInvAlways == ASSUME OneCopies PROVE Spec => []IInv
  BY InitIInv, NextIInv, PTL DEF Spec

\* The indices stay in the ring, the counts of a read() in its buffer, and no more
\* events are lost than were made.
THEOREM TypeCorrect == ASSUME OneCopies PROVE Spec => []TypeOK
  <1>1. IInv => TypeOK
    BY DEF IInv
  <1> QED BY <1>1, IInvAlways, PTL

\* No reader sleeps in read() or poll() while an event is pending.
THEOREM NeverStranded == ASSUME OneCopies PROVE Spec => []NotStranded
  <1>1. IInv => NotStranded
    BY DEF IInv
  <1> QED BY <1>1, IInvAlways, PTL

\* If no event was lost, readers that have everything of a touch that is over have
\* seen its end.
THEOREM PenOffAlwaysSeen == ASSUME OneCopies PROVE Spec => []PenOffSeenUnlessLost
  <1>1. IInv => PenOffSeenUnlessLost
    BY DEF IInv, LastInv, PenOffSeenUnlessLost, PenOffSeen, Drained
  <1> QED BY <1>1, IInvAlways, PTL
-----------------------------------------------------------------------------
(* The ring implements the queue.                                          *)

\* The events between two slots, oldest first.
QueueOf(e, h, t) == [i \in 1..RingLen(h, t) |-> e[(t + i - 1) % NrEvents]]

\* The slot of the i-th event.
LEMMA SlotOf ==
    ASSUME NEW t \in Slots, NEW i \in 1..NrEvents
    PROVE  /\ (t + i - 1) % NrEvents
                = IF t + i - 1 < NrEvents THEN t + i - 1 ELSE (t + i - 1) - NrEvents
           /\ (t + i - 1) % NrEvents \in Slots
  <1>1. t + i - 1 \in 0..(2 * NrEvents - 1) /\ NrEvents \in Nat \ {0}
    BY NrEventsAssumption DEF Slots
  <1>2. (t + i - 1) % NrEvents
          = IF t + i - 1 < NrEvents THEN t + i - 1 ELSE (t + i - 1) - NrEvents
    <2> DEFINE a == t + i - 1
    <2>1. a \in 0..(2 * NrEvents - 1)
      BY <1>1
    <2> HIDE DEF a
    <2>2. a % NrEvents = IF a < NrEvents THEN a ELSE a - NrEvents
      BY <1>1, <2>1, ModSmall
    <2> QED BY <2>2, Zenon DEF a
  <1> QED BY <1>1, <1>2 DEF Slots

\* The queue is a sequence of the events in the ring.
LEMMA QueueSeq ==
    ASSUME NEW e \in [Slots -> Events], NEW h \in Slots, NEW t \in Slots
    PROVE  /\ QueueOf(e, h, t) \in Seq(Events)
           /\ Len(QueueOf(e, h, t)) = RingLen(h, t)
           /\ \A i \in 1..RingLen(h, t) : QueueOf(e, h,
               t)[i] = e[(t + i - 1) % NrEvents]
  <1>1. RingLen(h, t) \in Slots
    BY RingLenMoves
  <1>2. \A i \in 1..RingLen(h, t) : e[(t + i - 1) % NrEvents] \in Events
    BY <1>1, SlotOf, NrEventsAssumption DEF Slots
  <1> QED BY <1>1, <1>2, NrEventsAssumption DEF QueueOf, Slots

\* Its length as the refinement mapping computes it.
LEMMA RingLenMod ==
    ASSUME NEW h \in Slots, NEW t \in Slots
    PROVE  (h + NrEvents - t) % NrEvents = RingLen(h, t)
  <1> DEFINE a == h + NrEvents - t
  <1>1. a \in 0..(2 * NrEvents - 1) /\ NrEvents \in Nat \ {0}
    BY NrEventsAssumption DEF Slots
  <1>2. RingLen(h, t) = IF a < NrEvents THEN a ELSE a - NrEvents
    BY NrEventsAssumption DEF Slots, RingLen
  <1> HIDE DEF a
  <1>3. a % NrEvents = RingLen(h, t)
    BY <1>1, <1>2, ModSmall
  <1> QED BY <1>3, Zenon DEF a

\* The mapping's queue is this one, ...
LEMMA QueueIs == ASSUME TypeOK PROVE Queue = QueueOf(events, head, tail)
  BY RingLenMod DEF TypeOK, Slots, Queue, QueueOf

\* ... after a step, too.
LEMMA QueueAfter == ASSUME TypeOK' PROVE Queue' = QueueOf(events', head', tail')
  <1>1. head' \in Slots /\ tail' \in Slots
    BY DEF TypeOK, Slots
  <1>2. (head' + NrEvents - tail') % NrEvents = RingLen(head', tail')
    BY <1>1, RingLenMod
  <1> QED BY <1>2 DEF Queue, QueueOf

\* Filling the slot at the head appends.
LEMMA PutQueue ==
    ASSUME NEW e \in [Slots -> Events], NEW f \in [Slots -> Events],
           NEW h \in Slots, NEW t \in Slots, After(h) # t,
           \A i \in Slots : i # h => f[i] = e[i]
    PROVE  QueueOf(f, After(h), t) = Append(QueueOf(e, h, t), f[h])
  <1> DEFINE q == QueueOf(e, h, t)
             p == QueueOf(f, After(h), t)
             n == RingLen(h, t)
  <1>1. /\ After(h) \in Slots /\ n \in Slots /\ RingLen(After(h), t) = n + 1
        /\ n + 1 \in 1..NrEvents
    <2>1. After(h) \in Slots /\ n \in Slots /\ RingLen(After(h), t) = n + 1
      BY AfterSlot, RingLenMoves
    <2> QED BY <2>1, NrEventsAssumption DEF Slots
  <1>2. /\ q \in Seq(Events) /\ Len(q) = n
        /\ \A i \in 1..n : q[i] = e[(t + i - 1) % NrEvents]
    BY QueueSeq
  <1>3. /\ p \in Seq(Events) /\ Len(p) = n + 1
        /\ \A i \in 1..(n + 1) : p[i] = f[(t + i - 1) % NrEvents]
    <2>1. /\ p \in Seq(Events) /\ Len(p) = RingLen(After(h), t)
          /\ \A i \in 1..RingLen(After(h), t) : p[i] = f[(t + i - 1) % NrEvents]
      BY <1>1, QueueSeq
    <2> QED BY <1>1, <2>1
  <1>4. (t + (n + 1) - 1) % NrEvents = h
    BY <1>1, SlotOf, NrEventsAssumption DEF Slots, RingLen
  <1>5. \A i \in 1..n : (t + i - 1) % NrEvents \in Slots /\ (t + i - 1) % NrEvents # h
    BY <1>1, SlotOf, NrEventsAssumption DEF Slots, RingLen
  <1>6. f[h] \in Events
    OBVIOUS
  <1> HIDE DEF q, p, n
  <1>7. /\ Append(q, f[h]) \in Seq(Events) /\ Len(Append(q, f[h])) = n + 1
        /\ \A i \in 1..n : Append(q, f[h])[i] = q[i]
        /\ Append(q, f[h])[n + 1] = f[h]
    BY <1>2, <1>6, AppendProperties
  <1>8. n \in Nat
    BY <1>1, NrEventsAssumption DEF Slots
  <1>9. \A i \in 1..(n + 1) : p[i] = Append(q, f[h])[i]
    <2> TAKE i \in 1..(n + 1)
    <2>1. CASE i = n + 1
      BY <2>1, <1>3, <1>4, <1>7, <1>8
    <2>2. CASE i # n + 1
      <3>1. i \in 1..n
        BY <2>2, <1>8
      <3> QED BY <3>1, <1>2, <1>3, <1>5, <1>7
    <2> QED BY <2>1, <2>2
  <1>10. p = Append(q, f[h])
    BY <1>3, <1>7, <1>9, SeqEqual
  <1> QED BY <1>10 DEF p, q

\* Moving the tail takes the first event away.
LEMMA PullQueue ==
    ASSUME NEW e \in [Slots -> Events], NEW h \in Slots, NEW t \in Slots, h # t
    PROVE  /\ QueueOf(e, h, t) # <<>>
           /\ Head(QueueOf(e, h, t)) = e[t]
           /\ QueueOf(e, h, After(t)) = Tail(QueueOf(e, h, t))
  <1> DEFINE q == QueueOf(e, h, t)
             p == QueueOf(e, h, After(t))
             n == RingLen(h, t)
  <1>1. /\ After(t) \in Slots /\ n \in Slots /\ RingLen(h, After(t)) = n - 1
        /\ n \in Nat \ {0} /\ n < NrEvents
    <2>1. /\ After(t) \in Slots /\ n \in Slots /\ RingLen(h, After(t)) = n - 1
          /\ n # 0
      BY AfterSlot, RingLenMoves
    <2> QED BY <2>1, NrEventsAssumption DEF Slots
  <1>2. /\ q \in Seq(Events) /\ Len(q) = n
        /\ \A i \in 1..n : q[i] = e[(t + i - 1) % NrEvents]
    BY QueueSeq
  <1>3. /\ p \in Seq(Events) /\ Len(p) = n - 1
        /\ \A i \in 1..(n - 1) : p[i] = e[(After(t) + i - 1) % NrEvents]
    <2>1. /\ p \in Seq(Events) /\ Len(p) = RingLen(h, After(t))
          /\ \A i \in 1..RingLen(h, After(t)) : p[i] = e[(After(t) + i - 1) % NrEvents]
      BY <1>1, QueueSeq
    <2> QED BY <1>1, <2>1
  <1>4. (t + 1 - 1) % NrEvents = t
    BY SlotOf, NrEventsAssumption DEF Slots
  <1>5. \A i \in 1..(n - 1) : (After(t) + i - 1) % NrEvents = (t + (i + 1) - 1) % NrEvents
    <2> TAKE i \in 1..(n - 1)
    <2>1. i \in 1..NrEvents /\ i + 1 \in 1..NrEvents /\ i + 1 \in Nat
      BY <1>1, NrEventsAssumption
    <2>2. (After(t) + i - 1) % NrEvents
            = IF After(t) + i - 1 < NrEvents THEN After(t) + i - 1
                                             ELSE (After(t) + i - 1) - NrEvents
      BY <1>1, <2>1, SlotOf
    <2>3. (t + (i + 1) - 1) % NrEvents
            = IF t + (i + 1) - 1 < NrEvents THEN t + (i + 1) - 1
                                            ELSE (t + (i + 1) - 1) - NrEvents
      BY <2>1, SlotOf
    <2>4. After(t) = IF t = NrEvents - 1 THEN 0 ELSE t + 1
      BY AfterSlot
    <2> QED BY <1>1, <2>1, <2>2, <2>3, <2>4, NrEventsAssumption DEF Slots
  <1> HIDE DEF q, p, n
  <1>6. q # <<>> /\ q[1] = e[t]
    BY <1>1, <1>2, <1>4, EmptySeq
  <1>7. Head(q) = e[t]
    BY <1>2, <1>6
  <1>8. /\ Tail(q) \in Seq(Events) /\ Len(Tail(q)) = n - 1
        /\ \A i \in 1..(n - 1) : Tail(q)[i] = q[i + 1]
    BY <1>1, <1>2, <1>6, HeadTailProperties
  <1>9. \A i \in 1..(n - 1) : p[i] = Tail(q)[i]
    <2> TAKE i \in 1..(n - 1)
    <2>1. i + 1 \in 1..n
      BY <1>1
    <2> QED BY <2>1, <1>2, <1>3, <1>5, <1>8
  <1>10. p = Tail(q)
    BY <1>3, <1>8, <1>9, SeqEqual
  <1> QED BY <1>6, <1>7, <1>10 DEF p, q

\* A step that adds an event puts it into the queue, or is refused.
LEMMA AddImplements ==
    ASSUME TypeOK, TypeOK', NEW kind \in {"pen", "release"}, EvtAdd(kind),
        made < MaxEvents
    PROVE  Abstract!Put \/ UNCHANGED Abstract!vars
  <1>1. CASE RingFull
    <2>1. UNCHANGED <<head, tail, events, delivered>>
      BY <1>1, Refused DEF ringVars
    <2>2. Queue' = Queue
      BY <2>1 DEF Queue
    <2> QED BY <2>1, <2>2 DEF Abstract!vars
  <1>2. CASE ~RingFull
    <2>1. events \in [Slots -> Events] /\ head \in Slots /\ tail \in Slots
      BY DEF TypeOK, Slots
    <2>2. /\ events' \in [Slots -> Events] /\ head' = After(head) /\ tail' = tail
          /\ After(head) # tail /\ delivered' = delivered
          /\ \A i \in Slots : i # head => events'[i] = events[i]
      BY <1>2, Added DEF RingFull
    <2>3. Queue = QueueOf(events, head, tail)
      BY QueueIs
    <2>4. Queue' = QueueOf(events', head', tail')
      BY QueueAfter
    <2>5. Queue' = Append(Queue, events'[head]) /\ events'[head] \in Events
      BY <2>1, <2>2, <2>3, <2>4, PutQueue
    <2>6. Len(Queue) < NrEvents - 1
      <3>1. Len(Queue) = RingLen(head, tail)
        BY <2>1, <2>3, QueueSeq
      <3>2. RingLen(After(head), tail) = RingLen(head, tail) + 1
        BY <2>1, <2>2, RingLenMoves
      <3>3. RingLen(After(head), tail) \in Slots /\ RingLen(head, tail) \in Slots
        BY <2>1, AfterSlot, RingLenMoves
      <3> QED BY <3>1, <3>2, <3>3, NrEventsAssumption DEF Slots
    <2> QED BY <2>2, <2>5, <2>6 DEF Abstract!Put
  <1> QED BY <1>1, <1>2

\* A step that pulls an event takes the first one out of the queue.
LEMMA PullImplements ==
    ASSUME TypeOK, TypeOK', CopyInv, NEW r \in Readers, ReadPull(r) \/ ReadFault(r)
    PROVE  Abstract!Get \/ Abstract!Lose
  <1>1. /\ events \in [Slots -> Events] /\ head \in Slots /\ tail \in Slots
        /\ head # tail /\ item[r] = events[tail]
    BY DEF TypeOK, Slots, CopyInv, Pending, ReadPull, ReadFault
  <1>2. /\ events' = events /\ head' = head /\ tail' = After(tail)
        /\ delivered' \in {delivered, Append(delivered, item[r])}
    BY DEF ReadPull, ReadFault
  <1>3. Queue = QueueOf(events, head, tail) /\ Queue' = QueueOf(events, head,
      After(tail))
    BY <1>2, QueueIs, QueueAfter
  <1>4. Queue # <<>> /\ Head(Queue) = item[r] /\ Queue' = Tail(Queue)
    BY <1>1, <1>3, PullQueue
  <1> QED BY <1>2, <1>4 DEF Abstract!Get, Abstract!Lose

\* Every step of the ring is a step of the queue, or leaves the queue alone.
LEMMA StepImplements ==
    ASSUME IInv, IInv', [Next]_vars
    PROVE  [Abstract!Next]_(Abstract!vars)
  <1> USE DEF IInv
  <1>1. CASE Sample \/ Release
    <2>1. PICK kind \in {"pen", "release"} : EvtAdd(kind) /\ made < MaxEvents
      BY <1>1 DEF Sample, Release
    <2> QED BY <2>1, AddImplements DEF Abstract!Next
  <1>2. CASE ThreadExit
    <2>1. Queue' = <<>>
      <3>1. head' = 0 /\ tail' = 0 /\ 0 \in Slots /\ TypeOK'
        BY <1>2, NrEventsAssumption DEF ThreadExit, Slots
      <3>2. Queue' = QueueOf(events', 0, 0) /\ RingLen(0, 0) = 0
        BY <3>1, QueueAfter DEF RingLen
      <3> QED BY <3>2 DEF QueueOf
    <2> QED BY <1>2, <2>1 DEF ThreadExit, Abstract!Next, Abstract!Clear
  <1>3. ASSUME NEW r \in Readers, ReadPull(r) \/ ReadFault(r)
        PROVE  [Abstract!Next]_(Abstract!vars)
    BY <1>3, PullImplements DEF Abstract!Next
  <1>4. CASE UNCHANGED <<head, tail, events, delivered>>
    BY <1>4 DEF Abstract!vars, Queue
  <1>5. ASSUME NEW r \in Readers, Reader(r), ~ReadPull(r), ~ReadFault(r)
        PROVE  UNCHANGED <<head, tail, events, delivered>>
    BY <1>5 DEF Reader, Loop, Read, ReadEnd, ReadSignal, ReadCopy, ReadSleep, ReadAgain,
                Poll, PollEnd, ringVars
  <1>6. CASE UNCHANGED vars
    BY <1>4, <1>6 DEF vars, ringVars
  <1> QED BY <1>1, <1>2, <1>3, <1>4, <1>5, <1>6 DEF Next

\* The touchscreen's ring is a bounded queue: every event that is accepted is
\* handed out once and in order, or lost in a buffer that cannot be written to.
THEOREM RingImplementsQueue == ASSUME OneCopies PROVE Spec => ImplementsQueue
  <1>1. Init => Abstract!Init
    <2> SUFFICES ASSUME Init PROVE Abstract!Init
      OBVIOUS
    <2>1. TypeOK /\ head = 0 /\ tail = 0 /\ delivered = <<>>
      BY InitIInv DEF Init, IInv
    <2>2. Queue = QueueOf(events, 0, 0) /\ RingLen(0, 0) = 0
      BY <2>1, QueueIs DEF RingLen
    <2>3. Queue = <<>>
      BY <2>2 DEF QueueOf
    <2> QED BY <2>1, <2>3 DEF Abstract!Init
  <1>2. IInv /\ IInv' /\ [Next]_vars => [Abstract!Next]_(Abstract!vars)
    BY StepImplements
  <1> QED BY <1>1, <1>2, IInvAlways, PTL DEF Spec, ImplementsQueue, Abstract!Spec
=============================================================================
