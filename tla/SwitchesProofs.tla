---------------------------- MODULE SwitchesProofs ----------------------------
(***************************************************************************)
(* Proofs about Switches, for any switches, any number of readers and of   *)
(* descriptors: the type invariant, who may miss a wake-up, that the list  *)
(* stays whole as long as no list_add_tail() interrupts another one and no *)
(* two readers are at one event, and that the events of a switch then      *)
(* alternate and lead to how it stands.                                    *)
(*                                                                         *)
(* The properties follow the pointers of the list; the proofs are about    *)
(* the sequence w of its descriptors.  While the codec's handler is        *)
(* between two of its stores, w is the list as it will be after the last   *)
(* one (NextDone, PrevDone).                                               *)
(***************************************************************************)
EXTENDS Switches, SequenceTheorems, FiniteSetTheorems, WellFoundedInduction, TLAPS

\* A reader who has seen the list empty, and has been told of nothing since, is
\* right; the others have an event to thank for it.
WakeInv ==
    /\ ~shared => \A r \in Readers :
                      \/ rpc[r] \in {"window", "asleep"} /\ r \notin raced
                      \/ rpc[r] = "pollsleep"
                      => ListEmpty
    /\ \A r \in raced : rpc[r] \in {"window", "asleep"}

\* The codec's handler adds a descriptor.
Adding == hpc \in {"loaded", "stored", "linked"}

\* As long as no two readers have been at one event, one at most is asleep in
\* copy_to_user(), and the list is not empty meanwhile: a handler takes nothing away.
CopyInv ==
    /\ ~shared => \A r \in Readers : rpc[r] = "copy" =>
                      ~ListEmpty /\ \A o \in Readers : rpc[o] = "copy" => o = r
    /\ Adding => new \in Cells

\* The pointers as the handler will leave them.
NextDone ==
    CASE hpc \in {"loaded", "stored"} -> [next EXCEPT ![new] = Anchor, ![before] = new]
      [] hpc = "linked"               -> [next EXCEPT ![before] = new]
      [] OTHER                        -> next
PrevDone ==
    CASE hpc = "loaded" -> [prev EXCEPT ![Anchor] = new, ![new] = before]
      [] hpc = "stored" -> [prev EXCEPT ![new] = before]
      [] OTHER          -> prev

\* The i-th node of the list of the descriptors w; the anchor is at both ends.
At(w, i) == IF i \in 1..Len(w) THEN w[i] ELSE Anchor

\* The pointers n and p form the list w.
Ring(w, n, p) ==
    \A i \in 0..Len(w) : n[At(w, i)] = At(w, i + 1) /\ p[At(w, i + 1)] = At(w, i)

Distinct(w) == \A i, j \in 1..Len(w) : w[i] = w[j] => i = j

\* The list w holds the descriptors in use, once each.
Linked(w) ==
    /\ Distinct(w) /\ \A c : c \in used <=> \E i \in 1..Len(w) : c = w[i]
    /\ Ring(w, NextDone, PrevDone)

\* The events of the list w, and what they tell.
Events(w) == [i \in 1..Len(w) |-> act[w[i]]]
Telling(w) ==
    /\ \A i \in 1..Len(w) :
        /\ act[w[i]].sw \in Switches
        /\ ~act[w[i]].gap /\ Informed(unread, Events(w), act[w[i]].sw, i - 1)
              => act[w[i]].on # Told(known, Events(w), act[w[i]].sw, i - 1)
    /\ \A s \in Switches \ lost : Informed(unread, Events(w), s, Len(w))
                                     => Told(known, Events(w), s, Len(w)) = states[s]

\* The list is whole, unless a list_add_tail() was interrupted by another one or two
\* readers were at one event; ...
ListInv == Undisturbed => \E w \in Seq(Cells) : Linked(w) /\ Telling(w)

\* ... and a reader asleep in copy_to_user() still has the first event in hand.
EvInv == Undisturbed => \A r \in Readers : rpc[r] = "copy" => ev[r] = NextDone[Anchor]

\* The handler adds a descriptor in use behind another one.
AddInv ==
    /\ Adding => new \in used
    /\ Adding /\ Undisturbed => before # new /\ before \in used \cup {Anchor}

\* The driver knows every switch of which it has not to hear yet.
StatesInv ==
    /\ hpc = "none" => isr = {}
    /\ \A s \in Watched \ (latched \cup isr \cup stale) : states[s] = pins[s]

IInv == TypeOK /\ WakeInv /\ CopyInv /\ ListInv /\ EvInv /\ AddInv /\ StatesInv
-----------------------------------------------------------------------------
(* Types.                                                                  *)

\* The anchor is a list head that is no descriptor.
LEMMA AnchorNode == Anchor \in Nodes /\ Cells \subseteq Nodes /\ Anchor \notin Cells
  BY AnchorAssumption DEF Nodes

\* The parts of the handlers' steps.
LEMMA RememberType ==
    ASSUME TypeOK, NEW s \in Switches, Remember(s)
    PROVE  states' \in [Switches -> BOOLEAN] /\ stale' \subseteq Switches
  <1>1. pins[s] \in BOOLEAN
    BY DEF TypeOK
  <1>2. states' \in [Switches -> BOOLEAN]
    BY <1>1, Zenon DEF TypeOK, Remember
  <1> QED BY <1>2 DEF TypeOK, Remember

\* A descriptor that is filled in.
LEMMA ActionType ==
    ASSUME TypeOK, NEW s \in Switches
    PROVE  Action(s) \in Actions
  <1>1. pins[s] \in BOOLEAN /\ (s \in lost) \in BOOLEAN
    BY DEF TypeOK
  <1> QED BY <1>1, Zenon DEF Action, Actions

\* kmalloc() and what is put into its memory.
LEMMA AllocateType ==
    ASSUME TypeOK, NEW s \in Switches, NEW c \in Cells, Allocate(s, c)
    PROVE  act' \in [Cells -> Actions] /\ used' \subseteq Cells /\ lost' \subseteq Switches
  BY ActionType DEF TypeOK, Allocate

Places == {"idle", "loop", "window", "asleep", "copy", "polling", "pollsleep"}

\* wake_up_interruptible().
LEMMA WakesType ==
    ASSUME TypeOK, Wakes
    PROVE  /\ rpc' \in [Readers -> Places] /\ raced' \subseteq Readers
           /\ \A r \in Readers : rpc'[r] = "copy" <=> rpc[r] = "copy"
  BY DEF TypeOK, Wakes, WakeUp, Places

\* The history of interrupted additions.
LEMMA NestedType ==
    ASSUME TypeOK, nested' = (nested \/ Harmful)
    PROVE  nested' \in BOOLEAN
  BY Zenon

\* switches_sa1100_handler() and switches_ucb1x00_handler().
LEMMA HandlerType ==
    ASSUME TypeOK, UcbIrq \/ UcbStep \/ \E s \in SaSwitches : SaEvent(s)
    PROVE  TypeOK'
  <1>1. ASSUME NEW s \in SaSwitches, SaEvent(s) PROVE TypeOK'
    <2>0. s \in Switches /\ Remember(s)
      BY <1>1 DEF Switches, SaEvent
    <2>1. states' \in [Switches -> BOOLEAN] /\ stale' \subseteq Switches
      BY <2>0, RememberType
    <2>2. nested' \in BOOLEAN
      BY <1>1, NestedType DEF SaEvent, TypeOK
    <2> DEFINE ListOK ==
          /\ next' \in [Nodes -> Nodes] /\ prev' \in [Nodes -> Nodes]
          /\ act' \in [Cells -> Actions] /\ used' \subseteq Cells /\ lost' \subseteq Switches
          /\ rpc' \in [Readers -> Places] /\ raced' \subseteq Readers
          /\ \A r \in Readers : rpc'[r] = "copy" <=> rpc[r] = "copy"
    <2>3. ListOK
      <3>1. CASE UNCHANGED <<listVars, rpc, raced>> /\ (lost' = lost \/ Dropped(s))
        BY <2>0, <3>1 DEF TypeOK, listVars, Dropped, Places
      <3>2. ASSUME Wakes, NEW c \in Cells \ used, Allocate(s, c), AddTail(c)
            PROVE  ListOK
        <4>1. next' \in [Nodes -> Nodes] /\ prev' \in [Nodes -> Nodes]
          BY <3>2, AnchorNode DEF TypeOK, AddTail
        <4> QED BY <2>0, <3>2, <4>1, WakesType, AllocateType
      <3> HIDE DEF ListOK
      <3> QED BY <1>1, <3>1, <3>2 DEF SaEvent
    <2>4. /\ UNCHANGED <<pins, edges, users, hpc, isr, new, before, power, sleeps, ev,
                          faults, known, unread, shared>>
          /\ latched' \subseteq Switches
      BY <1>1 DEF SaEvent, ucbVars, sysVars, readVars, TypeOK
    <2> QED BY <2>1, <2>2, <2>3, <2>4 DEF TypeOK, Places
  <1>2. CASE UcbIrq
    BY <1>2 DEF TypeOK, UcbIrq, listVars, sysVars, readVars, Switches
  <1>3. CASE UcbServe
    <2>1. PICK s \in isr : /\ isr' = isr \ {s} /\ Remember(s)
                           /\ \/ UNCHANGED <<act, used, hpc, new, before>>
                                 /\ (lost' = lost \/ Dropped(s))
                              \/ /\ \E c \in Cells \ used : Allocate(s, c) /\ new' = c
                                 /\ before' = prev[Anchor] /\ hpc' = "loaded"
      BY <1>3 DEF UcbServe
    <2>2. s \in Switches
      BY <2>1 DEF TypeOK, Switches
    <2>3. states' \in [Switches -> BOOLEAN] /\ stale' \subseteq Switches
      BY <2>1, <2>2, RememberType
    <2>4. /\ act' \in [Cells -> Actions] /\ used' \subseteq Cells /\ lost' \subseteq Switches
          /\ new' \in Nodes /\ before' \in Nodes
          /\ hpc' \in {"none", "serve", "loaded", "stored", "linked"}
      <3>1. CASE UNCHANGED <<act, used, hpc, new, before>> /\ (lost' = lost \/ Dropped(s))
        BY <2>2, <3>1 DEF TypeOK, Dropped
      <3>2. CASE /\ \E c \in Cells \ used : Allocate(s, c) /\ new' = c
                 /\ before' = prev[Anchor] /\ hpc' = "loaded"
        BY <2>2, <3>2, AllocateType, AnchorNode DEF TypeOK
      <3> QED BY <2>1, <3>1, <3>2
    <2>5. UNCHANGED <<pins, latched, edges, users, next, prev, rpc, power, sleeps, ev,
                      faults, known, unread, shared, raced, nested>>
      BY <1>3 DEF UcbServe, pinVars, sysVars, readVars
    <2> QED BY <2>1, <2>3, <2>4, <2>5 DEF TypeOK
  <1>4. CASE UcbStore
    BY <1>4, AnchorNode DEF TypeOK, UcbStore, pinVars, sysVars, readVars
  <1>5. CASE UcbStoreNew
    BY <1>5, AnchorNode DEF TypeOK, UcbStoreNew, pinVars, sysVars, readVars
  <1>6. CASE UcbLink
    <2>1. /\ rpc' \in [Readers -> Places] /\ raced' \subseteq Readers
          /\ \A r \in Readers : rpc'[r] = "copy" <=> rpc[r] = "copy"
      BY <1>6, WakesType DEF UcbLink
    <2> QED BY <1>6, <2>1, AnchorNode DEF TypeOK, UcbLink, pinVars, sysVars, readVars, Places
  <1>7. CASE UcbEnd
    BY <1>7 DEF TypeOK, UcbEnd, pinVars, sysVars, readVars, listVars
  <1> QED BY <1>1, <1>2, <1>3, <1>4, <1>5, <1>6, <1>7 DEF UcbStep

\* The end of a read, delivered or not.
LEMMA FinishType ==
    ASSUME TypeOK, NEW c \in Cells, Finish(c)
    PROVE  /\ known' \in [Switches -> BOOLEAN] /\ unread' \subseteq Switches \cup {0}
           /\ next' \in [Nodes -> Nodes] /\ prev' \in [Nodes -> Nodes]
           /\ used' \subseteq Cells /\ act' \in [Cells -> Actions]
  <1>1. act[c] \in Actions
    BY DEF TypeOK
  <1>2. act[c].on \in BOOLEAN /\ act[c].sw \in Switches \cup {0}
    BY <1>1 DEF Actions
  <1>3. known' \in [Switches -> BOOLEAN]
    <2>1. CASE known' = known
      BY <2>1 DEF TypeOK
    <2>2. CASE known' = [s \in Switches |-> IF s = act[c].sw THEN act[c].on ELSE known[s]]
      <3>1. \A s \in Switches : known[s] \in BOOLEAN
        BY DEF TypeOK
      <3> QED BY <1>2, <2>2, <3>1, Zenon
    <2> QED BY <2>1, <2>2 DEF Finish
  <1>4. unread' \subseteq Switches \cup {0}
    BY <1>2 DEF Finish, TypeOK
  <1>5. NoAction \in Actions
    BY DEF NoAction, Actions
  <1>6. next' \in [Nodes -> Nodes] /\ prev' \in [Nodes -> Nodes]
    BY AnchorNode DEF TypeOK, Finish, Del
  <1>7. used' \subseteq Cells /\ act' \in [Cells -> Actions]
    BY <1>5 DEF TypeOK, Finish
  <1> QED BY <1>3, <1>4, <1>6, <1>7

\* The history of readers at one event.
LEMMA SharesType ==
    ASSUME NEW r \in Readers, Shares(r)
    PROVE  shared' \in BOOLEAN
  BY Zenon DEF Shares

\* The device, and the system.
LEMMA DeviceType ==
    ASSUME TypeOK, \/ Open \/ Release \/ Suspend \/ Wake \/ Resume
                   \/ \E r \in Readers : Reader(r)
                   \/ \E s \in Switches : Move(s)
    PROVE  TypeOK'
  <1> USE DEF pinVars, sysVars, listVars, ucbVars, readVars
  <1>1. CASE Open \/ Release
    BY <1>1 DEF TypeOK, Open, Release, QuietDevice
  <1>2. CASE Suspend
    BY <1>2, LimitsAssumption DEF TypeOK, Suspend
  <1>3. CASE Wake \/ Resume
    BY <1>3 DEF TypeOK, Wake, Resume, Overlooked, Switches
  <1>4. ASSUME NEW s \in Switches, Move(s) PROVE TypeOK'
    <2>1. pins' \in [Switches -> BOOLEAN]
      BY <1>4, Zenon DEF TypeOK, Move
    <2> QED BY <1>4, <2>1, LimitsAssumption DEF TypeOK, Move
  <1>5. ASSUME NEW r \in Readers, Reader(r) PROVE TypeOK'
    <2>1. CASE ReadTake(r)
      <3>1. next[Anchor] \in Cells
        BY <2>1 DEF TypeOK, ReadTake, ListEmpty, Nodes
      <3>2. Finish(next[Anchor]) /\ Shares(r)
        BY <2>1 DEF ReadTake
      <3>3. shared' \in BOOLEAN
        BY <3>2, SharesType
      <3>4. /\ rpc' \in [Readers -> Places]
            /\ \A o \in Readers : rpc'[o] = "copy" => rpc[o] = "copy"
        BY <2>1 DEF TypeOK, ReadTake, Goes, Places
      <3>5. UNCHANGED <<pins, latched, edges, states, users, hpc, isr, new, before, power,
                        sleeps, ev, faults, lost, stale, raced, nested>>
        BY <2>1 DEF ReadTake
      <3> QED BY <3>1, <3>2, <3>3, <3>4, <3>5, FinishType DEF TypeOK, Places
    <2>2. CASE ReadCopied(r)
      <3>1. ev[r] \in Cells /\ Finish(ev[r])
        BY <2>2 DEF TypeOK, ReadCopied, Goes
      <3>2. /\ rpc' \in [Readers -> Places] /\ ev' \in [Readers -> Nodes]
            /\ \A o \in Readers : rpc'[o] = "copy" => ev'[o] \in Cells
        BY <2>2, AnchorNode DEF TypeOK, ReadCopied, Goes, Places
      <3>3. UNCHANGED <<pins, latched, edges, states, users, hpc, isr, new, before, power,
                        sleeps, faults, shared, lost, stale, raced, nested>>
        BY <2>2 DEF ReadCopied
      <3> QED BY <3>1, <3>2, <3>3, FinishType DEF TypeOK, Places
    <2>3. CASE ReadFault(r)
      <3>1. next[Anchor] \in Cells /\ Shares(r)
        BY <2>3 DEF TypeOK, ReadFault, ListEmpty, Nodes
      <3>2. shared' \in BOOLEAN
        BY <3>1, SharesType
      <3>3. /\ rpc' \in [Readers -> Places] /\ ev' \in [Readers -> Nodes]
            /\ \A o \in Readers : rpc'[o] = "copy" => ev'[o] \in Cells
        BY <2>3, <3>1, AnchorNode DEF TypeOK, ReadFault, Goes, Places
      <3>4. /\ UNCHANGED <<pins, latched, edges, states, users, next, prev, act, used, hpc,
                           isr, new, before, power, sleeps, known, unread, lost, stale,
                           raced, nested>>
            /\ faults' \in 0..MaxFaults
        BY <2>3, LimitsAssumption DEF ReadFault, QuietDevice, TypeOK
      <3> QED BY <3>2, <3>3, <3>4 DEF TypeOK, Places
    <2>4. CASE ~ReadTake(r) /\ ~ReadCopied(r) /\ ~ReadFault(r)
      BY <1>5, <2>4 DEF TypeOK, Reader, Read, ReadEmpty, ReadError, ReadSleep, ReadSignal,
         Poll, PollTest, PollEnd, Goes, QuietDevice
    <2> QED BY <2>1, <2>2, <2>3, <2>4
  <1> QED BY <1>1, <1>2, <1>3, <1>4, <1>5

\* switches_init().
LEMMA InitType == Init => TypeOK
  <1> SUFFICES ASSUME Init PROVE TypeOK
    OBVIOUS
  <1>1. states \in [Switches -> BOOLEAN] /\ known \in [Switches -> BOOLEAN]
        /\ nested \in BOOLEAN /\ shared \in BOOLEAN /\ pins \in [Switches -> BOOLEAN]
    BY Zenon DEF Init
  <1>2. NoAction \in Actions
    BY DEF NoAction, Actions
  <1> QED BY <1>1, <1>2, AnchorNode, LimitsAssumption DEF Init, TypeOK

\* Every step.
LEMMA NextType == TypeOK /\ [Next]_vars => TypeOK'
  <1>1. ASSUME TypeOK, Next PROVE TypeOK'
    BY <1>1, HandlerType, DeviceType DEF Next
  <1>2. ASSUME TypeOK, UNCHANGED vars PROVE TypeOK'
    BY <1>2 DEF vars, pinVars, listVars, ucbVars, sysVars, readVars, TypeOK
  <1> QED BY <1>1, <1>2

\* The variables of the driver stay within their types: switches_users never
\* exceeds one, and the pointers always lead to a descriptor or the anchor.
THEOREM TypeCorrect == Spec => []TypeOK
  BY InitType, NextType, PTL DEF Spec
-----------------------------------------------------------------------------
(* Wake-ups.                                                               *)

\* wake_up_interruptible() leaves nobody asleep, whatever it finds in the list.
LEMMA WakesAll ==
    ASSUME TypeOK, WakeInv, Wakes
    PROVE  WakeInv'
  <1>1. \A r \in Readers : rpc'[r] = CASE rpc[r] = "asleep"    -> "loop"
                                       [] rpc[r] = "pollsleep" -> "polling"
                                       [] OTHER                -> rpc[r]
    BY DEF Wakes, WakeUp
  <1>2. raced' = (raced \ {r \in Readers : rpc[r] = "asleep"})
                     \cup {r \in Readers : rpc[r] = "window"}
    BY DEF Wakes
  <1>3. raced \subseteq Readers
    BY DEF TypeOK
  <1>4. \A r \in Readers : /\ rpc'[r] \notin {"asleep", "pollsleep"}
                           /\ rpc'[r] = "window" => r \in raced'
    BY <1>1, <1>2
  <1>5. \A r \in raced' : rpc'[r] \in {"window", "asleep"}
    BY <1>1, <1>2, <1>3 DEF WakeInv
  <1> QED BY <1>4, <1>5 DEF WakeInv

\* Steps that move no reader, and put nothing into an empty list.
LEMMA SameWake ==
    ASSUME WakeInv, UNCHANGED <<rpc, raced, shared>>, ListEmpty => ListEmpty'
    PROVE  WakeInv'
  BY DEF WakeInv

\* Steps that take nothing from the list, and nobody into copy_to_user().
LEMMA SameCopy ==
    ASSUME CopyInv, shared' = shared, ListEmpty' => ListEmpty, Adding' => new' \in Cells,
           \A r \in Readers : rpc'[r] = "copy" => rpc[r] = "copy"
    PROVE  CopyInv'
  BY DEF CopyInv

\* What a step of a reader that neither copies nor takes an event does to him.
LEMMA ReaderGoes ==
    ASSUME TypeOK, NEW r \in Readers, Reader(r), ~ReadTake(r), ~ReadFault(r), ~ReadCopied(r)
    PROVE  /\ UNCHANGED <<listVars, ucbVars, readVars>>
           /\ \A o \in Readers : o # r => rpc'[o] = rpc[o]
           /\ \/ rpc'[r] = "window" /\ rpc[r] = "loop" /\ ListEmpty /\ raced' = raced
              \/ rpc'[r] = "asleep" /\ rpc[r] = "window" /\ raced' = raced
              \/ rpc'[r] = "pollsleep" /\ rpc[r] = "polling" /\ ListEmpty /\ raced' = raced
              \/ rpc'[r] \in {"loop", "polling"} /\ rpc[r] = "idle" /\ raced' = raced
              \/ /\ rpc'[r] = "idle" /\ rpc[r] \in {"loop", "polling", "pollsleep"}
                 /\ raced' = raced
              \/ rpc'[r] = "idle" /\ raced' = raced \ {r}
  <1>1. UNCHANGED <<listVars, ucbVars, readVars>>
    BY DEF Reader, Read, ReadEmpty, ReadError, ReadSleep, ReadSignal, Poll, PollTest,
       PollEnd, QuietDevice
  <1> QED BY <1>1 DEF Reader, Read, ReadEmpty, ReadError, ReadSleep, ReadSignal, Poll,
             PollTest, PollEnd, Goes, TypeOK

\* Steps of a reader that leave the list as it is.
LEMMA ReaderWake ==
    ASSUME TypeOK, WakeInv, CopyInv, NEW r \in Readers, Reader(r),
           ~ReadTake(r), ~ReadFault(r), ~ReadCopied(r)
    PROVE  WakeInv' /\ CopyInv'
  <1>1. /\ next' = next /\ shared' = shared /\ hpc' = hpc /\ new' = new
        /\ \A o \in Readers : o # r => rpc'[o] = rpc[o]
    BY ReaderGoes DEF listVars, ucbVars, readVars
  <1>2. raced \subseteq Readers
    BY DEF TypeOK
  <1>3. WakeInv'
    BY <1>1, <1>2, ReaderGoes DEF WakeInv, ListEmpty
  <1>4. \A o \in Readers : rpc'[o] = "copy" => rpc[o] = "copy"
    BY <1>1, ReaderGoes
  <1>5. CopyInv'
    BY <1>1, <1>4, SameCopy DEF ListEmpty, Adding, CopyInv
  <1> QED BY <1>3, <1>5

\* Whether two readers are at one event.
LEMMA SharesOther ==
    ASSUME NEW r \in Readers, Shares(r), ~shared'
    PROVE  ~shared /\ \A o \in Readers : rpc[o] = "copy" => o = r
  BY DEF Shares

\* A reader that copies or takes an event: nobody else was sure that there is none.
LEMMA TakeWake ==
    ASSUME TypeOK, WakeInv, CopyInv, NEW r \in Readers,
           ReadTake(r) \/ ReadFault(r) \/ ReadCopied(r)
    PROVE  WakeInv' /\ CopyInv'
  <1>1. /\ rpc[r] \in {"loop", "copy"} /\ rpc'[r] \in {"idle", "copy"} /\ raced' = raced
        /\ \A o \in Readers : o # r => rpc'[o] = rpc[o]
        /\ hpc' = hpc /\ hpc = "none"
    BY DEF ReadTake, ReadFault, ReadCopied, Goes, TypeOK, ProcessRuns, QuietDevice, ucbVars
  <1>2. raced \subseteq Readers
    BY DEF TypeOK
  <1>3. \A o \in raced' : rpc'[o] \in {"window", "asleep"}
    BY <1>1, <1>2 DEF WakeInv
  <1>4. ASSUME ~shared'
        PROVE  ~shared /\ ~ListEmpty /\ \A o \in Readers : rpc[o] = "copy" => o = r
    <2>1. CASE ReadTake(r) \/ ReadFault(r)
      BY <1>4, <2>1, SharesOther DEF ReadTake, ReadFault
    <2>2. CASE ReadCopied(r)
      BY <1>4, <2>2 DEF ReadCopied, Goes, CopyInv
    <2> QED BY <2>1, <2>2
  <1>5. WakeInv'
    BY <1>1, <1>3, <1>4 DEF WakeInv
  <1>6. rpc'[r] = "copy" => next' = next
    BY DEF ReadTake, ReadFault, ReadCopied, Goes, QuietDevice, listVars, TypeOK
  <1>7. CopyInv'
    BY <1>1, <1>4, <1>6 DEF CopyInv, ListEmpty, Adding
  <1> QED BY <1>5, <1>7

\* Every step.
LEMMA NextWake == TypeOK /\ WakeInv /\ CopyInv /\ [Next]_vars => WakeInv' /\ CopyInv'
  <1> SUFFICES ASSUME TypeOK, WakeInv, CopyInv, [Next]_vars PROVE WakeInv' /\ CopyInv'
    OBVIOUS
  <1> USE DEF pinVars, sysVars, listVars, ucbVars, readVars
  <1>1. ASSUME NEW s \in SaSwitches, SaEvent(s) PROVE WakeInv' /\ CopyInv'
    <2>0. shared' = shared /\ hpc' = hpc /\ new' = new
      BY <1>1 DEF SaEvent
    <2>1. ASSUME Wakes, NEW c \in Cells, AddTail(c) PROVE WakeInv' /\ CopyInv'
      <3>1. ListEmpty' => ListEmpty
        BY <2>1, AnchorNode DEF AddTail, ListEmpty, TypeOK
      <3>2. \A r \in Readers : rpc'[r] = "copy" => rpc[r] = "copy"
        BY <2>1, WakesType
      <3>3. CopyInv'
        BY <2>0, <3>1, <3>2, SameCopy DEF CopyInv, Adding
      <3> QED BY <2>1, <3>3, WakesAll
    <2>2. CASE UNCHANGED <<listVars, rpc, raced>>
      BY <2>0, <2>2, SameWake, SameCopy DEF ListEmpty, CopyInv, Adding
    <2> QED BY <1>1, <2>1, <2>2 DEF SaEvent
  <1>2. CASE UcbIrq \/ UcbServe \/ UcbStore \/ UcbEnd
    <2>1. UNCHANGED <<next, rpc, raced, shared>> /\ (Adding' => new' \in Cells)
      BY <1>2 DEF UcbIrq, UcbServe, UcbStore, UcbEnd, Adding, CopyInv
    <2> QED BY <2>1, SameWake, SameCopy DEF ListEmpty
  <1>3. CASE UcbStoreNew
    <2>1. new \in Cells
      BY <1>3 DEF UcbStoreNew, CopyInv, Adding
    <2>2. ListEmpty' <=> ListEmpty
      BY <1>3, <2>1, AnchorNode DEF UcbStoreNew, ListEmpty, TypeOK
    <2> QED BY <1>3, <2>1, <2>2, SameWake, SameCopy DEF UcbStoreNew
  <1>4. CASE UcbLink
    <2>1. new \in Cells
      BY <1>4 DEF UcbLink, CopyInv, Adding
    <2>2. ListEmpty' => ListEmpty
      BY <1>4, <2>1, AnchorNode DEF UcbLink, ListEmpty, TypeOK
    <2>3. /\ shared' = shared /\ ~Adding' /\ Wakes
          /\ \A r \in Readers : rpc'[r] = "copy" => rpc[r] = "copy"
      BY <1>4, WakesType DEF UcbLink, Adding
    <2> QED BY <2>2, <2>3, WakesAll, SameCopy
  <1>5. CASE Open \/ Release \/ Suspend \/ Wake \/ Resume \/ (\E s \in Switches : Move(s))
    <2>1. UNCHANGED <<next, rpc, raced, shared, hpc, new>>
      BY <1>5 DEF Open, Release, Suspend, Wake, Resume, Move, QuietDevice
    <2> QED BY <2>1, SameWake, SameCopy DEF ListEmpty, Adding, CopyInv
  <1>6. CASE \E r \in Readers : Reader(r)
    BY <1>6, ReaderWake, TakeWake
  <1>7. CASE UNCHANGED vars
    BY <1>7, SameWake, SameCopy DEF vars, ListEmpty, Adding, CopyInv
  <1> QED BY <1>1, <1>2, <1>3, <1>4, <1>5, <1>6, <1>7 DEF Next, UcbStep

\* At first nobody reads.
LEMMA InitWake == Init => WakeInv /\ CopyInv
  BY DEF Init, WakeInv, CopyInv, Adding

\* However the handlers interrupt one another and the readers, a reader asleep
\* beside an event came to sleep after it, and poll() never sleeps beside one, as long
\* as no two readers have been at one event.
THEOREM StrandedAlwaysByRace == Spec => []StrandedOnlyByRace
  <1>1. Spec => [](WakeInv /\ CopyInv)
    BY InitWake, NextWake, TypeCorrect, PTL DEF Spec
  <1>2. WakeInv => StrandedOnlyByRace
    BY DEF WakeInv, StrandedOnlyByRace
  <1> QED BY <1>1, <1>2, PTL
-----------------------------------------------------------------------------
(* Lists.                                                                  *)

\* Every place of a list is a node.
LEMMA AtNode ==
    ASSUME NEW w \in Seq(Cells), NEW i
    PROVE  At(w, i) \in Nodes
  BY AnchorNode DEF At

\* The anchor is met once, and so is every descriptor.
LEMMA AtDistinct ==
    ASSUME NEW w \in Seq(Cells), Distinct(w),
           NEW i \in 0..Len(w), NEW j \in 0..Len(w), At(w, i) = At(w, j)
    PROVE  i = j
  <1>1. \A k \in 1..Len(w) : w[k] # Anchor
    BY AnchorNode
  <1> QED BY <1>1 DEF At, Distinct

\* The places of a list with one descriptor more, ...
LEMMA AtAppend ==
    ASSUME NEW w \in Seq(Cells), NEW c \in Cells
    PROVE  /\ Append(w, c) \in Seq(Cells) /\ Len(Append(w, c)) = Len(w) + 1
           /\ \A i \in 0..Len(w) : At(Append(w, c), i) = At(w, i)
           /\ At(Append(w, c), Len(w) + 1) = c
           /\ At(Append(w, c), (Len(w) + 1) + 1) = Anchor
  <1>1. /\ Append(w, c) \in Seq(Cells) /\ Len(Append(w, c)) = Len(w) + 1
        /\ \A i \in 1..Len(w) : Append(w, c)[i] = w[i]
        /\ Append(w, c)[Len(w) + 1] = c
    BY AppendProperties
  <1>2. Len(w) \in Nat
    OBVIOUS
  <1> DEFINE v == Append(w, c)
  <1> HIDE DEF v
  <1>3. /\ \A i \in 0..Len(w) : At(v, i) = At(w, i)
        /\ At(v, Len(w) + 1) = c /\ At(v, (Len(w) + 1) + 1) = Anchor
    BY <1>1, <1>2 DEF At, v
  <1> QED BY <1>1, <1>3 DEF v

\* ... and with one less.
LEMMA AtTail ==
    ASSUME NEW w \in Seq(Cells), w # << >>
    PROVE  /\ Tail(w) \in Seq(Cells) /\ Len(Tail(w)) = Len(w) - 1 /\ Len(w) \in Nat \ {0}
           /\ \A i \in 1..(Len(w) - 1) : Tail(w)[i] = w[i + 1]
           /\ \A i \in 1..Len(w) : At(Tail(w), i) = At(w, i + 1)
           /\ At(Tail(w), 0) = Anchor /\ At(w, 1) = w[1]
  <1>1. /\ Tail(w) \in Seq(Cells) /\ Len(Tail(w)) = Len(w) - 1
        /\ \A i \in 1..Len(Tail(w)) : Tail(w)[i] = w[i + 1]
    BY HeadTailProperties
  <1>2. Len(w) \in Nat \ {0}
    BY EmptySeq
  <1> DEFINE v == Tail(w)
  <1> HIDE DEF v
  <1>3. /\ \A i \in 1..Len(w) : At(v, i) = At(w, i + 1)
        /\ At(v, 0) = Anchor /\ At(w, 1) = w[1]
    BY <1>1, <1>2 DEF At, v
  <1> QED BY <1>1, <1>2, <1>3 DEF v

\* list_add_tail() adds the descriptor c at the end.
LEMMA RingAdd ==
    ASSUME NEW w \in Seq(Cells), Distinct(w), NEW n \in [Nodes -> Nodes],
           NEW p \in [Nodes -> Nodes], Ring(w, n, p), NEW c \in Cells,
           \A i \in 1..Len(w) : w[i] # c
    PROVE  /\ Distinct(Append(w, c))
           /\ Ring(Append(w, c), [n EXCEPT ![c] = Anchor, ![p[Anchor]] = c],
                                 [p EXCEPT ![Anchor] = c, ![c] = p[Anchor]])
  <1> DEFINE v  == Append(w, c)
             L  == Len(w)
             n1 == [n EXCEPT ![c] = Anchor, ![p[Anchor]] = c]
             p1 == [p EXCEPT ![Anchor] = c, ![c] = p[Anchor]]
  <1>1. /\ v \in Seq(Cells) /\ Len(v) = L + 1 /\ L \in Nat
        /\ \A i \in 0..L : At(v, i) = At(w, i)
        /\ At(v, L + 1) = c /\ At(v, (L + 1) + 1) = Anchor
    BY AtAppend
  <1>2. /\ \A i \in 1..L : v[i] = w[i]
        /\ v[L + 1] = c
    BY AppendProperties
  <1>3. c \in Nodes /\ Anchor \in Nodes /\ c # Anchor
    BY AnchorNode
  <1>4. At(w, L + 1) = Anchor /\ p[Anchor] = At(w, L)
    <2>1. At(w, L + 1) = Anchor
      BY DEF At
    <2>2. p[At(w, L + 1)] = At(w, L)
      BY DEF Ring
    <2> QED BY <2>1, <2>2
  <1>5. \A i \in 0..L : At(w, i) # c /\ At(w, i) \in Nodes
    BY <1>3, AtNode DEF At
  <1>6. \A i \in 0..L : i # L => At(w, i) # At(w, L)
    BY <1>1, AtDistinct
  <1>7. \A i \in 0..L : i # 0 => At(w, i) # Anchor
    <2>1. At(w, 0) = Anchor
      BY DEF At
    <2> QED BY <1>1, <2>1, AtDistinct
  <1>8. \A i \in 0..L : n[At(w, i)] = At(w, i + 1) /\ p[At(w, i + 1)] = At(w, i)
    BY DEF Ring
  <1> HIDE DEF v, L
  <1>9. Distinct(v)
    BY <1>1, <1>2 DEF Distinct, L
  <1>10. n1[c] = (IF p[Anchor] = c THEN c ELSE Anchor) /\ n1[At(w, L)] = c
         /\ \A i \in 0..L : i # L => n1[At(w, i)] = n[At(w, i)]
    BY <1>1, <1>3, <1>4, <1>5, <1>6
  <1>11. p1[c] = At(w, L) /\ p1[Anchor] = c
         /\ \A i \in 0..L : i # 0 => p1[At(w, i)] = p[At(w, i)]
    BY <1>1, <1>3, <1>4, <1>5, <1>7
  <1> HIDE DEF n1, p1
  <1>12. ASSUME NEW i \in 0..(L + 1)
         PROVE  n1[At(v, i)] = At(v, i + 1) /\ p1[At(v, i + 1)] = At(v, i)
    <2>1. CASE i = L + 1
      BY <1>1, <1>4, <1>5, <1>10, <1>11, <2>1
    <2>2. CASE i = L
      BY <1>1, <1>10, <1>11, <2>2
    <2>3. CASE i \in 0..(L - 1)
      <3>1. i \in 0..L /\ i + 1 \in 0..L /\ i # L /\ i + 1 # 0
        BY <1>1, <2>3
      <3> QED BY <1>1, <1>8, <1>10, <1>11, <3>1
    <2> QED BY <1>1, <2>1, <2>2, <2>3
  <1>13. Ring(v, n1, p1)
    BY <1>1, <1>12 DEF Ring
  <1> QED BY <1>9, <1>13 DEF v, n1, p1

\* list_del() of the first descriptor leaves the others.
LEMMA RingTake ==
    ASSUME NEW w \in Seq(Cells), Distinct(w), NEW n \in [Nodes -> Nodes],
           NEW p \in [Nodes -> Nodes], Ring(w, n, p), NEW c, c = n[Anchor], c # Anchor
    PROVE  /\ w # << >> /\ c = w[1] /\ Distinct(Tail(w))
           /\ Ring(Tail(w), [n EXCEPT ![p[c]] = n[c]], [p EXCEPT ![n[c]] = p[c]])
  <1>0. \A i \in 0..Len(w) : n[At(w, i)] = At(w, i + 1) /\ p[At(w, i + 1)] = At(w, i)
    BY DEF Ring
  <1>1. At(w, 0) = Anchor /\ At(w, 1) = c /\ p[c] = Anchor
    BY <1>0 DEF At
  <1>2. w # << >>
    BY <1>1, EmptySeq DEF At
  <1> DEFINE v  == Tail(w)
             L  == Len(w)
             n1 == [n EXCEPT ![p[c]] = n[c]]
             p1 == [p EXCEPT ![n[c]] = p[c]]
  <1>3. /\ v \in Seq(Cells) /\ Len(v) = L - 1 /\ L \in Nat \ {0}
        /\ \A i \in 1..(L - 1) : v[i] = w[i + 1]
        /\ \A i \in 1..L : At(v, i) = At(w, i + 1)
        /\ At(v, 0) = Anchor /\ At(w, 1) = w[1]
    BY <1>2, AtTail
  <1>4. n[c] = At(w, 2) /\ At(w, 2) \in Nodes /\ Anchor \in Nodes
    BY <1>0, <1>1, <1>3, AtNode, AnchorNode
  <1>5. n1[Anchor] = At(w, 2) /\ p1[At(w, 2)] = Anchor
    BY <1>1, <1>4
  <1>6. ASSUME NEW i \in 1..(L - 1)
        PROVE  n1[At(w, i + 1)] = At(w, i + 2) /\ p1[At(w, i + 2)] = At(w, i + 1)
    <2>1. /\ At(w, i + 1) # At(w, 0) /\ At(w, i + 1) \in Nodes /\ At(w, i + 2) \in Nodes
      BY <1>3, AtDistinct, AtNode
    <2>2. At(w, i + 2) # At(w, 2)
      <3>1. CASE i + 2 <= L
        BY <1>3, <3>1, AtDistinct
      <3>2. CASE i + 2 > L
        <4>1. At(w, i + 2) = Anchor
          BY <1>3, <3>2 DEF At
        <4>2. 2 \in 0..L /\ 0 \in 0..L
          BY <1>3
        <4> QED BY <1>1, <4>1, <4>2, AtDistinct
      <3> QED BY <1>3, <3>1, <3>2
    <2>3. n[At(w, i + 1)] = At(w, i + 2) /\ p[At(w, i + 2)] = At(w, i + 1)
      BY <1>0, <1>3
    <2> QED BY <1>1, <1>4, <2>1, <2>2, <2>3
  <1>7. Distinct(v)
    BY <1>3 DEF Distinct
  <1> HIDE DEF v, L, n1, p1
  <1>8. ASSUME NEW i \in 0..(L - 1)
        PROVE  n1[At(v, i)] = At(v, i + 1) /\ p1[At(v, i + 1)] = At(v, i)
    <2>1. CASE i = 0
      BY <1>3, <1>5, <2>1
    <2>2. CASE i # 0
      <3>1. i \in 1..(L - 1) /\ i \in 1..L /\ i + 1 \in 1..L /\ (i + 1) + 1 = i + 2
        BY <1>3, <2>2
      <3> QED BY <1>3, <1>6, <3>1
    <2> QED BY <2>1, <2>2
  <1>9. Ring(v, n1, p1)
    BY <1>3, <1>8 DEF Ring
  <1> QED BY <1>1, <1>2, <1>3, <1>7, <1>9 DEF v, n1, p1
\* The natural numbers are well-ordered: what the proofs by induction rest on.
LEMMA LeastNumber ==
    ASSUME NEW T \in SUBSET Nat, T # {}
    PROVE  \E x \in T : \A y \in T : x <= y
  <1> DEFINE R == OpToRel(<, Nat)
  <1>1. IsWellFoundedOn(R, Nat)
    BY NatLessThanWellFounded, Zenon
  <1>2. \A x, y \in Nat : y < x => <<y, x>> \in R
    BY DEF OpToRel
  <1> HIDE DEF R
  <1>3. PICK x \in T : \A y \in T : ~ (<<y, x>> \in R)
    BY <1>1, WFMin, Zenon
  <1>4. \A y \in T : ~(y < x)
    BY <1>2, <1>3, Zenon
  <1>5. \A y \in T : x <= y
    BY <1>4
  <1> QED BY <1>5

\* A list of distinct descriptors is not longer than there are descriptors.
LEMMA LenBound ==
    ASSUME NEW w \in Seq(Cells), Distinct(w)
    PROVE  /\ Len(w) <= Cardinality(Cells) /\ Cardinality(Cells) \in Nat
           /\ Cardinality(1..Len(w)) = Len(w)
  <1>0. IsFiniteSet(Cells)
    BY SwitchesAssumption
  <1>1. Cardinality(Cells) \in Nat
    BY <1>0, FS_CardinalityType
  <1> DEFINE D == 1..Len(w)
  <1>2. IsFiniteSet(D) /\ Cardinality(D) = Len(w)
    <2>1. Len(w) \in Nat /\ 1 \in Int /\ Len(w) \in Int
      OBVIOUS
    <2>2. /\ IsFiniteSet(1..Len(w))
          /\ Cardinality(1..Len(w)) = IF 1 > Len(w) THEN 0 ELSE Len(w) - 1 + 1
      BY <2>1, FS_Interval, Zenon
    <2> QED BY <2>1, <2>2
  <1>3. w \in [D -> Cells]
    OBVIOUS
  <1>4. w \in Injection(D, Cells)
    BY <1>3 DEF Distinct, Injection, IsInjective
  <1>5. Cardinality(D) <= Cardinality(Cells)
    BY <1>0, <1>4, FS_Injection, Zenon
  <1> QED BY <1>1, <1>2, <1>5

\* Following the pointers f of a list from the anchor gives its descriptors.
LEMMA WalkRing ==
    ASSUME NEW w \in Seq(Cells), Distinct(w), NEW f,
           \A i \in 0..Len(w) : f[At(w, i)] = At(w, i + 1)
    PROVE  Walk(f) = w
  <1> DEFINE M == Cardinality(Cells) + 1
             node == CHOOSE g : g = [i \in 1..M |->
                        IF i = 1 THEN f[Anchor]
                        ELSE IF g[i - 1] = Anchor THEN Anchor ELSE f[g[i - 1]]]
             len == Cardinality({i \in DOMAIN node : node[i] # Anchor})
             g0 == [i \in 1..M |-> At(w, i)]
  <1>1. Walk(f) = [i \in 1..len |-> node[i]]
    BY DEF Walk
  <1>2. Len(w) < M /\ M \in Nat /\ Len(w) \in Nat
    BY LenBound
  <1>3. At(w, 0) = Anchor /\ \A i \in 1..M : At(w, i) = Anchor <=> i > Len(w)
    BY <1>2, AnchorNode DEF At
  <1> HIDE DEF M
  <1>4. g0 = [i \in 1..M |->
                 IF i = 1 THEN f[Anchor]
                 ELSE IF g0[i - 1] = Anchor THEN Anchor ELSE f[g0[i - 1]]]
    <2> SUFFICES ASSUME NEW i \in 1..M
                 PROVE  At(w, i) = IF i = 1 THEN f[Anchor]
                                   ELSE IF g0[i - 1] = Anchor THEN Anchor ELSE f[g0[i - 1]]
      BY Zenon
    <2>1. CASE i = 1
      <3>1. f[At(w, 0)] = At(w, 0 + 1)
        BY <1>2
      <3> QED BY <1>3, <2>1, <3>1
    <2>2. CASE i # 1
      <3>1. i - 1 \in 1..M /\ g0[i - 1] = At(w, i - 1)
        BY <1>2, <2>2
      <3>2. CASE i - 1 > Len(w)
        BY <1>2, <1>3, <2>2, <3>1, <3>2
      <3>3. CASE i - 1 <= Len(w)
        <4>1. f[At(w, i - 1)] = At(w, (i - 1) + 1) /\ (i - 1) + 1 = i
          BY <1>2, <3>1, <3>3
        <4>2. At(w, i - 1) # Anchor
          BY <1>2, <1>3, <3>1, <3>3
        <4> QED BY <2>2, <3>1, <4>1, <4>2
      <3> QED BY <1>2, <3>2, <3>3
    <2> QED BY <2>1, <2>2
  <1>5. node = [i \in 1..M |->
                   IF i = 1 THEN f[Anchor]
                   ELSE IF node[i - 1] = Anchor THEN Anchor ELSE f[node[i - 1]]]
    <2> HIDE DEF g0
    <2> QED BY <1>4, Zenon
  <1> HIDE DEF node
  <1>6. \A i \in 1..M : node[i] = At(w, i)
    <2> DEFINE T == {i \in 1..M : node[i] # At(w, i)}
    <2> SUFFICES ASSUME T # {} PROVE FALSE
      OBVIOUS
    <2>1. T \in SUBSET Nat
      BY <1>2
    <2>2. PICK i \in T : \A j \in T : i <= j
      BY <2>1, LeastNumber
    <2>3. i # 1 => i - 1 \in 1..M /\ g0[i - 1] = At(w, i - 1) /\ node[i - 1] = At(w, i - 1)
      BY <1>2, <2>2
    <2>4. g0[i] = At(w, i) /\ i \in 1..M
      OBVIOUS
    <2>5. node[i] = g0[i]
      <3> HIDE DEF g0
      <3> QED BY <1>4, <1>5, <2>3, <2>4
    <2> QED BY <2>2, <2>4, <2>5
  <1>7. {i \in DOMAIN node : node[i] # Anchor} = 1..Len(w)
    <2>1. DOMAIN node = 1..M
      BY <1>5
    <2> QED BY <1>2, <1>3, <1>6, <2>1
  <1>8. len = Len(w)
    <2>1. Cardinality(1..Len(w)) = Len(w)
      BY LenBound
    <2> QED BY <1>7, <2>1
  <1>9. \A i \in 1..Len(w) : node[i] = w[i]
    BY <1>2, <1>6 DEF At
  <1> HIDE DEF len
  <1>10. w = [i \in 1..Len(w) |-> w[i]]
    OBVIOUS
  <1> QED BY <1>1, <1>8, <1>9, <1>10, Zenon
\* The same list from its other end.
Rev(w) == [i \in 1..Len(w) |-> w[(Len(w) + 1) - i]]

\* Both ways round the list.
LEMMA RevRing ==
    ASSUME NEW w \in Seq(Cells), Distinct(w), NEW n, NEW p, Ring(w, n, p)
    PROVE  Walk(n) = w /\ Walk(p) = Rev(w)
  <1> DEFINE v == Rev(w)
             L == Len(w)
  <1>0. L \in Nat
    OBVIOUS
  <1>1. /\ v \in Seq(Cells) /\ Len(v) = L /\ \A i \in 1..L : v[i] = w[(L + 1) - i]
    BY DEF Rev
  <1> HIDE DEF v
  <1>2. Distinct(v)
    <2> SUFFICES ASSUME NEW i \in 1..L, NEW j \in 1..L, v[i] = v[j] PROVE i = j
      BY <1>1 DEF Distinct
    <2>1. (L + 1) - i \in 1..L /\ (L + 1) - j \in 1..L
      BY <1>0
    <2>2. (L + 1) - i = (L + 1) - j
      BY <1>1, <2>1 DEF Distinct
    <2> QED BY <1>0, <2>2
  <1>3. \A i \in 0..(L + 1) : At(v, i) = At(w, (L + 1) - i)
    <2> TAKE i \in 0..(L + 1)
    <2>1. CASE i \in 1..L
      <3>1. (L + 1) - i \in 1..L
        BY <1>0, <2>1
      <3> QED BY <1>1, <2>1, <3>1 DEF At
    <2>2. CASE i \notin 1..L
      <3>1. (L + 1) - i \notin 1..L
        BY <1>0, <2>2
      <3> QED BY <1>1, <2>2, <3>1 DEF At
    <2> QED BY <2>1, <2>2
  <1>4. ASSUME NEW i \in 0..L PROVE p[At(v, i)] = At(v, i + 1)
    <2>1. /\ L - i \in 0..L /\ (L - i) + 1 = (L + 1) - i /\ (L + 1) - (i + 1) = L - i
          /\ i \in 0..(L + 1) /\ i + 1 \in 0..(L + 1)
      BY <1>0
    <2>2. p[At(w, (L - i) + 1)] = At(w, L - i)
      BY <2>1 DEF Ring
    <2> QED BY <1>3, <2>1, <2>2
  <1>5. Walk(p) = v
    BY <1>1, <1>2, <1>4, WalkRing
  <1>6. Walk(n) = w
    BY WalkRing DEF Ring
  <1> QED BY <1>5, <1>6 DEF v

\* What the pointers say of a list that is whole.
LEMMA LinkedIntact ==
    ASSUME TypeOK, NEW w \in Seq(Cells), Linked(w), Settled
    PROVE  ListIntact /\ Queue = Events(w)
  <1>1. NextDone = next /\ PrevDone = prev
    BY DEF Settled, NextDone, PrevDone
  <1>2. Walk(next) = w /\ Walk(prev) = Rev(w)
    BY <1>1, RevRing DEF Linked
  <1>3. DOMAIN w = 1..Len(w) /\ Len(w) \in Nat
    OBVIOUS
  <1>4. Queue = Events(w)
    BY <1>2, <1>3, Zenon DEF Queue, Events
  <1>5. {w[i] : i \in DOMAIN w} = used
    BY <1>3 DEF Linked
  <1>6. Rev(w) = [i \in DOMAIN w |-> w[Len(w) + 1 - i]]
    BY <1>3 DEF Rev
  <1> QED BY <1>2, <1>4, <1>5, <1>6, Zenon DEF ListIntact

-----------------------------------------------------------------------------
(* What a queue tells.                                                     *)

\* Event i is the last one of switch s among the first n.
LastOf(q, s, n, i) ==
    i \in 1..n /\ q[i].sw = s /\ \A j \in 1..n : q[j].sw = s => j <= i

\* The last event of a switch is what is known of it, ...
LEMMA ToldLast ==
    ASSUME NEW k, NEW q, NEW s, NEW n \in Nat, NEW i, LastOf(q, s, n, i)
    PROVE  Told(k, q, s, n) = q[i].on
  <1> DEFINE of == {j \in 1..n : q[j].sw = s}
             m  == CHOOSE j \in of : \A l \in of : l <= j
  <1>1. i \in of /\ \A l \in of : l <= i
    BY DEF LastOf
  <1>2. m \in of /\ \A l \in of : l <= m
    BY <1>1, Zenon
  <1>3. of \subseteq Nat
    OBVIOUS
  <1> HIDE DEF m, of
  <1>4. m = i
    BY <1>1, <1>2, <1>3
  <1>5. Told(k, q, s, n) = IF of = {} THEN k[s] ELSE q[m].on
    BY DEF Told, of, m
  <1> QED BY <1>1, <1>4, <1>5

\* ... and without one nothing new is known.
LEMMA ToldNone ==
    ASSUME NEW k, NEW q, NEW s, NEW n \in Nat, \A i \in 1..n : q[i].sw # s
    PROVE  Told(k, q, s, n) = k[s]
  <1>1. {i \in 1..n : q[i].sw = s} = {}
    OBVIOUS
  <1> QED BY <1>1, Zenon DEF Told

\* Where there is an event of a switch there is a last one.
LEMMA LastExists ==
    ASSUME NEW q, NEW s, NEW n \in Nat, NEW i \in 1..n, q[i].sw = s
    PROVE  \E l : LastOf(q, s, n, l)
  <1> DEFINE T == {n - j : j \in {j \in 1..n : q[j].sw = s}}
  <1>1. T \in SUBSET Nat /\ n - i \in T
    OBVIOUS
  <1>2. PICK x \in T : \A y \in T : x <= y
    BY <1>1, LeastNumber
  <1>3. PICK l \in 1..n : q[l].sw = s /\ x = n - l
    OBVIOUS
  <1>4. \A j \in 1..n : q[j].sw = s => j <= l
    <2> SUFFICES ASSUME NEW j \in 1..n, q[j].sw = s PROVE j <= l
      OBVIOUS
    <2>1. n - j \in T
      OBVIOUS
    <2>2. n - l <= n - j
      BY <1>2, <1>3, <2>1
    <2> QED BY <2>2
  <1> QED BY <1>3, <1>4 DEF LastOf

\* Only the first n events count.
LEMMA ToldSame ==
    ASSUME NEW k, NEW q, NEW r, NEW s, NEW n \in Nat, \A i \in 1..n : q[i] = r[i]
    PROVE  Told(k, q, s, n) = Told(k, r, s, n)
  <1>1. CASE \A i \in 1..n : q[i].sw # s
    BY <1>1, ToldNone
  <1>2. CASE \E i \in 1..n : q[i].sw = s
    <2>1. PICK l : LastOf(q, s, n, l)
      BY <1>2, LastExists
    <2>2. LastOf(r, s, n, l) /\ q[l].on = r[l].on
      BY <2>1 DEF LastOf
    <2> QED BY <2>1, <2>2, ToldLast
  <1> QED BY <1>1, <1>2

\* One event more.
LEMMA ToldMore ==
    ASSUME NEW k, NEW q, NEW s, NEW n \in Nat
    PROVE  /\ q[n + 1].sw = s => Told(k, q, s, n + 1) = q[n + 1].on
           /\ q[n + 1].sw # s => Told(k, q, s, n + 1) = Told(k, q, s, n)
  <1>0. n + 1 \in Nat
    OBVIOUS
  <1>1. CASE q[n + 1].sw = s
    <2>1. LastOf(q, s, n + 1, n + 1)
      BY <1>1 DEF LastOf
    <2> QED BY <1>0, <1>1, <2>1, ToldLast
  <1>2. CASE q[n + 1].sw # s /\ \A i \in 1..n : q[i].sw # s
    <2>1. \A i \in 1..(n + 1) : q[i].sw # s
      <3> TAKE i \in 1..(n + 1)
      <3>1. i = n + 1 \/ i \in 1..n
        OBVIOUS
      <3> QED BY <1>2, <3>1
    <2> QED BY <1>0, <1>2, <2>1, ToldNone
  <1>3. CASE q[n + 1].sw # s /\ \E i \in 1..n : q[i].sw = s
    <2>1. PICK l : LastOf(q, s, n, l)
      BY <1>3, LastExists
    <2>2. LastOf(q, s, n + 1, l)
      <3>1. \A j \in 1..(n + 1) : j = n + 1 \/ j \in 1..n
        OBVIOUS
      <3>2. l \in 1..(n + 1)
        BY <2>1 DEF LastOf
      <3> QED BY <1>3, <2>1, <3>1, <3>2 DEF LastOf
    <2> QED BY <1>0, <1>3, <2>1, <2>2, ToldLast
  <1> QED BY <1>1, <1>2, <1>3

\* The first event is not the last one of its switch, ...
LEMMA ToldLater ==
    ASSUME NEW k, NEW m, NEW q, NEW r, NEW s, NEW n \in Nat,
           \A i \in 1..n : r[i] = q[i + 1],
           \E i \in 1..n : r[i].sw = s
    PROVE  Told(m, r, s, n) = Told(k, q, s, n + 1)
  <1>0. n + 1 \in Nat /\ \A i \in 1..(n + 1) : i = 1 \/ (i - 1 \in 1..n /\ (i - 1) + 1 = i)
    OBVIOUS
  <1>1. PICK l : LastOf(r, s, n, l)
    BY LastExists
  <1>2. l \in 1..n /\ l + 1 \in 1..(n + 1) /\ r[l] = q[l + 1]
    BY <1>1 DEF LastOf
  <1>3. ASSUME NEW j \in 1..(n + 1), q[j].sw = s PROVE j <= l + 1
    <2>1. CASE j = 1
      BY <1>2, <2>1
    <2>2. CASE j # 1
      <3>1. j - 1 \in 1..n /\ r[j - 1] = q[j]
        BY <1>0, <2>2
      <3>2. j - 1 <= l
        BY <1>1, <1>3, <3>1 DEF LastOf
      <3> QED BY <1>2, <3>2
    <2> QED BY <2>1, <2>2
  <1>4. LastOf(q, s, n + 1, l + 1)
    BY <1>1, <1>2, <1>3 DEF LastOf
  <1> QED BY <1>0, <1>1, <1>2, <1>4, ToldLast

\* ... or it has been read.
LEMMA ToldRead ==
    ASSUME NEW k, NEW m, NEW q, NEW r, NEW s, NEW n \in Nat,
           \A i \in 1..n : r[i] = q[i + 1],
           m[s] = IF q[1].sw = s THEN q[1].on ELSE k[s]
    PROVE  Told(m, r, s, n) = Told(k, q, s, n + 1)
  <1>0. n + 1 \in Nat /\ \A i \in 1..(n + 1) : i = 1 \/ (i - 1 \in 1..n /\ (i - 1) + 1 = i)
    OBVIOUS
  <1>1. CASE \A i \in 1..n : r[i].sw # s
    <2>0. Told(m, r, s, n) = m[s]
      BY <1>1, ToldNone
    <2>1. \A i \in 1..(n + 1) : i # 1 => q[i].sw # s
      BY <1>0, <1>1
    <2>2. CASE q[1].sw = s
      <3>1. LastOf(q, s, n + 1, 1)
        BY <2>1, <2>2 DEF LastOf
      <3> QED BY <1>0, <2>0, <2>2, <3>1, ToldLast
    <2>3. CASE q[1].sw # s
      BY <1>0, <2>0, <2>1, <2>3, ToldNone
    <2> QED BY <2>2, <2>3
  <1>2. CASE \E i \in 1..n : r[i].sw = s
    BY <1>2, ToldLater
  <1> QED BY <1>1, <1>2
-----------------------------------------------------------------------------
(* The steps.                                                              *)

\* Steps that leave the list as it is, or go on with an addition, and let the readers
\* copy what they copy.
LEMMA SameList ==
    ASSUME ListInv, EvInv, Undisturbed' => Undisturbed, UNCHANGED <<act, used, known, unread>>,
           NextDone' = NextDone, PrevDone' = PrevDone,
           \A s \in Switches : s \notin lost' => s \notin lost /\ states'[s] = states[s],
           \A r \in Readers : rpc'[r] = "copy" => rpc[r] = "copy" /\ ev'[r] = ev[r]
    PROVE  ListInv' /\ EvInv'
  <1>1. EvInv'
    BY DEF EvInv
  <1> SUFFICES ASSUME Undisturbed' PROVE ListInv'
    BY <1>1 DEF ListInv
  <1>2. PICK w \in Seq(Cells) : Linked(w) /\ Telling(w)
    BY DEF ListInv
  <1>3. Linked(w)'
    BY <1>2 DEF Linked
  <1>4. Events(w)' = Events(w)
    BY DEF Events
  <1>5. Telling(w)'
    BY <1>2, <1>4, Zenon DEF Telling
  <1> QED BY <1>3, <1>5 DEF ListInv

\* The pointers that will be are pointers to nodes too.
LEMMA DoneType ==
    ASSUME TypeOK
    PROVE  NextDone \in [Nodes -> Nodes] /\ PrevDone \in [Nodes -> Nodes]
  BY AnchorNode DEF TypeOK, NextDone, PrevDone

\* The last descriptor of a list, or the anchor.
LEMMA LastNode ==
    ASSUME NEW w \in Seq(Cells), Linked(w)
    PROVE  PrevDone[Anchor] \in used \cup {Anchor} /\ NextDone[PrevDone[Anchor]] = Anchor
  <1>1. Len(w) \in 0..Len(w) /\ Len(w) \in Nat
    OBVIOUS
  <1>2. At(w, Len(w) + 1) = Anchor
    BY <1>1 DEF At
  <1>3. PrevDone[Anchor] = At(w, Len(w)) /\ NextDone[At(w, Len(w))] = Anchor
    <2>1. PrevDone[At(w, Len(w) + 1)] = At(w, Len(w))
      BY <1>1 DEF Linked, Ring
    <2>2. NextDone[At(w, Len(w))] = At(w, Len(w) + 1)
      BY <1>1 DEF Linked, Ring
    <2> QED BY <1>2, <2>1, <2>2
  <1>4. At(w, Len(w)) \in used \cup {Anchor}
    BY DEF At, Linked
  <1> QED BY <1>3, <1>4

\* An event is added at the end of the list.
LEMMA AddList ==
    ASSUME TypeOK, NEW w \in Seq(Cells), Linked(w), Telling(w),
           NextDone \in [Nodes -> Nodes], PrevDone \in [Nodes -> Nodes],
           NEW s \in Switches, NEW c \in Cells \ used, Allocate(s, c), Remember(s),
           ~Bounces(s), known' = known, unread' = unread, ev' = ev, EvInv, Undisturbed,
           \A o \in Readers : rpc'[o] = "copy" => rpc[o] = "copy",
           NextDone' = [NextDone EXCEPT ![c] = Anchor, ![PrevDone[Anchor]] = c],
           PrevDone' = [PrevDone EXCEPT ![Anchor] = c, ![c] = PrevDone[Anchor]]
    PROVE  ListInv' /\ EvInv'
  <1>0. EvInv'
    <2> SUFFICES ASSUME NEW o \in Readers, rpc'[o] = "copy"
                 PROVE  ev'[o] = NextDone'[Anchor]
      BY DEF EvInv
    <2>1. NextDone[Anchor] = ev[o] /\ ev[o] \in Cells /\ ev'[o] = ev[o]
      BY DEF EvInv, TypeOK
    <2>2. PrevDone[Anchor] # Anchor
      BY <2>1, LastNode, AnchorNode
    <2>3. NextDone'[Anchor] = NextDone[Anchor]
      BY <2>2, AnchorNode
    <2> QED BY <2>1, <2>3
  <1> DEFINE v == Append(w, c)
             L == Len(w)
             q == Events(w)
             r == [i \in 1..Len(v) |-> act'[v[i]]]
  <1>1. /\ v \in Seq(Cells) /\ Len(v) = L + 1 /\ L \in Nat
        /\ \A i \in 1..L : v[i] = w[i]
        /\ v[L + 1] = c
    BY AppendProperties
  <1>2. \A i \in 1..L : w[i] # c /\ w[i] \in Cells
    BY DEF Linked
  <1>3. Distinct(v) /\ Ring(v, NextDone', PrevDone')
    BY <1>2, RingAdd DEF Linked
  <1>4. used' = used \cup {c}
    BY DEF Allocate
  <1> HIDE DEF v
  <1>5. \A d : d \in used' <=> \E i \in 1..Len(v) : d = v[i]
    <2>1. \A d : d \in used <=> \E i \in 1..L : d = w[i]
      BY DEF Linked
    <2>2. \A d : (\E i \in 1..Len(v) : d = v[i]) <=> d = c \/ \E i \in 1..L : d = w[i]
      <3> TAKE d
      <3>1. \A i \in 1..(L + 1) : i = L + 1 \/ i \in 1..L
        BY <1>1
      <3>2. L + 1 \in 1..(L + 1) /\ \A i \in 1..L : i \in 1..(L + 1)
        BY <1>1
      <3> QED BY <1>1, <3>1, <3>2
    <2> QED BY <1>4, <2>1, <2>2
  <1>6. Linked(v)'
    BY <1>3, <1>5 DEF Linked
  <1>7. /\ \A i \in 1..L : r[i] = q[i] /\ q[i] = act[w[i]]
        /\ r[L + 1] = Action(s)
    <2>1. act' = [act EXCEPT ![c] = Action(s)] /\ act \in [Cells -> Actions]
      BY DEF Allocate, TypeOK
    <2>2. act'[c] = Action(s) /\ \A d \in Cells : d # c => act'[d] = act[d]
      BY <2>1
    <2>3. \A i \in 1..L : i \in 1..(L + 1)
      BY <1>1
    <2>4. L + 1 \in 1..(L + 1)
      BY <1>1
    <2> QED BY <1>1, <1>2, <2>2, <2>3, <2>4 DEF Events
  <1>8. Action(s).sw = s /\ Action(s).on = pins[s] /\ (Action(s).gap <=> s \in lost)
    BY DEF Action
  <1>9. /\ states'[s] = pins[s] /\ pins[s] # states[s]
        /\ \A t \in Switches : t # s => states'[t] = states[t]
        /\ lost' = lost \ {s}
    BY DEF Remember, Bounces, Allocate, TypeOK
  <1>10. Events(v)' = r
    BY DEF Events
  <1> HIDE DEF q, r, L
  <1>11. \A t : \A n \in 0..L : Told(known', r, t, n) = Told(known, q, t, n)
    <2> SUFFICES ASSUME NEW t, NEW n \in 0..L
                 PROVE  Told(known', r, t, n) = Told(known, q, t, n)
      OBVIOUS
    <2>1. n \in Nat /\ \A i \in 1..n : r[i] = q[i]
      BY <1>1, <1>7
    <2> QED BY <2>1, ToldSame
  <1>12. \A t : \A n \in 0..L : Informed(unread, r, t, n) <=> Informed(unread, q, t, n)
    <2>1. \A n \in 0..L : \A i \in 1..n : r[i] = q[i]
      BY <1>1, <1>7
    <2> QED BY <2>1 DEF Informed
  <1>13. ASSUME NEW i \in 1..(L + 1)
         PROVE  /\ r[i].sw \in Switches
                /\ ~r[i].gap /\ Informed(unread, r, r[i].sw, i - 1)
                      => r[i].on # Told(known', r, r[i].sw, i - 1)
    <2>1. i - 1 \in 0..L
      BY <1>1
    <2>2. CASE i \in 1..L
      <3>1. /\ q[i].sw \in Switches
            /\ ~q[i].gap /\ Informed(unread, q, q[i].sw, i - 1)
                  => q[i].on # Told(known, q, q[i].sw, i - 1)
        BY <1>7, <2>2 DEF Telling, L, q
      <3> QED BY <1>7, <1>11, <1>12, <2>1, <2>2, <3>1
    <2>3. CASE i = L + 1
      <3>1. ~r[i].gap /\ Informed(unread, q, s, L) => Told(known, q, s, L) = states[s]
        BY <1>7, <1>8, <2>3 DEF Telling, L, q
      <3>2. i - 1 = L
        BY <1>1, <2>3
      <3> QED BY <1>7, <1>8, <1>9, <1>11, <1>12, <2>1, <2>3, <3>1, <3>2
    <2> QED BY <1>1, <2>2, <2>3
  <1>14. ASSUME NEW t \in Switches \ lost', Informed(unread, r, t, L + 1)
         PROVE  Told(known', r, t, L + 1) = states'[t]
    <2>0. L \in Nat
      BY <1>1
    <2>1. /\ r[L + 1].sw = t => Told(known', r, t, L + 1) = r[L + 1].on
          /\ r[L + 1].sw # t => Told(known', r, t, L + 1) = Told(known', r, t, L)
      BY ONLY <2>0, ToldMore
    <2>2. CASE t = s
      BY <1>7, <1>8, <1>9, <2>1, <2>2
    <2>3. CASE t # s
      <3>1. t \notin lost /\ states'[t] = states[t]
        BY <1>9, <2>3
      <3>2. L \in 0..L /\ \A i \in 1..(L + 1) : i = L + 1 \/ i \in 1..L
        BY <1>1
      <3>3. Informed(unread, q, t, L)
        BY <1>7, <1>8, <1>12, <1>14, <2>3, <3>2 DEF Informed
      <3>4. Told(known, q, t, L) = states[t]
        BY <3>1, <3>3 DEF Telling, L, q
      <3> QED BY <1>7, <1>8, <1>11, <2>1, <2>3, <3>1, <3>2, <3>4
    <2> QED BY <2>2, <2>3
  <1>15. Telling(v)'
    <2>1. \A i \in 1..Len(v) : act'[v[i]] = r[i]
      BY DEF r
    <2> QED BY <1>1, <1>10, <1>13, <1>14, <2>1 DEF Telling
  <1> QED BY <1>0, <1>1, <1>6, <1>15 DEF ListInv

\* The first event is taken out of it, delivered or not.
LEMMA TakeList ==
    ASSUME TypeOK, ListInv, NEW c, c = next[Anchor], c # Anchor, Finish(c), hpc = "none",
           UNCHANGED <<hpc, lost, states>>, Undisturbed' => Undisturbed
    PROVE  ListInv'
  <1> SUFFICES ASSUME Undisturbed' PROVE ListInv'
    BY DEF ListInv
  <1>0. hpc' = "none" /\ lost' = lost /\ states' = states
    OBVIOUS
  <1>1. PICK w \in Seq(Cells) : Linked(w) /\ Telling(w)
    BY DEF ListInv
  <1> DEFINE v == Tail(w)
             L == Len(w)
             q == Events(w)
             r == [i \in 1..Len(v) |-> act'[v[i]]]
  <1>2. NextDone = next /\ PrevDone = prev /\ NextDone' = next' /\ PrevDone' = prev'
    BY <1>0 DEF NextDone, PrevDone
  <1>3. /\ next' = [next EXCEPT ![prev[c]] = next[c]]
        /\ prev' = [prev EXCEPT ![next[c]] = prev[c]]
        /\ used' = used \ {c} /\ act' = [act EXCEPT ![c] = NoAction]
    BY DEF Finish, Del
  <1>4. next \in [Nodes -> Nodes] /\ prev \in [Nodes -> Nodes] /\ act \in [Cells -> Actions]
        /\ known \in [Switches -> BOOLEAN]
    BY DEF TypeOK
  <1>5. w # << >> /\ c = w[1] /\ Distinct(v) /\ Ring(v, next', prev')
    BY <1>1, <1>2, <1>3, <1>4, RingTake DEF Linked
  <1>6. /\ v \in Seq(Cells) /\ Len(v) = L - 1 /\ L \in Nat \ {0}
        /\ \A i \in 1..(L - 1) : v[i] = w[i + 1]
    BY <1>5, AtTail
  <1> HIDE DEF v, L
  <1>7. \A i \in 1..(L - 1) : i + 1 \in 1..L /\ w[i + 1] # c /\ w[i + 1] \in Cells
    <2> TAKE i \in 1..(L - 1)
    <2>1. i + 1 \in 1..L /\ 1 \in 1..L /\ i + 1 # 1
      BY <1>6
    <2>2. w[i + 1] # c
      BY <1>1, <1>5, <2>1 DEF Linked, Distinct, L
    <2> QED BY <2>1, <2>2 DEF L
  <1>8. \A d : d \in used' <=> \E i \in 1..Len(v) : d = v[i]
    <2>1. \A d : d \in used <=> \E i \in 1..L : d = w[i]
      BY <1>1 DEF Linked, L
    <2>2. \A i \in 1..L : i = 1 \/ (i - 1 \in 1..(L - 1) /\ (i - 1) + 1 = i)
      BY <1>6
    <2>3. \A i \in 1..L : w[i] # c => \E j \in 1..(L - 1) : w[i] = v[j]
      BY <1>5, <1>6, <2>2
    <2>4. \A j \in 1..(L - 1) : \E i \in 1..L : v[j] = w[i] /\ w[i] # c
      BY <1>6, <1>7
    <2>5. \A d : d \in used' <=> d # c /\ \E i \in 1..L : d = w[i]
      BY <1>3, <2>1
    <2>6. \A d : (d # c /\ \E i \in 1..L : d = w[i]) <=> \E j \in 1..(L - 1) : d = v[j]
      BY <2>3, <2>4
    <2> QED BY ONLY <1>6, <2>5, <2>6
  <1>9. Linked(v)'
    BY <1>2, <1>5, <1>8 DEF Linked
  <1>10. /\ \A i \in 1..(L - 1) : r[i] = q[i + 1]
         /\ \A i \in 1..L : q[i] = act[w[i]]
    <2>1. \A d \in Cells : d # c => act'[d] = act[d]
      BY <1>3, <1>4
    <2>2. \A i \in 1..L : q[i] = act[w[i]]
      BY DEF L, Events
    <2> QED BY <1>6, <1>7, <2>1, <2>2
  <1>11. 1 \in 1..L /\ q[1] = act[c]
    BY <1>5, <1>6, <1>10
  <1>12. Events(v)' = r
    BY DEF Events
  <1> HIDE DEF q, r
  <1>13. q[1].sw \in Switches
    BY <1>1, <1>5, <1>11 DEF Telling, L
  <1>14. \/ /\ \A t \in Switches : known'[t] = IF q[1].sw = t THEN q[1].on ELSE known[t]
            /\ unread' = unread \ {q[1].sw}
         \/ known' = known /\ unread' = unread \cup {q[1].sw}
    BY <1>11, Zenon DEF Finish
  <1>15. ASSUME NEW t \in Switches, NEW n \in 0..(L - 1), Informed(unread', r, t, n)
         PROVE  /\ Informed(unread, q, t, n + 1)
                /\ Told(known', r, t, n) = Told(known, q, t, n + 1)
    <2>1. /\ n \in Nat /\ 1 \in 1..(n + 1)
          /\ \A i \in 1..n : r[i] = q[i + 1] /\ i + 1 \in 1..(n + 1)
      BY <1>6, <1>10
    <2>2. CASE \E i \in 1..n : r[i].sw = t
      <3>1. Informed(unread, q, t, n + 1)
        BY <2>1, <2>2 DEF Informed
      <3>2. Told(known', r, t, n) = Told(known, q, t, n + 1)
        BY <2>1, <2>2, ToldLater
      <3> QED BY <3>1, <3>2
    <2>3. CASE \A i \in 1..n : r[i].sw # t
      <3>1. t \notin unread'
        BY <1>15, <2>3 DEF Informed
      <3>2. known'[t] = IF q[1].sw = t THEN q[1].on ELSE known[t]
        BY <1>14, <3>1
      <3>3. q[1].sw = t \/ t \notin unread
        BY <1>14, <3>1
      <3>4. Informed(unread, q, t, n + 1)
        BY <2>1, <3>3 DEF Informed
      <3>5. n \in Nat /\ \A i \in 1..n : r[i] = q[i + 1]
        BY <2>1
      <3>6. Told(known', r, t, n) = Told(known, q, t, n + 1)
        BY ONLY <3>2, <3>5, ToldRead
      <3> QED BY <3>4, <3>6
    <2> QED BY <2>2, <2>3
  <1>16. ASSUME NEW i \in 1..(L - 1)
         PROVE  /\ r[i].sw \in Switches
                /\ ~r[i].gap /\ Informed(unread', r, r[i].sw, i - 1)
                      => r[i].on # Told(known', r, r[i].sw, i - 1)
    <2>1. i - 1 \in 0..(L - 1) /\ (i - 1) + 1 = i /\ (i + 1) - 1 = i
      BY <1>6
    <2>2. /\ q[i + 1].sw \in Switches
          /\ ~q[i + 1].gap /\ Informed(unread, q, q[i + 1].sw, (i + 1) - 1)
                => q[i + 1].on # Told(known, q, q[i + 1].sw, (i + 1) - 1)
      BY <1>1, <1>7, <1>10 DEF Telling, L, q
    <2> QED BY <1>10, <1>15, <2>1, <2>2
  <1>17. ASSUME NEW t \in Switches \ lost', Informed(unread', r, t, L - 1)
         PROVE  Told(known', r, t, L - 1) = states'[t]
    <2>1. L - 1 \in 0..(L - 1) /\ (L - 1) + 1 = L
      BY <1>6
    <2>2. Informed(unread, q, t, L) /\ Told(known', r, t, L - 1) = Told(known, q, t, L)
      BY <1>15, <1>17, <2>1
    <2>3. Told(known, q, t, L) = states[t]
      BY <1>0, <1>1, <2>2 DEF Telling, L, q
    <2> QED BY <1>0, <2>2, <2>3
  <1>18. Telling(v)'
    <2>1. \A i \in 1..Len(v) : act'[v[i]] = r[i]
      BY DEF r
    <2> QED BY <1>6, <1>12, <1>16, <1>17, <2>1 DEF Telling
  <1> QED BY <1>6, <1>9, <1>18 DEF ListInv

\* switches_sa1100_handler(), while the codec's handler is anywhere.
LEMMA SaList ==
    ASSUME IInv, NEW s \in SaSwitches, SaEvent(s)
    PROVE  ListInv' /\ EvInv' /\ AddInv' /\ StatesInv'
  <1>0. /\ s \in Switches /\ TypeOK /\ ListInv /\ EvInv /\ AddInv /\ StatesInv
        /\ known' = known /\ unread' = unread /\ ev' = ev /\ shared' = shared
        /\ power' = power /\ pins' = pins /\ isr' = isr /\ latched' = latched \ {s}
        /\ Remember(s)
        /\ hpc' = hpc /\ new' = new /\ before' = before
    BY DEF IInv, SaEvent, Switches, ucbVars, sysVars, readVars
  <1>1. /\ stale' = stale \ {s} /\ states'[s] = pins[s]
        /\ \A t \in Switches : t # s => states'[t] = states[t]
    BY <1>0 DEF Remember, TypeOK
  <1>2. StatesInv'
    <2>1. hpc' = "none" => isr' = {}
      BY <1>0 DEF StatesInv
    <2>2. ASSUME NEW t \in Watched \ (latched' \cup isr' \cup stale')
          PROVE  states'[t] = pins'[t]
      BY <1>0, <1>1 DEF StatesInv, Watched, Switches
    <2>3. Watched' = Watched
      BY <1>0 DEF Watched
    <2> QED BY <2>1, <2>2, <2>3 DEF StatesInv
  <1>3. CASE /\ UNCHANGED <<listVars, rpc, nested>>
             /\ (lost' = lost /\ Bounces(s)) \/ Dropped(s)
    <2>1. NextDone' = NextDone /\ PrevDone' = PrevDone
      BY <1>0, <1>3 DEF NextDone, PrevDone, listVars
    <2>2. \A t \in Switches : t \notin lost' => t \notin lost /\ states'[t] = states[t]
      <3>1. CASE lost' = lost /\ Bounces(s)
        BY <1>0, <1>1, <3>1 DEF Bounces
      <3>2. CASE Dropped(s)
        BY <1>1, <3>2 DEF Dropped
      <3> QED BY <1>3, <3>1, <3>2
    <2>3. ListInv' /\ EvInv'
      BY <1>0, <1>3, <2>1, <2>2, SameList DEF listVars, Undisturbed
    <2>4. AddInv'
      BY <1>0, <1>3 DEF AddInv, Adding, listVars, Undisturbed
    <2> QED BY <1>2, <2>3, <2>4
  <1>4. ASSUME NEW c \in Cells \ used, Allocate(s, c), AddTail(c), ~Bounces(s),
               nested' = (nested \/ Harmful), Wakes
        PROVE  ListInv' /\ EvInv' /\ AddInv'
    <2>1. used' = used \cup {c} /\ (Undisturbed' => Undisturbed /\ ~Harmful)
      BY <1>0, <1>4, Zenon DEF Allocate, Undisturbed
    <2>2. AddInv'
      <3>1. Adding' => new' \in used'
        BY <1>0, <2>1 DEF AddInv, Adding
      <3>2. Adding' /\ Undisturbed' => before' # new' /\ before' \in used' \cup {Anchor}
        BY <1>0, <2>1 DEF AddInv, Adding
      <3> QED BY <3>1, <3>2 DEF AddInv
    <2>3. ASSUME Undisturbed' PROVE ListInv' /\ EvInv'
      <3>1. PICK w \in Seq(Cells) : Linked(w) /\ Telling(w)
        BY <1>0, <2>1, <2>3 DEF ListInv
      <3>2. PrevDone = prev /\ PrevDone' = prev' /\ hpc \notin {"loaded", "stored"}
        BY <1>0, <2>1, <2>3 DEF Harmful, PrevDone
      <3>3. PrevDone' = [PrevDone EXCEPT ![Anchor] = c, ![c] = PrevDone[Anchor]]
        BY <1>4, <3>2 DEF AddTail
      <3>4. NextDone' = [NextDone EXCEPT ![c] = Anchor, ![PrevDone[Anchor]] = c]
        <4>1. next' = [next EXCEPT ![c] = Anchor, ![prev[Anchor]] = c]
          BY <1>4 DEF AddTail
        <4>2. CASE hpc = "linked"
          <5>1. /\ NextDone = [next EXCEPT ![before] = new]
                /\ NextDone' = [next' EXCEPT ![before] = new]
            BY <1>0, <4>2 DEF NextDone
          <5>2. new \in used /\ before \in used \cup {Anchor}
            BY <1>0, <2>1, <2>3, <4>2 DEF AddInv, Adding
          <5>3. before # c /\ new # Anchor
            BY <1>0, <5>2, AnchorNode DEF TypeOK
          <5>4. NextDone[before] = new /\ NextDone[prev[Anchor]] = Anchor
            BY <1>0, <3>1, <3>2, <5>1, LastNode DEF TypeOK
          <5>5. before # prev[Anchor]
            BY <5>3, <5>4
          <5> QED BY <1>0, <3>2, <4>1, <5>1, <5>3, <5>5 DEF TypeOK
        <4>3. CASE hpc # "linked"
          <5>1. NextDone = next /\ NextDone' = next'
            BY <1>0, <3>2, <4>3 DEF NextDone
          <5> QED BY <3>2, <4>1, <5>1
        <4> QED BY <4>2, <4>3
      <3>5. \A o \in Readers : rpc'[o] = "copy" => rpc[o] = "copy"
        BY <1>0, <1>4, WakesType
      <3>6. Undisturbed /\ NextDone \in [Nodes -> Nodes] /\ PrevDone \in [Nodes -> Nodes]
        BY <1>0, <2>1, <2>3, DoneType
      <3> QED BY <1>0, <1>4, <3>1, <3>3, <3>4, <3>5, <3>6, AddList
    <2>4. ~Undisturbed' => ListInv' /\ EvInv'
      BY DEF ListInv, EvInv
    <2> QED BY <2>2, <2>3, <2>4
  <1> QED BY <1>2, <1>3, <1>4 DEF SaEvent

\* switches_ucb1x00_handler() up to its first store.
LEMMA ServeList ==
    ASSUME IInv, UcbServe
    PROVE  ListInv' /\ EvInv' /\ AddInv' /\ StatesInv'
  <1>0. PICK s \in isr :
            /\ isr' = isr \ {s} /\ Remember(s)
            /\ \/ /\ UNCHANGED <<act, used, hpc, new, before>>
                  /\ ((lost' = lost /\ Bounces(s)) \/ Dropped(s))
               \/ /\ ~Bounces(s)
                  /\ \E c \in Cells \ used : Allocate(s, c) /\ new' = c
                  /\ before' = prev[Anchor] /\ hpc' = "loaded"
    BY DEF UcbServe
  <1>1. /\ s \in Switches /\ TypeOK /\ ListInv /\ EvInv /\ AddInv /\ StatesInv
        /\ hpc = "serve"
        /\ UNCHANGED <<power, pins, latched, next, prev, rpc>>
        /\ known' = known /\ unread' = unread /\ ev' = ev
        /\ nested' = nested /\ shared' = shared /\ Undisturbed' = Undisturbed
    BY DEF IInv, UcbServe, Switches, sysVars, pinVars, readVars, TypeOK, Undisturbed
  <1>2. /\ stale' = stale \ {s} /\ states'[s] = pins[s]
        /\ \A t \in Switches : t # s => states'[t] = states[t]
    BY <1>0, <1>1 DEF Remember, TypeOK
  <1>3. StatesInv'
    <2>1. hpc' # "none"
      BY <1>0, <1>1
    <2>2. ASSUME NEW t \in Watched \ (latched' \cup isr' \cup stale')
          PROVE  states'[t] = pins'[t]
      BY <1>0, <1>1, <1>2 DEF StatesInv, Watched, Switches
    <2>3. Watched' = Watched
      BY <1>1 DEF Watched
    <2> QED BY <2>1, <2>2, <2>3 DEF StatesInv
  <1>4. NextDone = next /\ PrevDone = prev
    BY <1>1 DEF NextDone, PrevDone
  <1>5. CASE /\ UNCHANGED <<act, used, hpc, new, before>>
             /\ ((lost' = lost /\ Bounces(s)) \/ Dropped(s))
    <2>1. NextDone' = NextDone /\ PrevDone' = PrevDone
      BY <1>1, <1>5 DEF NextDone, PrevDone
    <2>2. \A t \in Switches : t \notin lost' => t \notin lost /\ states'[t] = states[t]
      <3>1. CASE lost' = lost /\ Bounces(s)
        BY <1>1, <1>2, <3>1 DEF Bounces
      <3>2. CASE Dropped(s)
        BY <1>2, <3>2 DEF Dropped
      <3> QED BY <1>5, <3>1, <3>2
    <2>3. ListInv' /\ EvInv'
      BY <1>1, <1>5, <2>1, <2>2, SameList
    <2>4. AddInv'
      BY <1>1, <1>5 DEF AddInv, Adding
    <2> QED BY <1>3, <2>3, <2>4
  <1>6. ASSUME ~Bounces(s), NEW c \in Cells \ used, Allocate(s, c), new' = c,
               before' = prev[Anchor], hpc' = "loaded"
        PROVE  ListInv' /\ EvInv' /\ AddInv'
    <2>1. used' = used \cup {c}
      BY <1>6 DEF Allocate
    <2>2. CASE ~Undisturbed
      BY <1>1, <1>6, <2>1, <2>2 DEF ListInv, EvInv, AddInv
    <2>3. CASE Undisturbed
      <3>1. PICK w \in Seq(Cells) : Linked(w) /\ Telling(w)
        BY <1>1, <2>3 DEF ListInv
      <3>2. /\ NextDone' = [NextDone EXCEPT ![c] = Anchor, ![PrevDone[Anchor]] = c]
            /\ PrevDone' = [PrevDone EXCEPT ![Anchor] = c, ![c] = PrevDone[Anchor]]
        BY <1>1, <1>4, <1>6 DEF NextDone, PrevDone
      <3>3. ListInv' /\ EvInv'
        <4>1. NextDone \in [Nodes -> Nodes] /\ PrevDone \in [Nodes -> Nodes]
          BY <1>1, DoneType
        <4> QED BY <1>0, <1>1, <1>6, <2>3, <3>1, <3>2, <4>1, AddList
      <3>4. prev[Anchor] \in used \cup {Anchor}
        BY <1>4, <3>1, LastNode
      <3>5. AddInv'
        BY <1>6, <2>1, <3>4, AnchorNode DEF AddInv
      <3> QED BY <3>3, <3>5
    <2> QED BY <2>2, <2>3
  <1> QED BY <1>0, <1>3, <1>5, <1>6

\* Its three stores.
LEMMA StoreList ==
    ASSUME IInv, UcbStore \/ UcbStoreNew \/ UcbLink
    PROVE  ListInv' /\ EvInv' /\ AddInv' /\ StatesInv'
  <1>0. /\ TypeOK /\ ListInv /\ EvInv /\ AddInv /\ StatesInv
        /\ UNCHANGED <<pins, latched, states, act, used, isr, power, ev, known, unread,
                       lost, stale, nested, shared>>
        /\ ~UcbLink => UNCHANGED <<new, before>>
        /\ Undisturbed' = Undisturbed
    BY DEF IInv, UcbStore, UcbStoreNew, UcbLink, pinVars, sysVars, readVars, Undisturbed
  <1>1. \A r \in Readers : rpc'[r] = "copy" => rpc[r] = "copy" /\ ev'[r] = ev[r]
    BY <1>0, WakesType DEF UcbStore, UcbStoreNew, UcbLink
  <1>2. NextDone' = NextDone /\ PrevDone' = PrevDone
    <2>1. CASE UcbStore
      <3>1. /\ hpc = "loaded" /\ hpc' = "stored" /\ next' = next
            /\ new' = new /\ before' = before
            /\ prev' = [prev EXCEPT ![Anchor] = new]
        BY <2>1 DEF UcbStore
      <3>2. NextDone' = NextDone
        BY <1>0, <3>1 DEF NextDone
      <3>3. PrevDone = [prev EXCEPT ![Anchor] = new, ![new] = before]
        BY <3>1 DEF PrevDone
      <3>4. PrevDone' = [prev' EXCEPT ![new] = before]
        BY <1>0, <3>1 DEF PrevDone
      <3> QED BY <1>0, <3>1, <3>2, <3>3, <3>4 DEF TypeOK
    <2>2. CASE UcbStoreNew
      <3>1. /\ hpc = "stored" /\ hpc' = "linked" /\ new' = new /\ before' = before
            /\ next' = [next EXCEPT ![new] = Anchor]
            /\ prev' = [prev EXCEPT ![new] = before]
        BY <2>2 DEF UcbStoreNew
      <3>2. PrevDone' = PrevDone
        BY <1>0, <3>1 DEF PrevDone
      <3>3. NextDone = [next EXCEPT ![new] = Anchor, ![before] = new]
        BY <3>1 DEF NextDone
      <3>4. NextDone' = [next' EXCEPT ![before] = new]
        BY <1>0, <3>1 DEF NextDone
      <3> QED BY <1>0, <3>1, <3>2, <3>3, <3>4 DEF TypeOK
    <2>3. CASE UcbLink
      BY <1>0, <2>3 DEF UcbLink, NextDone, PrevDone
    <2> QED BY <2>1, <2>2, <2>3
  <1>3. ListInv' /\ EvInv'
    BY <1>0, <1>2, <1>1, SameList
  <1>4. AddInv'
    BY <1>0 DEF AddInv, Adding, UcbStore, UcbStoreNew, UcbLink
  <1>5. StatesInv'
    BY <1>0 DEF StatesInv, Watched, UcbStore, UcbStoreNew, UcbLink
  <1> QED BY <1>3, <1>4, <1>5

\* Steps that leave the list, its handlers and its readers alone.
LEMMA SameDone ==
    ASSUME ListInv, EvInv, AddInv,
           UNCHANGED <<next, prev, act, used, hpc, new, before, known, unread, ev, lost,
                       states, nested, shared>>,
           \A r \in Readers : rpc'[r] = "copy" => rpc[r] = "copy"
    PROVE  ListInv' /\ EvInv' /\ AddInv'
  <1>1. NextDone' = NextDone /\ PrevDone' = PrevDone /\ Undisturbed' = Undisturbed
    BY DEF NextDone, PrevDone, Undisturbed
  <1>2. ListInv' /\ EvInv'
    BY <1>1, SameList
  <1> QED BY <1>1, <1>2 DEF AddInv, Adding

\* A reader that has taken hold of the first event, and one that deletes it.
LEMMA ReaderList ==
    ASSUME IInv, NEW r \in Readers, ReadTake(r) \/ ReadFault(r) \/ ReadCopied(r)
    PROVE  ListInv' /\ EvInv' /\ AddInv' /\ StatesInv'
  <1>0. /\ TypeOK /\ ListInv /\ EvInv /\ AddInv /\ StatesInv /\ CopyInv
        /\ hpc = "none" /\ ProcessRuns({r})
        /\ UNCHANGED <<pins, latched, states, hpc, isr, power, lost, stale, nested>>
        /\ \A o \in Readers : o # r => rpc'[o] = rpc[o]
    BY DEF IInv, ReadTake, ReadFault, ReadCopied, Goes, ProcessRuns, QuietDevice, pinVars,
       ucbVars, sysVars, TypeOK
  <1>1. AddInv' /\ StatesInv'
    BY <1>0 DEF AddInv, Adding, StatesInv, Watched
  <1>2. NextDone = next /\ NextDone' = next' /\ PrevDone = prev /\ PrevDone' = prev'
    BY <1>0 DEF NextDone, PrevDone
  <1>3. Undisturbed' => Undisturbed /\ \A o \in Readers : rpc[o] = "copy" => o = r
    <2>1. CASE ReadTake(r) \/ ReadFault(r)
      BY <1>0, <2>1, SharesOther DEF ReadTake, ReadFault, Undisturbed
    <2>2. CASE ReadCopied(r)
      BY <1>0, <2>2 DEF ReadCopied, Goes, CopyInv, Undisturbed
    <2> QED BY <2>1, <2>2
  <1>4. CASE ReadTake(r)
    <2>1. next[Anchor] # Anchor /\ Finish(next[Anchor]) /\ rpc'[r] = "idle"
      BY <1>0, <1>4 DEF ReadTake, ListEmpty, Goes, TypeOK
    <2>2. ListInv'
      BY <1>0, <1>3, <2>1, TakeList
    <2>3. EvInv'
      BY <1>0, <1>3, <2>1 DEF EvInv
    <2> QED BY <1>1, <2>2, <2>3
  <1>5. CASE ReadFault(r)
    <2>1. /\ UNCHANGED <<next, prev, act, used, known, unread>>
          /\ ev'[r] = next[Anchor] /\ \A o \in Readers : o # r => ev'[o] = ev[o]
      BY <1>5 DEF ReadFault, QuietDevice, listVars, TypeOK, IInv
    <2>2. EvInv'
      BY <1>0, <1>2, <1>3, <2>1 DEF EvInv
    <2>3. ASSUME Undisturbed' PROVE ListInv'
      <3>1. PICK w \in Seq(Cells) : Linked(w) /\ Telling(w)
        BY <1>0, <1>3, <2>3 DEF ListInv
      <3>2. Linked(w)'
        BY <1>2, <2>1, <3>1 DEF Linked
      <3>3. Telling(w)'
        <4>1. Events(w)' = Events(w)
          BY <2>1 DEF Events
        <4> QED BY <1>0, <2>1, <3>1, <4>1, Zenon DEF Telling
      <3> QED BY <3>2, <3>3 DEF ListInv
    <2>4. ~Undisturbed' => ListInv'
      BY DEF ListInv
    <2> QED BY <1>1, <2>2, <2>3, <2>4
  <1>6. CASE ReadCopied(r)
    <2>1. Finish(ev[r]) /\ rpc'[r] = "idle" /\ rpc[r] = "copy" /\ ev[r] \in Cells
      BY <1>0, <1>6 DEF ReadCopied, Goes, TypeOK
    <2>2. ASSUME Undisturbed' PROVE ListInv'
      <3>1. ev[r] = next[Anchor] /\ ev[r] # Anchor
        BY <1>0, <1>2, <1>3, <2>1, <2>2, AnchorNode DEF EvInv
      <3> QED BY <1>0, <1>3, <2>1, <3>1, TakeList
    <2>3. ~Undisturbed' => ListInv'
      BY DEF ListInv
    <2>4. EvInv'
      BY <1>0, <1>3, <2>1 DEF EvInv
    <2> QED BY <1>1, <2>2, <2>3, <2>4
  <1> QED BY <1>4, <1>5, <1>6

\* Every step.
LEMMA NextList == IInv /\ [Next]_vars => ListInv' /\ EvInv' /\ AddInv' /\ StatesInv'
  <1> SUFFICES ASSUME IInv, [Next]_vars PROVE ListInv' /\ EvInv' /\ AddInv' /\ StatesInv'
    OBVIOUS
  <1>0. TypeOK /\ ListInv /\ EvInv /\ AddInv /\ StatesInv
    BY DEF IInv
  <1> USE DEF pinVars, sysVars, listVars, ucbVars, readVars
  <1>1. CASE UcbIrq \/ UcbEnd
    <2>1. /\ UNCHANGED <<next, prev, act, used, new, before, rpc, ev, known, unread, lost,
                         states, nested, shared>>
          /\ hpc \in {"none", "serve"} /\ hpc' \in {"none", "serve"}
      BY <1>1 DEF UcbIrq, UcbEnd
    <2>2. NextDone' = NextDone /\ PrevDone' = PrevDone /\ Undisturbed' = Undisturbed
      BY <2>1 DEF NextDone, PrevDone, Undisturbed
    <2>3. ListInv' /\ EvInv'
      BY <1>0, <2>1, <2>2, SameList
    <2>4. AddInv'
      BY <2>1 DEF AddInv, Adding
    <2>5. StatesInv'
      BY <1>0, <1>1 DEF StatesInv, Watched, UcbIrq, UcbEnd, TypeOK
    <2> QED BY <2>3, <2>4, <2>5
  <1>2. ASSUME NEW r \in Readers, Reader(r), ~ReadTake(r), ~ReadFault(r), ~ReadCopied(r)
        PROVE  ListInv' /\ EvInv' /\ AddInv' /\ StatesInv'
    <2>1. QuietDevice
      BY <1>2 DEF Reader, Read, ReadEmpty, ReadError, ReadSleep, ReadSignal, Poll, PollTest,
         PollEnd
    <2>2. /\ UNCHANGED <<ev, known, unread, shared>>
          /\ \A o \in Readers : rpc'[o] = "copy" => rpc[o] = "copy"
      BY <1>0, <1>2, ReaderGoes
    <2>3. ListInv' /\ EvInv' /\ AddInv'
      BY <1>0, <2>1, <2>2, SameDone DEF QuietDevice
    <2>4. StatesInv'
      BY <1>0, <2>1 DEF StatesInv, Watched, QuietDevice
    <2> QED BY <2>3, <2>4
  <1>3. CASE Open \/ Release
    <2>1. ListInv' /\ EvInv' /\ AddInv'
      BY <1>0, <1>3, SameDone DEF Open, Release, QuietDevice
    <2> QED BY <1>0, <1>3, <2>1 DEF Open, Release, QuietDevice, StatesInv, Watched
  <1>4. ASSUME NEW s \in Switches, Move(s)
        PROVE  ListInv' /\ EvInv' /\ AddInv' /\ StatesInv'
    <2>1. ListInv' /\ EvInv' /\ AddInv'
      BY <1>0, <1>4, SameDone DEF Move
    <2>2. /\ \A t \in Switches : t # s => pins'[t] = pins[t]
          /\ UNCHANGED <<hpc, isr, power, states, stale>>
          /\ latched' = latched \cup {s} \/ (s \notin Watched /\ latched' = latched)
      BY <1>0, <1>4 DEF Move, TypeOK
    <2>3. Watched' = Watched /\ Watched \subseteq Switches
      BY <2>2 DEF Watched, Switches
    <2>4. StatesInv'
      BY <1>0, <2>2, <2>3 DEF StatesInv
    <2> QED BY <2>1, <2>4
  <1>5. CASE Suspend
    <2>1. ListInv' /\ EvInv' /\ AddInv'
      BY <1>0, <1>5, SameDone DEF Suspend
    <2> QED BY <1>0, <1>5, <2>1 DEF Suspend, StatesInv, Watched
  <1>6. CASE Wake
    <2>1. ListInv' /\ EvInv' /\ AddInv'
      BY <1>0, <1>6, SameDone DEF Wake
    <2> QED BY <1>0, <1>6, <2>1 DEF Wake, Overlooked, StatesInv, Watched
  <1>7. CASE Resume
    <2>1. ListInv' /\ EvInv' /\ AddInv'
      BY <1>0, <1>7, SameDone DEF Resume
    <2>2. Watched = SaSwitches /\ Watched' = SaSwitches \cup UcbSwitches
      BY <1>7 DEF Resume, Watched, Switches
    <2>3. StatesInv'
      BY <1>0, <1>7, <2>2, SwitchesAssumption DEF Resume, Overlooked, StatesInv
    <2> QED BY <2>1, <2>3
  <1>8. CASE UNCHANGED vars
    <2>1. ListInv' /\ EvInv' /\ AddInv'
      BY <1>0, <1>8, SameDone DEF vars
    <2> QED BY <1>0, <1>8, <2>1 DEF vars, StatesInv, Watched
  <1> QED BY <1>1, <1>2, <1>3, <1>4, <1>5, <1>6, <1>7, <1>8, SaList, ServeList, StoreList,
             ReaderList
          DEF Next, UcbStep

\* At first the list is empty.
LEMMA InitList == Init => ListInv /\ EvInv /\ AddInv /\ StatesInv
  <1> SUFFICES ASSUME Init PROVE ListInv /\ EvInv /\ AddInv /\ StatesInv
    OBVIOUS
  <1>1. AddInv /\ EvInv
    BY DEF Init, AddInv, Adding, EvInv
  <1>2. StatesInv
    <2>1. \A s \in Switches : s \notin stale => pins[s] = FALSE /\ states[s] = FALSE
      BY Zenon DEF Init
    <2> QED BY <2>1 DEF Init, StatesInv, Watched
  <1> DEFINE w == << >>
  <1>3. w \in Seq(Cells) /\ Len(w) = 0
    OBVIOUS
  <1>4. NextDone = next /\ PrevDone = prev /\ next[Anchor] = Anchor /\ prev[Anchor] = Anchor
    BY AnchorNode DEF Init, NextDone, PrevDone
  <1>5. Linked(w)
    BY <1>3, <1>4 DEF Linked, Distinct, Ring, At, Init
  <1>6. Telling(w)
    <2>1. \A s \in Switches : known[s] = states[s]
      BY DEF Init
    <2>2. \A s : Told(known, Events(w), s, 0) = known[s]
      BY ToldNone
    <2> QED BY <1>3, <2>1, <2>2 DEF Telling
  <1> QED BY <1>1, <1>2, <1>3, <1>5, <1>6 DEF ListInv

-----------------------------------------------------------------------------
(* The theorems.                                                           *)

\* At every moment the stores that the codec's handler has still to do complete
\* a list of all the descriptors in use, unless a list_add_tail() interrupted it or
\* two readers were at one event.
THEOREM IInvAlways == Spec => []IInv
  <1>1. Init => IInv
    BY InitType, InitWake, InitList DEF IInv
  <1>2. IInv /\ [Next]_vars => IInv'
    BY NextType, NextWake, NextList DEF IInv
  <1> QED BY <1>1, <1>2, PTL DEF Spec

\* As long as no list_add_tail() interrupts another one and no two readers are at one
\* event the list is the same from both ends, and holds the descriptors allocated and
\* not freed, for any number of descriptors and of readers that sleep in
\* copy_to_user().
THEOREM ListAlwaysIntact == Spec => []ListIntactUnlessDisturbed
  <1>1. IInv => ListIntactUnlessDisturbed
    <2> SUFFICES ASSUME IInv, Undisturbed PROVE ListIntact
      BY DEF ListIntactUnlessDisturbed
    <2>1. PICK w \in Seq(Cells) : Linked(w)
      BY DEF IInv, ListInv
    <2>2. CASE Settled
      BY <2>1, <2>2, LinkedIntact DEF IInv
    <2>3. CASE ~Settled
      BY <2>3 DEF ListIntact
    <2> QED BY <2>2, <2>3
  <1> QED BY <1>1, IInvAlways, PTL

\* The events that wait, in the words of the sequence of their descriptors.
LEMMA QueueTells ==
    ASSUME IInv, Settled, Undisturbed
    PROVE  \E w \in Seq(Cells) : Queue = Events(w) /\ Telling(w)
  BY LinkedIntact DEF IInv, ListInv

\* Presses and releases of a switch alternate in what is read, and lead to what
\* the driver knows of it, wherever no event had to be dropped or was freed
\* although copy_to_user() had failed.
THEOREM AlwaysAlternates == Spec => []Alternates
  <1>1. IInv => Alternates
    <2> SUFFICES ASSUME IInv, Settled, Undisturbed
                 PROVE  /\ \A i \in DOMAIN Queue :
                               ~Queue[i].gap /\ Informed(unread, Queue, Queue[i].sw, i - 1)
                               => Queue[i].on # Told(known, Queue, Queue[i].sw, i - 1)
                        /\ \A s \in Switches \ lost :
                               Informed(unread, Queue, s, Len(Queue))
                               => Told(known, Queue, s, Len(Queue)) = states[s]
      BY Zenon DEF Alternates
    <2>1. PICK w \in Seq(Cells) : Queue = Events(w) /\ Telling(w)
      BY QueueTells
    <2>2. DOMAIN Events(w) = 1..Len(w) /\ \A i \in 1..Len(w) : Events(w)[i] = act[w[i]]
      BY DEF Events
    <2>3. Len(Events(w)) = Len(w)
      BY DEF Events
    <2> QED BY <2>1, <2>2, <2>3 DEF Telling
  <1> QED BY <1>1, IInvAlways, PTL

\* A reader who has read everything knows how each switch stands, unless the
\* driver dropped or failed to deliver its latest change or it moved while its edges
\* were not seen.
THEOREM DrainedAlwaysKnows == Spec => []DrainedKnows
  <1>1. IInv => DrainedKnows
    <2> SUFFICES ASSUME IInv, hpc = "none", Undisturbed,
                        NEW s \in Watched \ (latched \cup lost \cup stale \cup unread),
                        \A i \in DOMAIN Queue : Queue[i].sw # s
                 PROVE  known[s] = pins[s]
      BY Zenon DEF DrainedKnows
    <2>0. s \in Switches
      BY DEF Watched, Switches
    <2>1. PICK w \in Seq(Cells) : Queue = Events(w) /\ Telling(w)
      BY QueueTells DEF Settled
    <2>2. DOMAIN Events(w) = 1..Len(w) /\ Len(w) \in Nat
      BY DEF Events
    <2>3. Told(known, Queue, s, Len(w)) = known[s]
      BY <2>1, <2>2, ToldNone
    <2>4. Told(known, Queue, s, Len(w)) = states[s]
      BY <2>0, <2>1 DEF Telling, Informed
    <2>5. states[s] = pins[s]
      BY DEF IInv, StatesInv
    <2> QED BY <2>3, <2>4, <2>5
  <1> QED BY <1>1, IInvAlways, PTL
==============================================================================
