-------------------------- MODULE TouchScreenProofs --------------------------
(***************************************************************************)
(* Proofs about TouchScreen, for any finite set of users and any number of *)
(* suspends and kills.  The inductive invariant has one part for each      *)
(* resource: the ADC and its clock, the sessions of the device with the    *)
(* life of the thread, the sample in flight, and the interrupt.            *)
(***************************************************************************)
EXTENDS TouchScreen, FiniteSetTheorems, TLAPS

\* The ADC semaphore belongs to whoever converts, and the clock runs for it and
\* for a thread that arms its interrupt.
AdcInv ==
    /\ tpc = "conv" <=> adcSem = "ktsd"
    /\ bpc = "conv" <=> adcSem = "battery"
    /\ \A u \in Users : upc[u] = "openConv" <=> adcSem = u
    /\ ClockBalanced

\* Places of an open or a close that holds ts->sem, and the users the use count
\* counts.
Inside  == {"openAdc", "openConv", "openWait", "closeWait", "closeEnd"}
Counted == {u \in Users : upc[u] \in {"openAdc", "openConv", "openWait", "open"}}

SemInv ==
    /\ \A u \in Users : upc[u] # "panic"
    /\ \A u \in Users : upc[u] \in Inside <=> tsSem = u
    /\ tsSem \in Users \cup {Nobody}

CountInv == tsUse = Cardinality(Counted)

\* What the thread is doing in each phase of a session.
PhaseInv ==
    /\ \A u \in Users :
        /\ upc[u] \in {"openAdc", "openConv"} =>
               tsUse = 1 /\ tpc = "none" /\ hooked /\ ~fal
        /\ upc[u] = "openWait" =>
               /\ tsUse = 1
               /\ tpc = "start" => done = 0
               /\ rtask => done = 1
               /\ tpc = "none" => kills > 0
        /\ upc[u] = "closeWait" => tsUse = 0 /\ tpc # "start" /\ (rtask => done = 0)
        /\ upc[u] = "closeEnd" => tsUse = 0 /\ tpc = "none"
    /\ tsSem = Nobody =>
        /\ tpc # "start"
        /\ rtask => done = 0
        /\ tsUse = 0 => tpc = "none" /\ ~hooked /\ ~fal
        /\ tsUse > 0 => rtask \/ kills > 0

\* The thread's task structure and its pending signal.
TaskInv ==
    /\ rtask <=> tpc \notin {"none", "start"}
    /\ sig => rtask
    /\ sig => kills > 0 \/ tsUse = 0

\* A sample that was, or is going to be, spoilt by a sleep is not reported once the
\* codec's callbacks have run: they have asked for a restart.
SampleInv ==
    /\ tpc = "conv" /\ power = "on" /\ ~mcpOn => restart
    /\ tpc = "nap" /\ power = "on" /\ sample = "garbage" => restart
    /\ GarbageOnlyBeforeCallbacks

\* As long as the system has not slept, the codec can be reached whenever its
\* clock is on, and a thread that waits has its interrupt enabled.
PenInv ==
    suspends = 0 =>
        /\ power = "on"
        /\ mcpOn <=> mcpUse # 0
        /\ tpc \in {"nap", "arm", "wait", "pause"} => mode = "int"
        /\ tpc = "wait" /\ ~woken => ieFal

IInv == TypeOK /\ AdcInv /\ SemInv /\ CountInv /\ PhaseInv /\ TaskInv
        /\ SampleInv /\ PenInv
-----------------------------------------------------------------------------
(* Types.                                                                  *)

\* The Boolean variables are typed by one prover and the others by another, so
\* the type invariant is proved in two halves.
BoolType ==
    /\ mcpOn \in BOOLEAN /\ fal \in BOOLEAN /\ hooked \in BOOLEAN
    /\ ieFal \in BOOLEAN /\ status \in BOOLEAN /\ pen \in BOOLEAN
    /\ rtask \in BOOLEAN /\ restart \in BOOLEAN /\ woken \in BOOLEAN
    /\ sig \in BOOLEAN /\ valid \in BOOLEAN

RestType ==
    /\ mcpUse \in Nat /\ adcSem \in Holders
    /\ mode \in {"off", "measure", "int"} /\ conv \in {"none", "running", "valid"}
    /\ tsSem \in Holders /\ tsUse \in Nat /\ done \in Nat
    /\ tpc \in {"none", "start", "down", "conv", "nap", "arm", "wait", "pause"}
    /\ sample \in {"good", "garbage"}
    /\ reported \in [sample : {"good", "garbage"}, at : {"on", "asleep", "resuming"}]
    /\ upc \in [Users -> UserPlaces] /\ bpc \in {"idle", "conv"}
    /\ power \in {"on", "asleep", "resuming"}
    /\ suspends \in 0..MaxSuspends /\ kills \in 0..MaxKills

\* The two halves make the whole.
LEMMA TypeHalves == TypeOK <=> BoolType /\ RestType
  BY DEF TypeOK, BoolType, RestType

\* The clock is on for the holder of the ADC and for a thread that arms its
\* interrupt.
LEMMA ClockHeld ==
    ASSUME RestType, AdcInv
    PROVE  /\ \A u \in Users : upc[u] = "openConv" => mcpUse > 0
           /\ tpc \in {"conv", "arm"} \/ bpc = "conv" => mcpUse > 0
  BY UsersDistinct DEF RestType, AdcInv, ClockBalanced, Nobody

\* A user who has the device open is counted.
LEMMA OpenCounted ==
    ASSUME RestType, CountInv, NEW u \in Users, upc[u] = "open"
    PROVE  tsUse > 0
  <1>1. IsFiniteSet(Counted) /\ u \in Counted
    BY UsersAssumption, FS_Subset DEF Counted
  <1> QED BY <1>1, FS_EmptySet, FS_CardinalityType DEF CountInv, RestType

\* Goto(u, place) moves one user.
LEMMA GotoType ==
    ASSUME RestType, NEW u \in Users, NEW place \in UserPlaces, Goto(u, place)
    PROVE  upc' \in [Users -> UserPlaces]
  BY DEF RestType, Goto

\* The names of processes and places are in their types.
LEMMA Names ==
    /\ Users \cup {Nobody, "ktsd", "battery"} \subseteq Holders
    /\ {"closed", "openAdc", "openConv", "openWait", "open", "closeWait", "closeEnd",
        "panic"} \subseteq UserPlaces
  BY DEF Holders, UserPlaces

\* Every step keeps the Boolean variables Boolean.
LEMMA BoolStep ==
    ASSUME BoolType, [Next]_vars PROVE BoolType'
  <1> USE DEF mcpVars, coreVars, chipVars, tsVars, thrVars, sysVars,
             UserUnchanged, ThreadUnchanged, CpuFree, Awake, BoolType
  <1>1. ASSUME NEW u \in Users, OpenAgain(u) PROVE BoolType'
    BY <1>1, Zenon DEF OpenAgain
  <1>2. ASSUME NEW u \in Users, OpenFirst(u) PROVE BoolType'
    BY <1>2, Zenon DEF OpenFirst, HookIrq
  <1>3. ASSUME NEW u \in Users, OpenMeasure(u) PROVE BoolType'
    BY <1>3, Zenon DEF OpenMeasure, AdcStart, McpEnable, WriteReg, ModeMeasure
  <1>4. ASSUME NEW u \in Users, OpenStart(u) PROVE BoolType'
    BY <1>4, Zenon DEF OpenStart, AdcStop, McpDisable, WriteReg
  <1>5. ASSUME NEW u \in Users, OpenFails(u) PROVE BoolType'
    BY <1>5, Zenon DEF OpenFails, AdcStop, McpDisable, WriteReg, FreeIrq, DisableIrq
  <1>6. ASSUME NEW u \in Users, OpenDone(u) PROVE BoolType'
    BY <1>6, Zenon DEF OpenDone
  <1>7. ASSUME NEW u \in Users, Close(u) PROVE BoolType'
    BY <1>7, Zenon DEF Close, Signal
  <1>8. ASSUME NEW u \in Users, CloseWait(u) PROVE BoolType'
    BY <1>8, Zenon DEF CloseWait
  <1>9. ASSUME NEW u \in Users, CloseEnd(u) PROVE BoolType'
    BY <1>9, Zenon DEF CloseEnd, McpPair, FreeIrq, DisableIrq, WriteReg
  <1>10. CASE ThreadStart
    BY <1>10, Zenon DEF ThreadStart
  <1>11. CASE ThreadMeasure
    BY <1>11, Zenon DEF ThreadMeasure, AdcStart, McpEnable, WriteReg, ModeMeasure
  <1>12. CASE ThreadSampled
    BY <1>12, Zenon DEF ThreadSampled, AdcStop, McpDisable, WriteReg, ModeInt
  <1>13. CASE ThreadPenUp
    BY <1>13, Zenon DEF ThreadPenUp, McpEnable
  <1>14. CASE ThreadArm
    BY <1>14, Zenon DEF ThreadArm, EnableIrq, McpDisable, WriteReg
  <1>15. CASE ThreadPenDown
    BY <1>15, Zenon DEF ThreadPenDown, McpPair
  <1>16. CASE ThreadNext
    BY <1>16, Zenon DEF ThreadNext
  <1>17. CASE ThreadExit
    BY <1>17, Zenon DEF ThreadExit, Asleep
  <1>18. CASE Convert
    BY <1>18, Zenon DEF Convert
  <1>19. CASE Interrupt
    BY <1>19, Zenon DEF Interrupt, McpPair, WriteReg, TsIrq, DisableIrq, WakeUp, Asleep
  <1>20. CASE PenDown
    BY <1>20, Zenon DEF PenDown
  <1>21. CASE PenUp
    BY <1>21, Zenon DEF PenUp
  <1>22. CASE BatteryStart
    BY <1>22, Zenon DEF BatteryStart, AdcStart, McpEnable, WriteReg
  <1>23. CASE BatteryEnd
    BY <1>23, Zenon DEF BatteryEnd, AdcStop, McpDisable, WriteReg
  <1>24. CASE Suspend
    BY <1>24, Zenon DEF Suspend
  <1>25. CASE Resume
    BY <1>25, Zenon DEF Resume, McpPair, WriteReg, TsPm, WakeUp, Asleep
  <1>26. CASE Kill
    BY <1>26, Zenon DEF Kill, Signal
  <1>27. CASE UNCHANGED vars
    BY <1>27, Zenon DEF vars
  <1>28. CASE Wake
    BY <1>28, Zenon DEF Wake
  <1> QED BY <1>1, <1>2, <1>3, <1>4, <1>5, <1>6, <1>7, <1>8, <1>9, <1>10, <1>11, <1>12,
     <1>13, <1>14, <1>15, <1>16, <1>17, <1>18, <1>19, <1>20, <1>21, <1>22, <1>23,
     <1>24, <1>25, <1>26, <1>27, <1>28 DEF Next, User, Thread

\* ... and the types of the others.
LEMMA RestStep ==
    ASSUME RestType, AdcInv, CountInv, [Next]_vars PROVE RestType'
  <1> USE Names DEF mcpVars, coreVars, chipVars, tsVars, thrVars, sysVars,
             UserUnchanged, ThreadUnchanged, CpuFree, Awake, RestType
  <1>1. ASSUME NEW u \in Users, OpenAgain(u) PROVE RestType'
    BY <1>1, GotoType DEF OpenAgain
  <1>2. ASSUME NEW u \in Users, OpenFirst(u) PROVE RestType'
    BY <1>2, GotoType DEF OpenFirst, HookIrq
  <1>3. ASSUME NEW u \in Users, OpenMeasure(u) PROVE RestType'
    BY <1>3, GotoType DEF OpenMeasure, AdcStart, McpEnable, WriteReg, ModeMeasure
  <1>4. ASSUME NEW u \in Users, OpenStart(u) PROVE RestType'
    BY <1>4, ClockHeld, GotoType DEF OpenStart, AdcStop, McpDisable, WriteReg
  <1>5. ASSUME NEW u \in Users, OpenFails(u) PROVE RestType'
    BY <1>5, ClockHeld, GotoType DEF OpenFails, AdcStop, McpDisable, WriteReg, FreeIrq,
       DisableIrq
  <1>6. ASSUME NEW u \in Users, OpenDone(u) PROVE RestType'
    BY <1>6, GotoType DEF OpenDone
  <1>7. ASSUME NEW u \in Users, Close(u) PROVE RestType'
    BY <1>7, OpenCounted, GotoType DEF Close, Signal
  <1>8. ASSUME NEW u \in Users, CloseWait(u) PROVE RestType'
    BY <1>8, GotoType DEF CloseWait
  <1>9. ASSUME NEW u \in Users, CloseEnd(u) PROVE RestType'
    BY <1>9, GotoType DEF CloseEnd, McpPair, FreeIrq, DisableIrq, WriteReg
  <1>10. CASE ThreadStart
    BY <1>10 DEF ThreadStart
  <1>11. CASE ThreadMeasure
    BY <1>11 DEF ThreadMeasure, AdcStart, McpEnable, WriteReg, ModeMeasure
  <1>12. CASE ThreadSampled
    BY <1>12, ClockHeld DEF ThreadSampled, AdcStop, McpDisable, WriteReg, ModeInt
  <1>13. CASE ThreadPenUp
    BY <1>13 DEF ThreadPenUp, McpEnable
  <1>14. CASE ThreadArm
    BY <1>14, ClockHeld DEF ThreadArm, EnableIrq, McpDisable, WriteReg
  <1>15. CASE ThreadPenDown
    BY <1>15 DEF ThreadPenDown, McpPair
  <1>16. CASE ThreadNext
    BY <1>16 DEF ThreadNext
  <1>17. CASE ThreadExit
    BY <1>17 DEF ThreadExit, Asleep
  <1>18. CASE Convert
    BY <1>18 DEF Convert
  <1>19. CASE Interrupt
    BY <1>19 DEF Interrupt, McpPair, WriteReg, TsIrq, DisableIrq, WakeUp, Asleep
  <1>20. CASE PenDown
    BY <1>20 DEF PenDown
  <1>21. CASE PenUp
    BY <1>21 DEF PenUp
  <1>22. CASE BatteryStart
    BY <1>22 DEF BatteryStart, AdcStart, McpEnable, WriteReg
  <1>23. CASE BatteryEnd
    BY <1>23, ClockHeld DEF BatteryEnd, AdcStop, McpDisable, WriteReg
  <1>24. CASE Suspend
    BY <1>24, LimitsAssumption DEF Suspend
  <1>25. CASE Resume
    BY <1>25 DEF Resume, McpPair, WriteReg, TsPm, WakeUp, Asleep
  <1>26. CASE Kill
    BY <1>26, LimitsAssumption DEF Kill, Signal
  <1>27. CASE UNCHANGED vars
    BY <1>27 DEF vars
  <1>28. CASE Wake
    BY <1>28 DEF Wake
  <1> QED BY <1>1, <1>2, <1>3, <1>4, <1>5, <1>6, <1>7, <1>8, <1>9, <1>10, <1>11, <1>12,
     <1>13, <1>14, <1>15, <1>16, <1>17, <1>18, <1>19, <1>20, <1>21, <1>22, <1>23,
     <1>24, <1>25, <1>26, <1>27, <1>28 DEF Next, User, Thread
-----------------------------------------------------------------------------
(* The ADC.                                                                *)

\* Nobody takes the ADC from its holder, and the clock is counted with it.
LEMMA AdcStep ==
    ASSUME RestType, AdcInv, [Next]_vars PROVE AdcInv'
  <1> USE DEF mcpVars, coreVars, chipVars, tsVars, thrVars, sysVars,
             UserUnchanged, ThreadUnchanged, CpuFree, Awake, AdcInv, ClockBalanced, Goto,
                 RestType, Nobody
  <1>1. ASSUME NEW u \in Users, OpenAgain(u) PROVE AdcInv'
    BY <1>1, UsersDistinct DEF OpenAgain
  <1>2. ASSUME NEW u \in Users, OpenFirst(u) PROVE AdcInv'
    BY <1>2, UsersDistinct DEF OpenFirst, HookIrq
  <1>3. ASSUME NEW u \in Users, OpenMeasure(u) PROVE AdcInv'
    BY <1>3, UsersDistinct DEF OpenMeasure, AdcStart, McpEnable, WriteReg, ModeMeasure
  <1>4. ASSUME NEW u \in Users, OpenStart(u) PROVE AdcInv'
    BY <1>4, UsersDistinct DEF OpenStart, AdcStop, McpDisable, WriteReg
  <1>5. ASSUME NEW u \in Users, OpenFails(u) PROVE AdcInv'
    BY <1>5, UsersDistinct DEF OpenFails, AdcStop, McpDisable, WriteReg, FreeIrq,
       DisableIrq
  <1>6. ASSUME NEW u \in Users, OpenDone(u) PROVE AdcInv'
    BY <1>6, UsersDistinct DEF OpenDone
  <1>7. ASSUME NEW u \in Users, Close(u) PROVE AdcInv'
    BY <1>7, UsersDistinct DEF Close, Signal
  <1>8. ASSUME NEW u \in Users, CloseWait(u) PROVE AdcInv'
    BY <1>8, UsersDistinct DEF CloseWait
  <1>9. ASSUME NEW u \in Users, CloseEnd(u) PROVE AdcInv'
    BY <1>9, UsersDistinct DEF CloseEnd, McpPair, FreeIrq, DisableIrq, WriteReg
  <1>10. CASE ThreadStart
    BY <1>10, UsersDistinct DEF ThreadStart
  <1>11. CASE ThreadMeasure
    BY <1>11, UsersDistinct DEF ThreadMeasure, AdcStart, McpEnable, WriteReg,
       ModeMeasure
  <1>12. CASE ThreadSampled
    BY <1>12, UsersDistinct DEF ThreadSampled, AdcStop, McpDisable, WriteReg, ModeInt
  <1>13. CASE ThreadPenUp
    BY <1>13, UsersDistinct DEF ThreadPenUp, McpEnable
  <1>14. CASE ThreadArm
    BY <1>14, UsersDistinct DEF ThreadArm, EnableIrq, McpDisable, WriteReg
  <1>15. CASE ThreadPenDown
    BY <1>15, UsersDistinct DEF ThreadPenDown, McpPair
  <1>16. CASE ThreadNext
    BY <1>16, UsersDistinct DEF ThreadNext
  <1>17. CASE ThreadExit
    BY <1>17, UsersDistinct DEF ThreadExit, Asleep
  <1>18. CASE Convert
    BY <1>18, UsersDistinct DEF Convert
  <1>19. CASE Interrupt
    BY <1>19, UsersDistinct DEF Interrupt, McpPair, WriteReg, TsIrq, DisableIrq,
       WakeUp, Asleep
  <1>20. CASE PenDown
    BY <1>20, UsersDistinct DEF PenDown
  <1>21. CASE PenUp
    BY <1>21, UsersDistinct DEF PenUp
  <1>22. CASE BatteryStart
    BY <1>22, UsersDistinct DEF BatteryStart, AdcStart, McpEnable, WriteReg
  <1>23. CASE BatteryEnd
    BY <1>23, UsersDistinct DEF BatteryEnd, AdcStop, McpDisable, WriteReg
  <1>24. CASE Suspend
    BY <1>24, UsersDistinct DEF Suspend
  <1>25. CASE Resume
    BY <1>25, UsersDistinct DEF Resume, McpPair, WriteReg, TsPm, WakeUp, Asleep
  <1>26. CASE Kill
    BY <1>26, UsersDistinct DEF Kill, Signal
  <1>27. CASE UNCHANGED vars
    BY <1>27, UsersDistinct DEF vars
  <1>28. CASE Wake
    BY <1>28, UsersDistinct DEF Wake
  <1> QED BY <1>1, <1>2, <1>3, <1>4, <1>5, <1>6, <1>7, <1>8, <1>9, <1>10, <1>11, <1>12,
     <1>13, <1>14, <1>15, <1>16, <1>17, <1>18, <1>19, <1>20, <1>21, <1>22, <1>23,
     <1>24, <1>25, <1>26, <1>27, <1>28 DEF Next, User, Thread
-----------------------------------------------------------------------------
(* Sessions.                                                               *)

\* The task structure and the signal.
LEMMA TaskStep ==
    ASSUME RestType, CountInv, PhaseInv, TaskInv, [Next]_vars PROVE TaskInv'
  <1> USE DEF mcpVars, coreVars, chipVars, tsVars, thrVars, sysVars,
             UserUnchanged, ThreadUnchanged, CpuFree, Awake, TaskInv, PhaseInv, RestType
  <1>1. ASSUME NEW u \in Users, OpenAgain(u) PROVE TaskInv'
    BY <1>1 DEF OpenAgain
  <1>2. ASSUME NEW u \in Users, OpenFirst(u) PROVE TaskInv'
    BY <1>2 DEF OpenFirst, HookIrq
  <1>3. ASSUME NEW u \in Users, OpenMeasure(u) PROVE TaskInv'
    BY <1>3 DEF OpenMeasure, AdcStart, McpEnable, WriteReg, ModeMeasure
  <1>4. ASSUME NEW u \in Users, OpenStart(u) PROVE TaskInv'
    BY <1>4 DEF OpenStart, AdcStop, McpDisable, WriteReg
  <1>5. ASSUME NEW u \in Users, OpenFails(u) PROVE TaskInv'
    BY <1>5 DEF OpenFails, AdcStop, McpDisable, WriteReg, FreeIrq, DisableIrq
  <1>6. ASSUME NEW u \in Users, OpenDone(u) PROVE TaskInv'
    BY <1>6 DEF OpenDone
  <1>7. ASSUME NEW u \in Users, Close(u) PROVE TaskInv'
    BY <1>7, OpenCounted DEF Close, Signal
  <1>8. ASSUME NEW u \in Users, CloseWait(u) PROVE TaskInv'
    BY <1>8 DEF CloseWait
  <1>9. ASSUME NEW u \in Users, CloseEnd(u) PROVE TaskInv'
    BY <1>9 DEF CloseEnd, McpPair, FreeIrq, DisableIrq, WriteReg
  <1>10. CASE ThreadStart
    BY <1>10 DEF ThreadStart
  <1>11. CASE ThreadMeasure
    BY <1>11 DEF ThreadMeasure, AdcStart, McpEnable, WriteReg, ModeMeasure
  <1>12. CASE ThreadSampled
    BY <1>12 DEF ThreadSampled, AdcStop, McpDisable, WriteReg, ModeInt
  <1>13. CASE ThreadPenUp
    BY <1>13 DEF ThreadPenUp, McpEnable
  <1>14. CASE ThreadArm
    BY <1>14 DEF ThreadArm, EnableIrq, McpDisable, WriteReg
  <1>15. CASE ThreadPenDown
    BY <1>15 DEF ThreadPenDown, McpPair
  <1>16. CASE ThreadNext
    BY <1>16 DEF ThreadNext
  <1>17. CASE ThreadExit
    BY <1>17 DEF ThreadExit, Asleep
  <1>18. CASE Convert
    BY <1>18 DEF Convert
  <1>19. CASE Interrupt
    BY <1>19 DEF Interrupt, McpPair, WriteReg, TsIrq, DisableIrq, WakeUp, Asleep
  <1>20. CASE PenDown
    BY <1>20 DEF PenDown
  <1>21. CASE PenUp
    BY <1>21 DEF PenUp
  <1>22. CASE BatteryStart
    BY <1>22 DEF BatteryStart, AdcStart, McpEnable, WriteReg
  <1>23. CASE BatteryEnd
    BY <1>23 DEF BatteryEnd, AdcStop, McpDisable, WriteReg
  <1>24. CASE Suspend
    BY <1>24 DEF Suspend
  <1>25. CASE Resume
    BY <1>25 DEF Resume, McpPair, WriteReg, TsPm, WakeUp, Asleep
  <1>26. CASE Kill
    BY <1>26 DEF Kill, Signal
  <1>27. CASE UNCHANGED vars
    BY <1>27 DEF vars
  <1>28. CASE Wake
    BY <1>28 DEF Wake
  <1> QED BY <1>1, <1>2, <1>3, <1>4, <1>5, <1>6, <1>7, <1>8, <1>9, <1>10, <1>11, <1>12,
     <1>13, <1>14, <1>15, <1>16, <1>17, <1>18, <1>19, <1>20, <1>21, <1>22, <1>23,
     <1>24, <1>25, <1>26, <1>27, <1>28 DEF Next, User, Thread

\* ts->sem is held from one end of an open or a close to the other.
LEMMA SemStep ==
    ASSUME RestType, SemInv, CountInv, PhaseInv, TaskInv, [Next]_vars PROVE SemInv'
  <1> USE DEF mcpVars, coreVars, chipVars, tsVars, thrVars, sysVars,
             UserUnchanged, ThreadUnchanged, CpuFree, Awake, SemInv, Inside, RestType, Goto,
                 Nobody
  <1>1. ASSUME NEW u \in Users, OpenAgain(u) PROVE SemInv'
    BY <1>1, UsersDistinct DEF OpenAgain
  <1>2. ASSUME NEW u \in Users, OpenFirst(u) PROVE SemInv'
    BY <1>2, UsersDistinct, UsersDistinct DEF PhaseInv, TaskInv, OpenFirst, HookIrq
  <1>3. ASSUME NEW u \in Users, OpenMeasure(u) PROVE SemInv'
    BY <1>3, UsersDistinct DEF OpenMeasure, AdcStart, McpEnable, WriteReg, ModeMeasure
  <1>4. ASSUME NEW u \in Users, OpenStart(u) PROVE SemInv'
    BY <1>4, UsersDistinct DEF OpenStart, AdcStop, McpDisable, WriteReg
  <1>5. ASSUME NEW u \in Users, OpenFails(u) PROVE SemInv'
    BY <1>5, UsersDistinct DEF OpenFails, AdcStop, McpDisable, WriteReg, FreeIrq,
       DisableIrq
  <1>6. ASSUME NEW u \in Users, OpenDone(u) PROVE SemInv'
    BY <1>6, UsersDistinct DEF OpenDone
  <1>7. ASSUME NEW u \in Users, Close(u) PROVE SemInv'
    BY <1>7, UsersDistinct DEF Close, Signal
  <1>8. ASSUME NEW u \in Users, CloseWait(u) PROVE SemInv'
    BY <1>8, UsersDistinct DEF CloseWait
  <1>9. ASSUME NEW u \in Users, CloseEnd(u) PROVE SemInv'
    BY <1>9, UsersDistinct DEF CloseEnd, McpPair, FreeIrq, DisableIrq, WriteReg
  <1>10. CASE ThreadStart
    BY <1>10, UsersDistinct DEF ThreadStart
  <1>11. CASE ThreadMeasure
    BY <1>11, UsersDistinct DEF ThreadMeasure, AdcStart, McpEnable, WriteReg,
       ModeMeasure
  <1>12. CASE ThreadSampled
    BY <1>12, UsersDistinct DEF ThreadSampled, AdcStop, McpDisable, WriteReg, ModeInt
  <1>13. CASE ThreadPenUp
    BY <1>13, UsersDistinct DEF ThreadPenUp, McpEnable
  <1>14. CASE ThreadArm
    BY <1>14, UsersDistinct DEF ThreadArm, EnableIrq, McpDisable, WriteReg
  <1>15. CASE ThreadPenDown
    BY <1>15, UsersDistinct DEF ThreadPenDown, McpPair
  <1>16. CASE ThreadNext
    BY <1>16, UsersDistinct DEF ThreadNext
  <1>17. CASE ThreadExit
    BY <1>17, UsersDistinct DEF ThreadExit, Asleep
  <1>18. CASE Convert
    BY <1>18, UsersDistinct DEF Convert
  <1>19. CASE Interrupt
    BY <1>19, UsersDistinct DEF Interrupt, McpPair, WriteReg, TsIrq, DisableIrq,
       WakeUp, Asleep
  <1>20. CASE PenDown
    BY <1>20, UsersDistinct DEF PenDown
  <1>21. CASE PenUp
    BY <1>21, UsersDistinct DEF PenUp
  <1>22. CASE BatteryStart
    BY <1>22, UsersDistinct DEF BatteryStart, AdcStart, McpEnable, WriteReg
  <1>23. CASE BatteryEnd
    BY <1>23, UsersDistinct DEF BatteryEnd, AdcStop, McpDisable, WriteReg
  <1>24. CASE Suspend
    BY <1>24, UsersDistinct DEF Suspend
  <1>25. CASE Resume
    BY <1>25, UsersDistinct DEF Resume, McpPair, WriteReg, TsPm, WakeUp, Asleep
  <1>26. CASE Kill
    BY <1>26, UsersDistinct DEF Kill, Signal
  <1>27. CASE UNCHANGED vars
    BY <1>27, UsersDistinct DEF vars
  <1>28. CASE Wake
    BY <1>28, UsersDistinct DEF Wake
  <1> QED BY <1>1, <1>2, <1>3, <1>4, <1>5, <1>6, <1>7, <1>8, <1>9, <1>10, <1>11, <1>12,
     <1>13, <1>14, <1>15, <1>16, <1>17, <1>18, <1>19, <1>20, <1>21, <1>22, <1>23,
     <1>24, <1>25, <1>26, <1>27, <1>28 DEF Next, User, Thread

\* How a step of one user changes the set of those who are counted.
LEMMA CountedMove ==
    ASSUME RestType, NEW u \in Users, NEW place \in UserPlaces, Goto(u, place)
    PROVE  LET in == {"openAdc", "openConv", "openWait", "open"} IN
           /\ Cardinality(Counted) \in Nat
           /\ upc[u] \in in <=> place \in in => Counted' = Counted
           /\ upc[u] \notin in /\ place \in in
                => Cardinality(Counted') = Cardinality(Counted) + 1
           /\ upc[u] \in in /\ place \notin in
                => Cardinality(Counted') = Cardinality(Counted) - 1
  <1> DEFINE in == {"openAdc", "openConv", "openWait", "open"}
  <1>1. IsFiniteSet(Counted)
    BY UsersAssumption, FS_Subset DEF Counted
  <1>2. /\ upc' \in [Users -> UserPlaces] /\ upc'[u] = place
        /\ \A v \in Users \ {u} : upc'[v] = upc[v]
    BY DEF RestType, Goto
  <1>3. Counted = {v \in Users : upc[v] \in in} /\ Counted' = {v \in Users : upc'[v] \in in}
    BY DEF Counted
  <1> HIDE DEF in
  <1>4. (upc[u] \in in <=> place \in in) => Counted' = Counted
    BY <1>2, <1>3
  <1>5. upc[u] \notin in /\ place \in in => u \notin Counted /\ Counted' = Counted \cup {u}
    BY <1>2, <1>3
  <1>6. upc[u] \in in /\ place \notin in => u \in Counted /\ Counted' = Counted \ {u}
    BY <1>2, <1>3
  <1>7. Cardinality(Counted) \in Nat
    BY <1>1, FS_CardinalityType
  <1>8. u \notin Counted => Cardinality(Counted \cup {u}) = Cardinality(Counted) + 1
    BY <1>1, FS_AddElement
  <1>9. u \in Counted => Cardinality(Counted \ {u}) = Cardinality(Counted) - 1
    BY <1>1, FS_RemoveElement
  <1> QED BY <1>4, <1>5, <1>6, <1>7, <1>8, <1>9 DEF in

\* The use count follows.
LEMMA CountStep ==
    ASSUME RestType, CountInv, PhaseInv, TaskInv, SemInv, [Next]_vars PROVE CountInv'
  <1> USE DEF mcpVars, coreVars, chipVars, tsVars, thrVars, sysVars,
             UserUnchanged, ThreadUnchanged, CpuFree, Awake, CountInv, RestType
  <1>0. upc' = upc => Counted' = Counted
    BY DEF Counted
  <1>1. ASSUME NEW u \in Users, OpenAgain(u) PROVE CountInv'
    BY <1>1, CountedMove, Names DEF OpenAgain
  <1>2. ASSUME NEW u \in Users, OpenFirst(u) PROVE CountInv'
    BY <1>2, CountedMove, Names DEF PhaseInv, TaskInv, OpenFirst, HookIrq
  <1>3. ASSUME NEW u \in Users, OpenMeasure(u) PROVE CountInv'
    BY <1>3, CountedMove, Names DEF OpenMeasure, AdcStart, McpEnable, WriteReg,
       ModeMeasure
  <1>4. ASSUME NEW u \in Users, OpenStart(u) PROVE CountInv'
    BY <1>4, CountedMove, Names DEF OpenStart, AdcStop, McpDisable, WriteReg
  <1>5. ASSUME NEW u \in Users, OpenFails(u) PROVE CountInv'
    BY <1>5, CountedMove, Names DEF PhaseInv, OpenFails, AdcStop, McpDisable, WriteReg,
       FreeIrq, DisableIrq
  <1>6. ASSUME NEW u \in Users, OpenDone(u) PROVE CountInv'
    BY <1>6, CountedMove, Names DEF OpenDone
  <1>7. ASSUME NEW u \in Users, Close(u) PROVE CountInv'
    BY <1>7, CountedMove, Names DEF Close, Signal
  <1>8. ASSUME NEW u \in Users, CloseWait(u) PROVE CountInv'
    BY <1>8, CountedMove, Names DEF CloseWait
  <1>9. ASSUME NEW u \in Users, CloseEnd(u) PROVE CountInv'
    BY <1>9, CountedMove, Names DEF CloseEnd, McpPair, FreeIrq, DisableIrq, WriteReg
  <1>10. CASE ThreadStart
    BY <1>10, <1>0 DEF ThreadStart
  <1>11. CASE ThreadMeasure
    BY <1>11, <1>0 DEF ThreadMeasure, AdcStart, McpEnable, WriteReg, ModeMeasure
  <1>12. CASE ThreadSampled
    BY <1>12, <1>0 DEF ThreadSampled, AdcStop, McpDisable, WriteReg, ModeInt
  <1>13. CASE ThreadPenUp
    BY <1>13, <1>0 DEF ThreadPenUp, McpEnable
  <1>14. CASE ThreadArm
    BY <1>14, <1>0 DEF ThreadArm, EnableIrq, McpDisable, WriteReg
  <1>15. CASE ThreadPenDown
    BY <1>15, <1>0 DEF ThreadPenDown, McpPair
  <1>16. CASE ThreadNext
    BY <1>16, <1>0 DEF ThreadNext
  <1>17. CASE ThreadExit
    BY <1>17, <1>0 DEF ThreadExit, Asleep
  <1>18. CASE Convert
    BY <1>18, <1>0 DEF Convert
  <1>19. CASE Interrupt
    BY <1>19, <1>0 DEF Interrupt, McpPair, WriteReg, TsIrq, DisableIrq, WakeUp, Asleep
  <1>20. CASE PenDown
    BY <1>20, <1>0 DEF PenDown
  <1>21. CASE PenUp
    BY <1>21, <1>0 DEF PenUp
  <1>22. CASE BatteryStart
    BY <1>22, <1>0 DEF BatteryStart, AdcStart, McpEnable, WriteReg
  <1>23. CASE BatteryEnd
    BY <1>23, <1>0 DEF BatteryEnd, AdcStop, McpDisable, WriteReg
  <1>24. CASE Suspend
    BY <1>24, <1>0 DEF Suspend
  <1>25. CASE Resume
    BY <1>25, <1>0 DEF Resume, McpPair, WriteReg, TsPm, WakeUp, Asleep
  <1>26. CASE Kill
    BY <1>26, <1>0 DEF Kill, Signal
  <1>27. CASE UNCHANGED vars
    BY <1>27, <1>0 DEF vars
  <1>28. CASE Wake
    BY <1>28, <1>0 DEF Wake
  <1> QED BY <1>1, <1>2, <1>3, <1>4, <1>5, <1>6, <1>7, <1>8, <1>9, <1>10, <1>11, <1>12,
     <1>13, <1>14, <1>15, <1>16, <1>17, <1>18, <1>19, <1>20, <1>21, <1>22, <1>23,
     <1>24, <1>25, <1>26, <1>27, <1>28 DEF Next, User, Thread

\* Each phase of a session finds the thread as the one before left it.
LEMMA PhaseStep ==
    ASSUME RestType, SemInv, CountInv, PhaseInv, TaskInv, [Next]_vars PROVE PhaseInv'
  <1> USE DEF mcpVars, coreVars, chipVars, tsVars, thrVars, sysVars,
             UserUnchanged, ThreadUnchanged, CpuFree, Awake, PhaseInv, TaskInv, RestType,
                 SemInv, Inside, Goto, Nobody
  <1>1. ASSUME NEW u \in Users, OpenAgain(u) PROVE PhaseInv'
    BY <1>1, UsersDistinct DEF OpenAgain
  <1>2. ASSUME NEW u \in Users, OpenFirst(u) PROVE PhaseInv'
    BY <1>2, UsersDistinct DEF OpenFirst, HookIrq
  <1>3. ASSUME NEW u \in Users, OpenMeasure(u) PROVE PhaseInv'
    BY <1>3, UsersDistinct DEF OpenMeasure, AdcStart, McpEnable, WriteReg, ModeMeasure
  <1>4. ASSUME NEW u \in Users, OpenStart(u) PROVE PhaseInv'
    BY <1>4, UsersDistinct DEF OpenStart, AdcStop, McpDisable, WriteReg
  <1>5. ASSUME NEW u \in Users, OpenFails(u) PROVE PhaseInv'
    BY <1>5, UsersDistinct DEF OpenFails, AdcStop, McpDisable, WriteReg, FreeIrq,
       DisableIrq
  <1>6. ASSUME NEW u \in Users, OpenDone(u) PROVE PhaseInv'
    BY <1>6, UsersDistinct DEF OpenDone
  <1>7. ASSUME NEW u \in Users, Close(u) PROVE PhaseInv'
    BY <1>7, UsersDistinct, OpenCounted DEF Close, Signal
  <1>8. ASSUME NEW u \in Users, CloseWait(u) PROVE PhaseInv'
    BY <1>8, UsersDistinct DEF CloseWait
  <1>9. ASSUME NEW u \in Users, CloseEnd(u) PROVE PhaseInv'
    BY <1>9, UsersDistinct DEF CloseEnd, McpPair, FreeIrq, DisableIrq, WriteReg
  <1>10. CASE ThreadStart
    BY <1>10, UsersDistinct DEF ThreadStart
  <1>11. CASE ThreadMeasure
    BY <1>11, UsersDistinct DEF ThreadMeasure, AdcStart, McpEnable, WriteReg,
       ModeMeasure
  <1>12. CASE ThreadSampled
    BY <1>12, UsersDistinct DEF ThreadSampled, AdcStop, McpDisable, WriteReg, ModeInt
  <1>13. CASE ThreadPenUp
    BY <1>13, UsersDistinct DEF ThreadPenUp, McpEnable
  <1>14. CASE ThreadArm
    BY <1>14, UsersDistinct DEF ThreadArm, EnableIrq, McpDisable, WriteReg
  <1>15. CASE ThreadPenDown
    BY <1>15, UsersDistinct DEF ThreadPenDown, McpPair
  <1>16. CASE ThreadNext
    BY <1>16, UsersDistinct DEF ThreadNext
  <1>17. CASE ThreadExit
    BY <1>17, UsersDistinct DEF ThreadExit, Asleep
  <1>18. CASE Convert
    BY <1>18, UsersDistinct DEF Convert
  <1>19. CASE Interrupt
    BY <1>19, UsersDistinct DEF Interrupt, McpPair, WriteReg, TsIrq, DisableIrq,
       WakeUp, Asleep
  <1>20. CASE PenDown
    BY <1>20, UsersDistinct DEF PenDown
  <1>21. CASE PenUp
    BY <1>21, UsersDistinct DEF PenUp
  <1>22. CASE BatteryStart
    BY <1>22, UsersDistinct DEF BatteryStart, AdcStart, McpEnable, WriteReg
  <1>23. CASE BatteryEnd
    BY <1>23, UsersDistinct DEF BatteryEnd, AdcStop, McpDisable, WriteReg
  <1>24. CASE Suspend
    BY <1>24, UsersDistinct DEF Suspend
  <1>25. CASE Resume
    BY <1>25, UsersDistinct DEF Resume, McpPair, WriteReg, TsPm, WakeUp, Asleep
  <1>26. CASE Kill
    BY <1>26, UsersDistinct DEF Kill, Signal
  <1>27. CASE UNCHANGED vars
    BY <1>27, UsersDistinct DEF vars
  <1>28. CASE Wake
    BY <1>28, UsersDistinct DEF Wake
  <1> QED BY <1>1, <1>2, <1>3, <1>4, <1>5, <1>6, <1>7, <1>8, <1>9, <1>10, <1>11, <1>12,
     <1>13, <1>14, <1>15, <1>16, <1>17, <1>18, <1>19, <1>20, <1>21, <1>22, <1>23,
     <1>24, <1>25, <1>26, <1>27, <1>28 DEF Next, User, Thread
-----------------------------------------------------------------------------
(* Samples and the interrupt.                                              *)

\* The clock's operations as equivalences, the form in which the provers can use
\* them.
LEMMA McpEnableOn == ASSUME McpEnable
    PROVE mcpUse' = mcpUse + 1 /\ (mcpOn' <=> mcpUse = 0 \/ mcpOn)
  BY Zenon DEF McpEnable
\* mcp_disable().
LEMMA McpDisableOn == ASSUME McpDisable
    PROVE mcpUse' = mcpUse - 1 /\ (mcpOn' <=> mcpUse # 1 /\ mcpOn)
  BY Zenon DEF McpDisable
\* Both in one step.
LEMMA McpPairOn == ASSUME McpPair
    PROVE mcpUse' = mcpUse /\ (mcpOn' <=> mcpUse # 0 /\ mcpOn)
  BY Zenon DEF McpPair

\* What a sleep has spoilt is not reported.
LEMMA SampleStep ==
    ASSUME TypeOK, AdcInv, PhaseInv, TaskInv, SampleInv, [Next]_vars PROVE SampleInv'
  <1> USE DEF mcpVars, coreVars, chipVars, tsVars, thrVars, sysVars,
             UserUnchanged, ThreadUnchanged, CpuFree, Awake, SampleInv, GarbageOnlyBeforeCallbacks,
                 TypeOK, TaskInv, PhaseInv, AdcReady, Reached,
             AdcInv, ClockBalanced, Nobody, Goto
  <1>1. ASSUME NEW u \in Users, OpenAgain(u) PROVE SampleInv'
    BY <1>1, UsersDistinct DEF OpenAgain
  <1>2. ASSUME NEW u \in Users, OpenFirst(u) PROVE SampleInv'
    BY <1>2, UsersDistinct DEF OpenFirst, HookIrq
  <1>3. ASSUME NEW u \in Users, OpenMeasure(u) PROVE SampleInv'
    BY <1>3, UsersDistinct, McpEnableOn DEF OpenMeasure, AdcStart, WriteReg, ModeMeasure
  <1>4. ASSUME NEW u \in Users, OpenStart(u) PROVE SampleInv'
    BY <1>4, UsersDistinct, McpDisableOn DEF OpenStart, AdcStop, WriteReg
  <1>5. ASSUME NEW u \in Users, OpenFails(u) PROVE SampleInv'
    BY <1>5, UsersDistinct, McpDisableOn DEF OpenFails, AdcStop, WriteReg, FreeIrq,
       DisableIrq
  <1>6. ASSUME NEW u \in Users, OpenDone(u) PROVE SampleInv'
    BY <1>6, UsersDistinct DEF OpenDone
  <1>7. ASSUME NEW u \in Users, Close(u) PROVE SampleInv'
    BY <1>7, UsersDistinct DEF Close, Signal
  <1>8. ASSUME NEW u \in Users, CloseWait(u) PROVE SampleInv'
    BY <1>8, UsersDistinct DEF CloseWait
  <1>9. ASSUME NEW u \in Users, CloseEnd(u) PROVE SampleInv'
    BY <1>9, UsersDistinct, McpPairOn DEF CloseEnd, FreeIrq, DisableIrq, WriteReg
  <1>10. CASE ThreadStart
    BY <1>10, UsersDistinct DEF ThreadStart
  <1>11. CASE ThreadMeasure
    BY <1>11, UsersDistinct, McpEnableOn DEF ThreadMeasure, AdcStart, WriteReg,
       ModeMeasure
  <1>12. CASE ThreadSampled
    BY <1>12, UsersDistinct, McpDisableOn DEF ThreadSampled, AdcStop, WriteReg, ModeInt
  <1>13. CASE ThreadPenUp
    BY <1>13, UsersDistinct, McpEnableOn DEF ThreadPenUp
  <1>14. CASE ThreadArm
    BY <1>14, UsersDistinct, McpDisableOn DEF ThreadArm, EnableIrq, WriteReg
  <1>15. CASE ThreadPenDown
    BY <1>15, UsersDistinct, McpPairOn DEF ThreadPenDown
  <1>16. CASE ThreadNext
    BY <1>16, UsersDistinct DEF ThreadNext
  <1>17. CASE ThreadExit
    BY <1>17, UsersDistinct DEF ThreadExit, Asleep
  <1>18. CASE Convert
    BY <1>18, UsersDistinct DEF Convert
  <1>19. CASE Interrupt
    BY <1>19, UsersDistinct, McpPairOn DEF Interrupt, WriteReg, TsIrq, DisableIrq,
       WakeUp, Asleep
  <1>20. CASE PenDown
    BY <1>20, UsersDistinct DEF PenDown
  <1>21. CASE PenUp
    BY <1>21, UsersDistinct DEF PenUp
  <1>22. CASE BatteryStart
    BY <1>22, UsersDistinct, McpEnableOn DEF BatteryStart, AdcStart, WriteReg
  <1>23. CASE BatteryEnd
    BY <1>23, UsersDistinct, McpDisableOn DEF BatteryEnd, AdcStop, WriteReg
  <1>24. CASE Suspend
    BY <1>24, UsersDistinct DEF Suspend
  <1>25. CASE Resume
    BY <1>25, UsersDistinct, McpPairOn DEF Resume, WriteReg, TsPm, WakeUp, Asleep
  <1>26. CASE Kill
    BY <1>26, UsersDistinct DEF Kill, Signal
  <1>27. CASE UNCHANGED vars
    BY <1>27, UsersDistinct DEF vars
  <1>28. CASE Wake
    BY <1>28, UsersDistinct DEF Wake
  <1> QED BY <1>1, <1>2, <1>3, <1>4, <1>5, <1>6, <1>7, <1>8, <1>9, <1>10, <1>11, <1>12,
     <1>13, <1>14, <1>15, <1>16, <1>17, <1>18, <1>19, <1>20, <1>21, <1>22, <1>23,
     <1>24, <1>25, <1>26, <1>27, <1>28 DEF Next, User, Thread

\* Before the first sleep a thread that waits can be woken.
LEMMA PenStep ==
    ASSUME TypeOK, AdcInv, PhaseInv, PenInv, [Next]_vars PROVE PenInv'
  <1> USE DEF mcpVars, coreVars, chipVars, tsVars, thrVars, sysVars,
             UserUnchanged, ThreadUnchanged, CpuFree, Awake, PenInv, TypeOK, Reached,
                 PhaseInv, AdcInv,
             ClockBalanced, Nobody
  <1>1. ASSUME NEW u \in Users, OpenAgain(u) PROVE PenInv'
    BY <1>1, UsersDistinct DEF OpenAgain
  <1>2. ASSUME NEW u \in Users, OpenFirst(u) PROVE PenInv'
    BY <1>2, UsersDistinct DEF OpenFirst, HookIrq
  <1>3. ASSUME NEW u \in Users, OpenMeasure(u) PROVE PenInv'
    BY <1>3, UsersDistinct, McpEnableOn DEF OpenMeasure, AdcStart, WriteReg, ModeMeasure
  <1>4. ASSUME NEW u \in Users, OpenStart(u) PROVE PenInv'
    BY <1>4, UsersDistinct, McpDisableOn DEF OpenStart, AdcStop, WriteReg
  <1>5. ASSUME NEW u \in Users, OpenFails(u) PROVE PenInv'
    BY <1>5, UsersDistinct, McpDisableOn DEF OpenFails, AdcStop, WriteReg, FreeIrq,
       DisableIrq
  <1>6. ASSUME NEW u \in Users, OpenDone(u) PROVE PenInv'
    BY <1>6, UsersDistinct DEF OpenDone
  <1>7. ASSUME NEW u \in Users, Close(u) PROVE PenInv'
    BY <1>7, UsersDistinct DEF Close, Signal
  <1>8. ASSUME NEW u \in Users, CloseWait(u) PROVE PenInv'
    BY <1>8, UsersDistinct DEF CloseWait
  <1>9. ASSUME NEW u \in Users, CloseEnd(u) PROVE PenInv'
    BY <1>9, UsersDistinct, McpPairOn DEF CloseEnd, FreeIrq, DisableIrq, WriteReg
  <1>10. CASE ThreadStart
    BY <1>10, UsersDistinct DEF ThreadStart
  <1>11. CASE ThreadMeasure
    BY <1>11, UsersDistinct, McpEnableOn DEF ThreadMeasure, AdcStart, WriteReg,
       ModeMeasure
  <1>12. CASE ThreadSampled
    BY <1>12, UsersDistinct, McpDisableOn DEF ThreadSampled, AdcStop, WriteReg, ModeInt
  <1>13. CASE ThreadPenUp
    BY <1>13, UsersDistinct, McpEnableOn DEF ThreadPenUp
  <1>14. CASE ThreadArm
    BY <1>14, UsersDistinct, McpDisableOn DEF ThreadArm, EnableIrq, WriteReg
  <1>15. CASE ThreadPenDown
    BY <1>15, UsersDistinct, McpPairOn DEF ThreadPenDown
  <1>16. CASE ThreadNext
    BY <1>16, UsersDistinct DEF ThreadNext
  <1>17. CASE ThreadExit
    BY <1>17, UsersDistinct DEF ThreadExit, Asleep
  <1>18. CASE Convert
    BY <1>18, UsersDistinct DEF Convert
  <1>19. CASE Interrupt
    BY <1>19, UsersDistinct, McpPairOn DEF Interrupt, WriteReg, TsIrq, DisableIrq,
       WakeUp, Asleep
  <1>20. CASE PenDown
    BY <1>20, UsersDistinct DEF PenDown
  <1>21. CASE PenUp
    BY <1>21, UsersDistinct DEF PenUp
  <1>22. CASE BatteryStart
    BY <1>22, UsersDistinct, McpEnableOn DEF BatteryStart, AdcStart, WriteReg
  <1>23. CASE BatteryEnd
    BY <1>23, UsersDistinct, McpDisableOn DEF BatteryEnd, AdcStop, WriteReg
  <1>24. CASE Suspend
    BY <1>24, UsersDistinct DEF Suspend
  <1>25. CASE Resume
    BY <1>25, UsersDistinct, McpPairOn DEF Resume, WriteReg, TsPm, WakeUp, Asleep
  <1>26. CASE Kill
    BY <1>26, UsersDistinct DEF Kill, Signal
  <1>27. CASE UNCHANGED vars
    BY <1>27, UsersDistinct DEF vars
  <1>28. CASE Wake
    BY <1>28, UsersDistinct DEF Wake
  <1> QED BY <1>1, <1>2, <1>3, <1>4, <1>5, <1>6, <1>7, <1>8, <1>9, <1>10, <1>11, <1>12,
     <1>13, <1>14, <1>15, <1>16, <1>17, <1>18, <1>19, <1>20, <1>21, <1>22, <1>23,
     <1>24, <1>25, <1>26, <1>27, <1>28 DEF Next, User, Thread
-----------------------------------------------------------------------------
(* The theorems.                                                           *)

\* The initial state satisfies the invariant.
LEMMA InitIInv == Init => IInv
  <1> SUFFICES ASSUME Init PROVE IInv
    OBVIOUS
  <1>1. TypeOK
    <2>1. BoolType
      BY Zenon DEF Init, BoolType
    <2>2. RestType
      BY LimitsAssumption DEF Init, RestType, Holders, UserPlaces, Nobody
    <2> QED BY <2>1, <2>2, TypeHalves
  <1>2. AdcInv /\ SemInv
    BY UsersDistinct DEF Init, AdcInv, ClockBalanced, SemInv, Inside, Nobody
  <1>3. CountInv
    <2>1. Counted = {}
      BY DEF Init, Counted
    <2> QED BY <2>1, FS_EmptySet DEF Init, CountInv
  <1>4. PhaseInv /\ TaskInv /\ SampleInv
    BY DEF Init, PhaseInv, TaskInv, SampleInv, GarbageOnlyBeforeCallbacks
  <1>5. PenInv
    BY DEF Init, PenInv
  <1> QED BY <1>1, <1>2, <1>3, <1>4, <1>5 DEF IInv

\* Every step keeps it: each part needs the ones cited in its lemma.
LEMMA NextIInv == IInv /\ [Next]_vars => IInv'
  <1> SUFFICES ASSUME IInv, [Next]_vars PROVE IInv'
    OBVIOUS
  <1>1. BoolType /\ RestType
    BY TypeHalves DEF IInv
  <1>2. TypeOK'
    <2>1. BoolType' /\ RestType'
      BY <1>1, BoolStep, RestStep DEF IInv
    <2> QED BY <2>1 DEF BoolType, RestType, TypeOK
  <1>3. AdcInv' /\ SemInv' /\ CountInv' /\ PhaseInv' /\ TaskInv'
    BY <1>1, AdcStep, SemStep, CountStep, PhaseStep, TaskStep DEF IInv
  <1>4. SampleInv' /\ PenInv'
    BY SampleStep, PenStep DEF IInv
  <1> QED BY <1>2, <1>3, <1>4 DEF IInv

\* The invariant holds in every reachable state.
THEOREM IInvAlways == Spec => []IInv
  BY InitIInv, NextIInv, PTL DEF Spec

\* The drivers' state keeps its types; in particular no use count is ever taken
\* below zero.
THEOREM TypeCorrect == Spec => []TypeOK
  <1>1. IInv => TypeOK
    BY DEF IInv
  <1> QED BY <1>1, IInvAlways, PTL

\* mcp_enable() and mcp_disable() are balanced, whoever uses the codec and however
\* often the system sleeps.
THEOREM ClockAlwaysBalanced == Spec => []ClockBalanced
  <1>1. IInv => ClockBalanced
    BY DEF IInv, AdcInv
  <1> QED BY <1>1, IInvAlways, PTL

\* Between ucb1x00_adc_enable() and ucb1x00_adc_disable() the ADC belongs to one of
\* the thread, an open and the battery code.
THEOREM AdcAlwaysExclusive == Spec => []AdcExclusive
  <1>1. IInv => AdcExclusive
    BY DEF IInv, AdcInv, AdcExclusive, Converting
  <1> QED BY <1>1, IInvAlways, PTL

\* Opens, closes and kills in any order leave whole sessions behind: panic() is
\* not reached, and a closed device has neither a thread nor an interrupt.
THEOREM SessionsAlwaysWhole == Spec => []SessionsWhole
  <1>1. IInv => SessionsWhole
    BY DEF IInv, TypeOK, SemInv, PhaseInv, TaskInv, SessionsWhole
  <1> QED BY <1>1, IInvAlways, PTL

\* A sample that was measured across a sleep is reported at most before the codec's
\* callbacks, however often the system sleeps and whoever holds the ADC meanwhile.
THEOREM GarbageAlwaysBeforeCallbacks == Spec => []GarbageOnlyBeforeCallbacks
  <1>1. IInv => GarbageOnlyBeforeCallbacks
    BY DEF IInv, SampleInv
  <1> QED BY <1>1, IInvAlways, PTL

\* Until the system first sleeps, a thread that waits for a touch can be woken by
\* one, wherever the interrupt falls between enabling it and waiting.
THEOREM PenAlwaysDetectable == Spec => []PenDetectableUnlessSlept
  <1>1. IInv => PenDetectableUnlessSlept
    BY DEF IInv, PenInv, PenDetectableUnlessSlept, PenDetectable
  <1> QED BY <1>1, IInvAlways, PTL
=============================================================================
