----------------------------- MODULE TouchScreen -----------------------------
(***************************************************************************)
(* The SIMpad's touchscreen: the ktsd thread, its interrupt, opening and   *)
(* closing the device, and suspend/resume (drivers/misc/ucb1x00-ts.c), on  *)
(* top of the UCB1x00 core (ADC semaphore, interrupt enables;              *)
(* ucb1x00-core.c) and of the MCP interface (clock use count; mcp-core.c,  *)
(* mcp-sa1100.c).  A second user of the ADC stands for the battery code    *)
(* (ucb1x00-simpad.c).                                                     *)
(*                                                                         *)
(* The kernel is uniprocessor and not preemptive, so a process runs from   *)
(* one place where it may sleep to the next in one step; the only step     *)
(* that is split is the one into which an interrupt can get.  The          *)
(* conversions made under one hold of the ADC semaphore are one.           *)
(***************************************************************************)
EXTENDS Naturals, FiniteSets

CONSTANTS
    Users,        \* processes that open the device
    MaxSuspends,  \* how often the system may suspend
    MaxKills      \* how often root may kill ktsd

ASSUME UsersAssumption == IsFiniteSet(Users)
ASSUME LimitsAssumption == MaxSuspends \in Nat /\ MaxKills \in Nat

VARIABLES
    \* MCP interface
    mcpUse,     \* mcp->use_count
    mcpOn,      \* the hardware's enable bit, MCCR0_MCE
    \* UCB1x00 core
    adcSem,     \* the holder of ucb->adc_sem
    fal,        \* ucb->irq_fal_enbl, bit UCB_IRQ_TSPX
    hooked,     \* is ucb1x00_ts_irq hooked?
    \* UCB1x00 chip
    ieFal,      \* register IE_FAL, bit UCB_IRQ_TSPX
    status,     \* register IE_STATUS, bit UCB_IRQ_TSPX
    mode,       \* register TS_CR: "off", "measure" or "int"
    conv,       \* state of the conversion: "none", "running" or "valid"
    pen,        \* is the pen down?
    \* struct ucb1x00_ts and the thread
    tsSem,      \* the holder of ts->sem
    tsUse,      \* ts->use_count
    rtask,      \* ts->rtask # NULL
    done,       \* ts->init_exit.done
    restart,    \* ts->restart
    tpc,        \* where ktsd is
    woken,      \* was it woken on ts->irq_wait?
    sig,        \* is SIGKILL pending?
    valid,      \* its local variable valid
    sample,     \* history: quality of the last sample: "good" or "garbage"
    reported,   \* history: quality of the last sample reported, and when it was
    \* processes and the system
    upc,        \* where each user is
    bpc,        \* where the battery reader is
    power,      \* "on", "asleep" or "resuming"
    suspends, kills

mcpVars  == <<mcpUse, mcpOn>>
coreVars == <<adcSem, fal, hooked>>
chipVars == <<ieFal, status, mode, conv>>
tsVars   == <<tsSem, tsUse, rtask, done, restart>>
thrVars  == <<tpc, woken, sig, valid, sample, reported>>
sysVars  == <<power, suspends, kills>>
vars == <<mcpVars, coreVars, chipVars, pen, tsVars, thrVars, upc, bpc, sysVars>>

Nobody == "nobody"

\* The processes that open the device are none of the other users of the ADC.
ASSUME UsersDistinct == Users \cap {Nobody, "ktsd", "battery"} = {}

Init ==
    /\ mcpUse = 0 /\ mcpOn = FALSE
    /\ adcSem = Nobody /\ fal = FALSE /\ hooked = FALSE
    /\ ieFal = FALSE /\ status = FALSE /\ mode = "off" /\ conv = "none"
    /\ pen = FALSE
    /\ tsSem = Nobody /\ tsUse = 0 /\ rtask = FALSE /\ done = 0 /\ restart = FALSE
    /\ tpc = "none" /\ woken = FALSE /\ sig = FALSE /\ valid = FALSE
    /\ sample = "good" /\ reported = [sample |-> "good", at |-> "on"]
    /\ upc = [u \in Users |-> "closed"] /\ bpc = "idle"
    /\ power = "on" /\ suspends = 0 /\ kills = 0

\* The processor runs.  While the system is resuming the codec's callbacks are
\* still to come.
Awake == power # "asleep"

-----------------------------------------------------------------------------
(* MCP interface.                                                          *)

\* mcp_enable() turns the hardware on with the first use.
McpEnable  == mcpUse' = mcpUse + 1 /\ mcpOn' = (mcpUse = 0 \/ mcpOn)

\* Mutant: the use count is not given back.
McpDisableLeaky == UNCHANGED <<mcpUse, mcpOn>>

\* mcp_disable() turns it off with the last one.
McpDisable == mcpUse' = mcpUse - 1 /\ mcpOn' = (mcpUse # 1 /\ mcpOn)

\* A pair of them within one step, and whether registers can be reached in it:
\* the hardware loses its enable bit in sleep, and only the first use sets it.
McpPair == UNCHANGED mcpUse /\ mcpOn' = (mcpUse # 0 /\ mcpOn)
Reached == mcpUse = 0 \/ mcpOn

\* A register write has an effect only if the chip can be reached; else
\* mcp_sa1100_write() times out.
WriteReg(reached, new, old) == IF reached THEN new ELSE old

-----------------------------------------------------------------------------
(* The ADC.                                                                *)

\* Mutant: the ADC is used without its semaphore.
AdcStartUnlocked(p) ==
    /\ adcSem' = p
    /\ McpEnable
    /\ conv' = WriteReg(mcpOn', "running", conv)

\* ucb1x00_adc_enable() and the start of a conversion.
AdcStart(p) ==
    /\ adcSem = Nobody
    /\ adcSem' = p
    /\ McpEnable
    /\ conv' = WriteReg(mcpOn', "running", conv)

\* ucb1x00_adc_read() returns when the data are valid.  A read that times out
\* returns -ETIME, in which the bit UCB_ADC_DAT_VAL is set, too.
AdcReady == conv = "valid" \/ ~mcpOn

\* ucb1x00_adc_disable().
AdcStop(p) ==
    /\ McpDisable
    /\ adcSem' = Nobody
    /\ conv' = WriteReg(mcpOn, "none", conv)

\* The chip finishes a conversion (external).
Convert ==
    /\ Awake /\ mcpOn /\ conv = "running"
    /\ conv' = "valid"
    /\ UNCHANGED <<mcpVars, coreVars, ieFal, status, mode, pen, tsVars, thrVars,
                   upc, bpc, sysVars>>

-----------------------------------------------------------------------------
(* The touchscreen's interrupt in the core, and its mode in TS_CR.         *)

\* ucb1x00_hook_irq(): one handler for each source.
HookIrq == ~hooked /\ hooked' = TRUE

\* ucb1x00_enable_irq() and ucb1x00_disable_irq(), on the falling edge.
EnableIrq(reached)  == fal' = TRUE  /\ ieFal' = WriteReg(reached, TRUE, ieFal)
DisableIrq(reached) == fal' = FALSE /\ ieFal' = WriteReg(reached, FALSE, ieFal)

\* ucb1x00_free_irq().
FreeIrq(reached) == hooked' = FALSE /\ DisableIrq(reached)

\* The modes in which positions, pressure and resistances are measured ...
ModeMeasure(reached) == mode' = WriteReg(reached, "measure", mode)

\* ... and ucb1x00_ts_mode_int(), in which a touch raises an interrupt.
ModeInt(reached) == mode' = WriteReg(reached, "int", mode)

-----------------------------------------------------------------------------
(* Waking the thread up.  It stays on ts->irq_wait all the time, so every  *)
(* sleep of its own is cut short; a signal ends only an interruptible one. *)
(* At "arm" the thread runs: a wake-up that comes before set_task_state()  *)
(* is lost, one that comes after it makes the next sleep end at once.      *)

Asleep == tpc \in {"nap", "wait", "pause"}
WakeUp == woken' \in IF tpc = "arm" THEN {woken, TRUE} ELSE {woken \/ Asleep}
Signal == sig' = TRUE /\ woken' = (woken \/ tpc \in {"wait", "pause"})

-----------------------------------------------------------------------------
(* Opening and closing the device.                                         *)

UserUnchanged == UNCHANGED <<pen, bpc, sysVars>>

\* Another process can run: the thread is not in the middle of its step.
CpuFree == Awake /\ tpc # "arm"

Goto(u, place) == upc' = [upc EXCEPT ![u] = place]

\* Mutant: a user who is not the first is not counted.
OpenAgainUncounted(u) ==
    /\ CpuFree /\ upc[u] = "closed" /\ tsSem = Nobody /\ tsUse # 0
    /\ Goto(u, "open")
    /\ UNCHANGED <<mcpVars, coreVars, chipVars, tsVars, thrVars>>
    /\ UserUnchanged

\* ucb1x00_ts_startup() for a user who is not the first.  (An open that is
\* interrupted while it waits for ts->sem changes nothing.)
OpenAgain(u) ==
    /\ CpuFree /\ upc[u] = "closed" /\ tsSem = Nobody /\ tsUse # 0
    /\ tsUse' = tsUse + 1
    /\ Goto(u, "open")
    /\ UNCHANGED <<mcpVars, coreVars, chipVars, tsSem, rtask, done, restart, thrVars>>
    /\ UserUnchanged

\* ... and for the first one: panic if there is a thread, else hook the
\* interrupt and go on to measure the plates.  (If it is hooked already, the
\* open returns -EBUSY and has changed nothing.)
OpenFirst(u) ==
    /\ CpuFree /\ upc[u] = "closed" /\ tsSem = Nobody /\ tsUse = 0
    /\ tsUse' = 1
    /\ tsSem' = u
    /\ IF rtask THEN Goto(u, "panic") /\ UNCHANGED hooked
                ELSE Goto(u, "openAdc") /\ HookIrq
    /\ UNCHANGED <<mcpVars, adcSem, fal, chipVars, rtask, done, restart, thrVars>>
    /\ UserUnchanged

\* It may have to wait for the ADC.
OpenMeasure(u) ==
    /\ CpuFree /\ upc[u] = "openAdc"
    /\ AdcStart(u)
    /\ ModeMeasure(mcpOn')
    /\ Goto(u, "openConv")
    /\ UNCHANGED <<fal, hooked, ieFal, status, tsVars, thrVars>>
    /\ UserUnchanged

\* The resistances are there: start the thread and wait until it runs.
OpenStart(u) ==
    /\ CpuFree /\ upc[u] = "openConv" /\ AdcReady
    /\ AdcStop(u)
    /\ done' = 0
    /\ tpc' = "start"
    /\ Goto(u, "openWait")
    /\ UNCHANGED <<fal, hooked, ieFal, status, mode, tsSem, tsUse, rtask, restart,
                   woken, sig, valid, sample, reported>>
    /\ UserUnchanged

\* kernel_thread() fails: give the interrupt back.
OpenFails(u) ==
    /\ CpuFree /\ upc[u] = "openConv" /\ AdcReady
    /\ AdcStop(u)
    /\ done' = 0
    /\ FreeIrq(mcpUse = 1 \/ mcpOn)
    /\ tsUse' = 0 /\ tsSem' = Nobody
    /\ Goto(u, "closed")
    /\ UNCHANGED <<status, mode, rtask, restart, thrVars>>
    /\ UserUnchanged

OpenDone(u) ==
    /\ CpuFree /\ upc[u] = "openWait" /\ done > 0
    /\ done' = done - 1
    /\ tsSem' = Nobody
    /\ Goto(u, "open")
    /\ UNCHANGED <<mcpVars, coreVars, chipVars, tsUse, rtask, restart, thrVars>>
    /\ UserUnchanged

\* ucb1x00_ts_release(): the last user has the thread killed.
Close(u) ==
    /\ CpuFree /\ upc[u] = "open" /\ tsSem = Nobody
    /\ tsUse' = tsUse - 1
    /\ IF tsUse > 1
       THEN Goto(u, "closed") /\ UNCHANGED <<tsSem, sig, woken>>
       ELSE /\ tsSem' = u
            /\ Goto(u, IF rtask THEN "closeWait" ELSE "closeEnd")
            /\ IF rtask THEN Signal ELSE UNCHANGED <<sig, woken>>
    /\ UNCHANGED <<mcpVars, coreVars, chipVars, rtask, done, restart, tpc, valid,
                   sample, reported>>
    /\ UserUnchanged

CloseWait(u) ==
    /\ CpuFree /\ upc[u] = "closeWait" /\ done > 0
    /\ done' = done - 1
    /\ Goto(u, "closeEnd")
    /\ UNCHANGED <<mcpVars, coreVars, chipVars, tsSem, tsUse, rtask, restart, thrVars>>
    /\ UserUnchanged

\* Free the interrupt and turn the touchscreen off.
CloseEnd(u) ==
    /\ CpuFree /\ upc[u] = "closeEnd"
    /\ McpPair
    /\ FreeIrq(Reached)
    /\ mode' = WriteReg(Reached, "off", mode)
    /\ tsSem' = Nobody
    /\ Goto(u, "closed")
    /\ UNCHANGED <<adcSem, status, conv, tsUse, rtask, done, restart, thrVars>>
    /\ UserUnchanged

User(u) ==
    \/ OpenAgain(u) \/ OpenFirst(u) \/ OpenMeasure(u) \/ OpenStart(u) \/ OpenFails(u)
    \/ OpenDone(u) \/ Close(u) \/ CloseWait(u) \/ CloseEnd(u)

-----------------------------------------------------------------------------
(* ucb1x00_thread().                                                       *)

ThreadUnchanged == UNCHANGED <<pen, upc, bpc, sysVars>>

ThreadStart ==
    /\ Awake /\ tpc = "start"
    /\ rtask' = TRUE
    /\ done' = done + 1
    /\ valid' = FALSE /\ woken' = FALSE
    /\ restart' = FALSE
    /\ tpc' = "down"
    /\ UNCHANGED <<mcpVars, coreVars, chipVars, tsSem, tsUse, sig, sample, reported>>
    /\ ThreadUnchanged

\* ucb1x00_adc_enable() may have to wait for the ADC.
ThreadMeasure ==
    /\ Awake /\ tpc = "down"
    /\ AdcStart("ktsd")
    /\ ModeMeasure(mcpOn')
    /\ tpc' = "conv"
    /\ UNCHANGED <<fal, hooked, ieFal, status, tsVars, woken, sig, valid, sample, reported>>
    /\ ThreadUnchanged

\* Mutant: the touchscreen is left in measuring mode.
ThreadSampledInMeasure ==
    /\ Awake /\ tpc = "conv" /\ AdcReady
    /\ sample' = IF conv = "valid" /\ mcpOn THEN "good" ELSE "garbage"
    /\ AdcStop("ktsd")
    /\ tpc' = "nap"
    /\ woken' = FALSE
    /\ UNCHANGED <<fal, hooked, ieFal, status, mode, tsVars, sig, valid, reported>>
    /\ ThreadUnchanged

\* x, y and pressure are read; switch to interrupt mode, sleep for 10 ms.
ThreadSampled ==
    /\ Awake /\ tpc = "conv" /\ AdcReady
    /\ sample' = IF conv = "valid" /\ mcpOn THEN "good" ELSE "garbage"
    /\ ModeInt(mcpOn)
    /\ AdcStop("ktsd")
    /\ tpc' = "nap"
    /\ woken' = FALSE
    /\ UNCHANGED <<fal, hooked, ieFal, status, tsVars, sig, valid, reported>>
    /\ ThreadUnchanged

\* The pen's state, read from TS_CR; it means nothing in another mode, or if
\* the read times out.
PenSeen(down) == mode = "int" /\ Reached => down = pen

\* After the nap: if the pen is up, the clock stays on until the interrupt is
\* enabled.
ThreadPenUp ==
    /\ Awake /\ tpc = "nap" /\ ~sig
    /\ PenSeen(FALSE)
    /\ McpEnable
    /\ tpc' = "arm"
    /\ woken' = FALSE
    /\ UNCHANGED <<coreVars, chipVars, tsVars, sig, valid, sample, reported>>
    /\ ThreadUnchanged

\* ucb1x00_enable_irq(), a "pen off" sample after a valid one, and a wait that
\* only the interrupt, a resume or a signal ends.
ThreadArm ==
    /\ Awake /\ tpc = "arm"
    /\ EnableIrq(mcpOn)
    /\ McpDisable
    /\ valid' = FALSE
    /\ tpc' = "wait"
    /\ UNCHANGED <<adcSem, hooked, status, mode, conv, tsVars, woken, sig, sample, reported>>
    /\ ThreadUnchanged

\* Mutant: the sample is reported although the thread was asked to restart.
ThreadPenDownAlways ==
    /\ Awake /\ tpc = "nap" /\ ~sig
    /\ PenSeen(TRUE)
    /\ McpPair
    /\ valid' = TRUE /\ reported' = [sample |-> sample, at |-> power]
    /\ tpc' = "pause"
    /\ woken' = FALSE
    /\ UNCHANGED <<coreVars, chipVars, tsVars, sig, sample>>
    /\ ThreadUnchanged

\* The pen is down: report the sample unless the thread was asked to restart.
ThreadPenDown ==
    /\ Awake /\ tpc = "nap" /\ ~sig
    /\ PenSeen(TRUE)
    /\ McpPair
    /\ IF restart THEN UNCHANGED <<valid, reported>>
                  ELSE valid' = TRUE /\ reported' = [sample |-> sample, at |-> power]
    /\ tpc' = "pause"
    /\ woken' = FALSE
    /\ UNCHANGED <<coreVars, chipVars, tsVars, sig, sample>>
    /\ ThreadUnchanged

\* schedule_timeout() returns, after 10 ms or when the thread is woken: the next
\* round begins with ts->restart = 0.
ThreadNext ==
    /\ Awake /\ ~sig
    /\ tpc = "pause" \/ (tpc = "wait" /\ woken)
    /\ tpc' = "down"
    /\ restart' = FALSE
    /\ woken' = FALSE
    /\ UNCHANGED <<mcpVars, coreVars, chipVars, tsSem, tsUse, rtask, done, sig, valid,
                   sample, reported>>
    /\ ThreadUnchanged

\* Mutant: the thread completes without clearing rtask.
ThreadExitEarly ==
    /\ Awake /\ sig /\ Asleep
    /\ done' = done + 1
    /\ sig' = FALSE
    /\ tpc' = "none"
    /\ UNCHANGED <<mcpVars, coreVars, chipVars, tsSem, tsUse, rtask, restart, woken, valid,
                   sample, reported>>
    /\ ThreadUnchanged

\* Mutant: the thread exits without complete_and_exit().
ThreadExitIncomplete ==
    /\ Awake /\ sig /\ Asleep
    /\ rtask' = FALSE
    /\ sig' = FALSE
    /\ tpc' = "none"
    /\ UNCHANGED <<mcpVars, coreVars, chipVars, tsSem, tsUse, done, restart, woken, valid,
                   sample, reported>>
    /\ ThreadUnchanged

\* A signal is pending after one of the sleeps.
ThreadExit ==
    /\ Awake /\ sig /\ Asleep
    /\ rtask' = FALSE
    /\ done' = done + 1
    /\ sig' = FALSE
    /\ tpc' = "none"
    /\ UNCHANGED <<mcpVars, coreVars, chipVars, tsSem, tsUse, restart, woken, valid,
                   sample, reported>>
    /\ ThreadUnchanged

Thread ==
    \/ ThreadStart \/ ThreadMeasure \/ ThreadSampled \/ ThreadPenUp \/ ThreadArm
    \/ ThreadPenDown \/ ThreadNext \/ ThreadExit

-----------------------------------------------------------------------------
(* The interrupt, the pen, the battery reader and power management.        *)

\* Mutant: ucb1x00_ts_irq() does not wake the thread.
InterruptSilent ==
    /\ Awake /\ status
    /\ McpPair
    /\ status' = WriteReg(Reached, FALSE, status)
    /\ fal' = (fal /\ ~hooked)
    /\ ieFal' = IF hooked THEN WriteReg(Reached, FALSE, ieFal) ELSE ieFal
    /\ UNCHANGED <<adcSem, hooked, mode, conv, pen, tsVars, thrVars, upc, bpc, sysVars>>

\* ucb1x00_ts_irq(): disable the interrupt, wake the thread.
TsIrq == DisableIrq(Reached) /\ WakeUp

\* ucb1x00_irq() calls it if it is hooked.  The processor is interrupted by a
\* rising edge of the codec's line, which is high while a status bit is set.  With
\* this one source the line falls whenever the bit is cleared, so there is one
\* interrupt for each latched touch; other sources, which may hold the line high,
\* are left out.
Interrupt ==
    /\ Awake /\ status
    /\ McpPair
    /\ status' = WriteReg(Reached, FALSE, status)
    /\ IF hooked THEN TsIrq ELSE UNCHANGED <<fal, ieFal, woken>>
    /\ UNCHANGED <<adcSem, hooked, mode, conv, pen, tsVars, tpc, sig, valid, sample,
                   reported, upc, bpc, sysVars>>

\* The pen touches the screen (external): an edge is latched if it is enabled
\* and the touchscreen is in interrupt mode.
PenDown ==
    /\ Awake /\ ~pen
    /\ pen' = TRUE
    /\ status' = (status \/ (ieFal /\ mode = "int"))
    /\ UNCHANGED <<mcpVars, coreVars, ieFal, mode, conv, tsVars, thrVars, upc, bpc, sysVars>>

PenUp ==
    /\ pen
    /\ pen' = FALSE
    /\ UNCHANGED <<mcpVars, coreVars, chipVars, tsVars, thrVars, upc, bpc, sysVars>>

\* read_vbatt() and its like.
BatteryStart ==
    /\ CpuFree /\ bpc = "idle"
    /\ AdcStart("battery")
    /\ bpc' = "conv"
    /\ UNCHANGED <<fal, hooked, ieFal, status, mode, pen, tsVars, thrVars, upc, sysVars>>

BatteryEnd ==
    /\ CpuFree /\ bpc = "conv" /\ AdcReady
    /\ AdcStop("battery")
    /\ bpc' = "idle"
    /\ UNCHANGED <<fal, hooked, ieFal, status, mode, pen, tsVars, thrVars, upc, sysVars>>

\* sysctl_pm_do_suspend(), which one process at a time has called: in sleep
\* the MCP and the chip lose their registers.
Suspend ==
    /\ power = "on" /\ tpc # "arm" /\ suspends < MaxSuspends
    /\ power' = "asleep" /\ suspends' = suspends + 1
    /\ mcpOn' = FALSE
    /\ ieFal' = FALSE /\ status' = FALSE /\ mode' = "off" /\ conv' = "none"
    /\ UNCHANGED <<mcpUse, coreVars, pen, tsVars, thrVars, upc, bpc, kills>>

\* pm_do_suspend() returns, and pm_send_all(PM_RESUME) calls the devices that
\* registered last first.  One of them is Card Services, which sleeps if there is
\* a card: the other processes run before the codec's turn comes.
Wake ==
    /\ power = "asleep"
    /\ power' = "resuming"
    /\ UNCHANGED <<mcpVars, coreVars, chipVars, pen, tsVars, thrVars, upc, bpc, suspends,
                   kills>>

\* ucb1x00_ts_pm(): ask the thread to restart, and wake it.
TsPm == IF rtask THEN restart' = TRUE /\ WakeUp ELSE UNCHANGED <<restart, woken>>

\* The codec's callbacks, one after the other: ucb1x00_ts_pm(), then ucb1x00_pm(),
\* which clears the status and has the switches enable their interrupts, by which
\* irq_fal_enbl gets back into the register.
Resume ==
    /\ power = "resuming" /\ tpc # "arm"
    /\ power' = "on"
    /\ TsPm
    /\ McpPair
    /\ status' = WriteReg(Reached, FALSE, status)
    /\ ieFal' = WriteReg(Reached, fal, ieFal)
    /\ UNCHANGED <<coreVars, mode, conv, pen, tsSem, tsUse, rtask, done, tpc, sig,
                   valid, sample, reported, upc, bpc, suspends, kills>>

\* root kills ktsd (external).
Kill ==
    /\ CpuFree /\ kills < MaxKills /\ rtask
    /\ kills' = kills + 1
    /\ Signal
    /\ UNCHANGED <<mcpVars, coreVars, chipVars, pen, tsVars, tpc, valid, sample, reported,
                   upc, bpc, power, suspends>>

Next ==
    \/ \E u \in Users : User(u)
    \/ Thread
    \/ Convert \/ Interrupt \/ PenDown \/ PenUp
    \/ BatteryStart \/ BatteryEnd
    \/ Suspend \/ Wake \/ Resume \/ Kill

Spec == Init /\ [][Next]_vars

\* Every process and the interrupt are scheduled, the chip converts, and whoever
\* waits for the ADC semaphore gets it in turn: __down() queues its waiters.
Fairness ==
    /\ \A u \in Users : /\ WF_vars(OpenStart(u)) /\ WF_vars(OpenDone(u))
                        /\ WF_vars(CloseWait(u)) /\ WF_vars(CloseEnd(u))
                        /\ SF_vars(OpenMeasure(u))
    /\ WF_vars(ThreadStart \/ ThreadSampled \/ ThreadPenUp \/ ThreadArm \/ ThreadPenDown
               \/ ThreadNext \/ ThreadExit)
    /\ SF_vars(ThreadMeasure)
    /\ WF_vars(Convert) /\ WF_vars(Interrupt) /\ WF_vars(BatteryEnd)
    /\ WF_vars(Wake) /\ WF_vars(Resume)

FairSpec == Spec /\ Fairness
-----------------------------------------------------------------------------
(* Properties.                                                             *)

Holders == Users \cup {Nobody, "ktsd", "battery"}
UserPlaces == {"closed", "openAdc", "openConv", "openWait", "open", "closeWait",
               "closeEnd", "panic"}

\* The types of the drivers' state.
TypeOK ==
    /\ mcpUse \in Nat /\ mcpOn \in BOOLEAN
    /\ adcSem \in Holders /\ fal \in BOOLEAN /\ hooked \in BOOLEAN
    /\ ieFal \in BOOLEAN /\ status \in BOOLEAN
    /\ mode \in {"off", "measure", "int"}
    /\ conv \in {"none", "running", "valid"}
    /\ pen \in BOOLEAN
    /\ tsSem \in Holders /\ tsUse \in Nat /\ rtask \in BOOLEAN
    /\ done \in Nat /\ restart \in BOOLEAN
    /\ tpc \in {"none", "start", "down", "conv", "nap", "arm", "wait", "pause"}
    /\ woken \in BOOLEAN /\ sig \in BOOLEAN /\ valid \in BOOLEAN
    /\ sample \in {"good", "garbage"}
    /\ reported \in [sample : {"good", "garbage"}, at : {"on", "asleep", "resuming"}]
    /\ upc \in [Users -> UserPlaces] /\ bpc \in {"idle", "conv"}
    /\ power \in {"on", "asleep", "resuming"}
    /\ suspends \in 0..MaxSuspends /\ kills \in 0..MaxKills

\* mcp_enable() and mcp_disable() are balanced over the codec's users, as far as
\* they are modelled (the audio driver is not): the count is held by the owner of
\* the ADC and by a thread that is about to enable its interrupt, and by no other.
ClockBalanced ==
    mcpUse = (IF adcSem = Nobody THEN 0 ELSE 1) + (IF tpc = "arm" THEN 1 ELSE 0)

\* Who is in the middle of a conversion.
Converting == {u \in Users : upc[u] = "openConv"}
              \cup (IF tpc = "conv" THEN {"ktsd"} ELSE {})
              \cup (IF bpc = "conv" THEN {"battery"} ELSE {})

\* The thread, an open and the battery code share one ADC: nobody starts a
\* conversion before another one has read its result.
AdcExclusive == \A p \in Converting : adcSem = p

\* Opens, closes and kills leave whole sessions behind.  Whoever opens the closed
\* device finds the thread of the last session gone, so that panic("ucb1x00: rtask
\* running?") is never reached; after the last close the interrupt is free and no
\* thread could touch the codec; an open device has a thread, unless root killed it.
SessionsWhole ==
    /\ \A u \in Users : upc[u] # "panic"
    /\ tsSem = Nobody =>
        /\ tsUse = 0 => ~rtask /\ tpc = "none" /\ ~hooked /\ ~fal
        /\ tsUse > 0 /\ kills = 0 => rtask

\* What is measured across a sleep, when the codec cannot be reached, is reported
\* to the users at most in the gap between the wake-up and the codec's callbacks:
\* once ucb1x00_ts_pm() has asked for a restart, a spoilt sample that was being
\* taken, or that the thread kept over its nap, is thrown away.
GarbageOnlyBeforeCallbacks == reported.sample = "garbage" => reported.at = "resuming"

\* ucb1x00_ts_pm(): "Restart the TS thread to ensure the TS interrupt mode is set
\* up again after sleep": a thread that waits for a touch can be woken by one.
PenDetectable ==
    power = "on" /\ tpc = "wait" /\ ~woken /\ ~sig
        => mode = "int" /\ (ieFal \/ status)

\* ... which is so as long as the system has not slept, although the interrupt
\* may come right after the thread has enabled it and before it waits.
PenDetectableUnlessSlept == suspends = 0 => PenDetectable

\* A close comes to an end, whatever the thread is doing when it is killed.
CloseFinishes == \A u \in Users : (upc[u] = "closeWait") ~> (upc[u] = "closed")

\* A touch that the codec has latched ends the thread's wait.
TouchNoticed == (status /\ tpc = "wait") ~> (tpc # "wait")
=============================================================================
