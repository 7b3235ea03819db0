------------------------------ MODULE Cs3Latch ------------------------------
(***************************************************************************)
(* The SIMpad's chip-select-3 latch and all its users in the kernel.       *)
(*                                                                         *)
(* The latch is write only, so arch/arm/mach-sa1100/simpad.c keeps a copy  *)
(* of it, cs3_shadow.  set_cs3_bit() and clear_cs3_bit() change the copy   *)
(* and store it in the latch without disabling interrupts: three steps     *)
(* (load the shadow, store the shadow, store the latch), between any two   *)
(* of which the timer interrupt may run simpad_leds_event(), which calls   *)
(* the same two functions.  The kernel is uniprocessor and not preemptive: *)
(* one process at a time runs kernel code, an interrupt handler runs to    *)
(* its end, and none of the callers sleeps between two calls.              *)
(*                                                                         *)
(* Users: the UART's power management, the MQ200 backlight, the PCMCIA     *)
(* socket (sa1100_simpad.c under sa1100_generic.c), the LED (timer, idle   *)
(* loop, suspend), /proc/cs3 and power-off.                                *)
(***************************************************************************)
EXTENDS Naturals, Sequences

CONSTANTS
    ProcValues,  \* the values a user may write to /proc/cs3
    Vccs         \* the supply voltages Card Services asks for

Bits == {"VCC_5V_EN", "VCC_3V_EN", "EN1", "EN0", "DISPLAY_ON",
         "PCMCIA_BUFF_DIS", "PCMCIA_RESET", "RS232_ON", "SD_MEDIAQ",
         "LED2_ON", "ENABLE_5V", "nRESET_SIMCARD"}

ASSUME ProcValuesAssumption == ProcValues \subseteq SUBSET Bits
ASSUME VccsAssumption == Vccs \subseteq Nat

VARIABLES
    shadow,       \* cs3_shadow
    latch,        \* what the hardware latch holds
    todo,         \* the calls the running process has still to make
    step,         \* where it is in the first of them
    reg,          \* the register that holds the shadow it has loaded
    led,          \* led_state & LED_STATE_ENABLED
    hwLed,        \* hw_led_state
    power,        \* "on", "asleep" or "off"
    socket,       \* is the PCMCIA socket driver initialised?
    csVcc,        \* cs_state.Vcc, what Card Services is told
    irqDepth,     \* disable_depth of the card's interrupt
    irqDisabled,  \* static irq_disabled of simpad_pcmcia_configure_socket()
    irqWanted,    \* history: the irq argument of the latest configuration
    behind,       \* history: has the socket's supply been changed behind
                  \* cs_state's back, by /proc/cs3 or a refused voltage?
    want          \* history: the value if every call so far had been atomic

cs3Vars == <<shadow, latch, todo, step, reg, want>>
ledVars == <<led, hwLed>>
pcmciaVars == <<socket, csVcc, irqDepth, irqDisabled, irqWanted, behind>>
vars == <<cs3Vars, ledVars, pcmciaVars, power>>

LED == {"LED2_ON"}
SocketPower == {"VCC_3V_EN", "VCC_5V_EN", "EN0", "EN1"}

-----------------------------------------------------------------------------
(* Calls a handler makes, in the order in which it makes them.             *)

Call(op, bits, arg) == [op |-> op, bits |-> bits, arg |-> arg]

SetBits(b)   == Call("set", b, 0)      \* set_cs3_bit(b)
ClearBits(b) == Call("clear", b, 0)    \* clear_cs3_bit(b)
WriteAll(b)  == Call("write", b, 0)    \* set_cs3(b)
CardIrq(on)  == Call("irq", {}, IF on THEN 1 ELSE 0)
Remember(v)  == Call("vcc", {}, v)     \* skt->cs_state = ...

\* The value of cs3 after a call, from its value before.
Effect(c, v) ==
    CASE c.op = "set"   -> v \cup c.bits
      [] c.op = "clear" -> v \ c.bits
      [] c.op = "write" -> c.bits
      [] OTHER          -> v

\* simpad_map_io() has run, and nothing else.
BootBits == {"EN1", "EN0", "LED2_ON", "DISPLAY_ON", "RS232_ON", "ENABLE_5V",
             "nRESET_SIMCARD"}

Init ==
    /\ shadow = BootBits /\ latch = BootBits /\ want = BootBits
    /\ todo = <<>> /\ step = "load" /\ reg = {}
    /\ led = FALSE /\ hwLed = FALSE
    /\ power = "on"
    /\ socket = FALSE /\ csVcc = 0
    /\ irqDepth = 0 /\ irqDisabled = FALSE /\ irqWanted = FALSE
    /\ behind = FALSE

-----------------------------------------------------------------------------
(* The running process carries out the first call of todo.                 *)

Idle == todo = <<>>

\* A process enters the kernel through a handler that makes these calls.
Begin(calls) ==
    /\ power = "on" /\ Idle
    /\ todo' = calls
    /\ step' = "load"
    /\ UNCHANGED <<shadow, latch, reg, want>>

Done == todo' = Tail(todo) /\ step' = "load"

CallIs(ops, at) == power = "on" /\ ~Idle /\ Head(todo).op \in ops /\ step = at

\* Mutant: set_cs3_bit() assigns the bits where it should add them.
LoadNothing ==
    /\ CallIs({"set", "clear", "write"}, "load")
    /\ reg' = IF Head(todo).op = "set" THEN Head(todo).bits ELSE Effect(Head(todo), shadow)
    /\ step' = "shadow"
    /\ UNCHANGED <<shadow, latch, todo, want, ledVars, pcmciaVars, power>>

\* Load cs3_shadow (set_cs3() does not need to).
LoadShadow ==
    /\ CallIs({"set", "clear", "write"}, "load")
    /\ reg' = Effect(Head(todo), shadow)
    /\ step' = "shadow"
    /\ UNCHANGED <<shadow, latch, todo, want, ledVars, pcmciaVars, power>>

\* Store the changed value in cs3_shadow.
StoreShadow ==
    /\ CallIs({"set", "clear", "write"}, "shadow")
    /\ shadow' = reg
    /\ step' = "latch"
    /\ UNCHANGED <<latch, todo, reg, want, ledVars, pcmciaVars, power>>

\* Mutant: clear_cs3_bit() updates only the shadow.
StoreLatchIfSet ==
    /\ CallIs({"set", "clear", "write"}, "latch")
    /\ latch' = IF Head(todo).op = "clear" THEN latch ELSE reg
    /\ want' = Effect(Head(todo), want)
    /\ Done
    /\ UNCHANGED <<shadow, reg, ledVars, pcmciaVars, power>>

\* Store it in the latch: the value is still in the register.
StoreLatch ==
    /\ CallIs({"set", "clear", "write"}, "latch")
    /\ latch' = reg
    /\ want' = Effect(Head(todo), want)
    /\ Done
    /\ UNCHANGED <<shadow, reg, ledVars, pcmciaVars, power>>

\* Mutant: enable_irq() does not notice that it is unbalanced.
SetCardIrqUnbalanced ==
    /\ CallIs({"irq"}, "load")
    /\ irqDepth' = IF Head(todo).arg = 1 THEN irqDepth - 1
                   ELSE IF irqDisabled THEN irqDepth ELSE irqDepth + 1
    /\ irqDisabled' = (Head(todo).arg = 0)
    /\ irqWanted' = (Head(todo).arg = 1)
    /\ Done
    /\ UNCHANGED <<shadow, latch, reg, want, ledVars, socket, csVcc, behind, power>>

\* Mutant: every configuration without an interrupt disables it once more.
SetCardIrqUncounted ==
    /\ CallIs({"irq"}, "load")
    /\ IF Head(todo).arg = 1
       THEN irqDepth' = IF irqDepth = 0 THEN 0 ELSE irqDepth - 1
       ELSE irqDepth' = IF irqDepth < 2 THEN irqDepth + 1 ELSE irqDepth
    /\ irqDisabled' = (Head(todo).arg = 0)
    /\ irqWanted' = (Head(todo).arg = 1)
    /\ Done
    /\ UNCHANGED <<shadow, latch, reg, want, ledVars, socket, csVcc, behind, power>>

\* enable_irq() at depth 0 only complains; disable_irq() nests, so the driver
\* remembers that it has disabled the interrupt.
SetCardIrq ==
    /\ CallIs({"irq"}, "load")
    /\ IF Head(todo).arg = 1
       THEN /\ irqDepth' = IF irqDepth = 0 THEN 0 ELSE irqDepth - 1
            /\ irqDisabled' = FALSE
       ELSE IF irqDisabled
            THEN UNCHANGED <<irqDepth, irqDisabled>>
            ELSE irqDepth' = irqDepth + 1 /\ irqDisabled' = TRUE
    /\ irqWanted' = (Head(todo).arg = 1)
    /\ Done
    /\ UNCHANGED <<shadow, latch, reg, want, ledVars, socket, csVcc, behind, power>>

RememberState ==
    /\ CallIs({"vcc"}, "load")
    /\ csVcc' = Head(todo).arg
    /\ behind' = FALSE
    /\ Done
    /\ UNCHANGED <<shadow, latch, reg, want, ledVars, socket, irqDepth,
                   irqDisabled, irqWanted, power>>

Proceed == LoadShadow \/ StoreShadow \/ StoreLatch \/ SetCardIrq \/ RememberState

-----------------------------------------------------------------------------
(* Handlers that run in process context.                                   *)

\* simpad_uart_pm(): the line driver is on in power state 0 only.
UartPm(active) ==
    /\ Begin(<<IF active THEN SetBits({"RS232_ON"}) ELSE ClearBits({"RS232_ON"})>>)
    /\ UNCHANGED <<ledVars, pcmciaVars, power>>

\* mq200_backlight().
Backlight(on) ==
    /\ Begin(<<IF on THEN SetBits({"DISPLAY_ON"}) ELSE ClearBits({"DISPLAY_ON"})>>)
    /\ UNCHANGED <<ledVars, pcmciaVars, power>>

\* proc_cs3_write().
ProcWrite(value) ==
    /\ Begin(<<WriteAll(value)>>)
    /\ behind' = TRUE
    /\ UNCHANGED <<ledVars, socket, csVcc, irqDepth, irqDisabled, irqWanted, power>>

\* What simpad_leds_event() does at its end: hw_led_state plays no part in it.
LedCall(enabled) == IF enabled THEN SetBits(LED) ELSE ClearBits(LED)

\* cpu_idle() reports led_idle_start and led_idle_end: only the end is left.
IdleLoop ==
    /\ led
    /\ Begin(<<LedCall(led)>>)
    /\ UNCHANGED <<ledVars, pcmciaVars, power>>

\* sa1100_leds_init() installs simpad_leds_event() and reports led_start.
LedsInit ==
    /\ ~led
    /\ Begin(<<LedCall(TRUE)>>)
    /\ led' = TRUE /\ hwLed' = TRUE
    /\ UNCHANGED <<pcmciaVars, power>>

\* Mutant: the old supply is switched off only after the new one is on.
PowerCallsSwapped(vcc) ==
    CASE vcc = 33 -> <<SetBits({"VCC_5V_EN", "EN0"}), ClearBits({"VCC_3V_EN", "EN1"})>>
      [] vcc = 50 -> <<SetBits({"VCC_3V_EN", "EN0"}), ClearBits({"VCC_5V_EN", "EN1"})>>
      [] OTHER    -> <<ClearBits(SocketPower)>>

\* simpad_pcmcia_configure_socket(): the supply ...
PowerCalls(vcc) ==
    CASE vcc = 33 -> <<ClearBits({"VCC_3V_EN", "EN1"}), SetBits({"VCC_5V_EN", "EN0"})>>
      [] vcc = 50 -> <<ClearBits({"VCC_5V_EN", "EN1"}), SetBits({"VCC_3V_EN", "EN0"})>>
      [] OTHER    -> <<ClearBits(SocketPower)>>

\* ... and, unless the voltage is unknown, reset, buffers and interrupt.
Known(vcc) == vcc \in {0, 33, 50}

ConfigureCalls(vcc, reset, output, irq) ==
    PowerCalls(vcc) \o
    (IF Known(vcc)
     THEN <<IF reset THEN SetBits({"PCMCIA_RESET"}) ELSE ClearBits({"PCMCIA_RESET"}),
            IF output THEN ClearBits({"PCMCIA_BUFF_DIS"}) ELSE SetBits({"PCMCIA_BUFF_DIS"}),
            CardIrq(irq)>>
     ELSE <<>>)

\* sa1100_pcmcia_set_socket(): cs_state is recorded only if the socket took it.
SetSocket(vcc, reset, output, irq) ==
    /\ socket
    /\ Begin(ConfigureCalls(vcc, reset, output, irq)
             \o (IF Known(vcc) THEN <<Remember(vcc)>> ELSE <<>>))
    /\ behind' = (behind \/ ~Known(vcc))
    /\ UNCHANGED <<ledVars, socket, csVcc, irqDepth, irqDisabled, irqWanted, power>>

\* The configuration of dead_socket.
DeadCalls == ConfigureCalls(0, FALSE, FALSE, FALSE)

\* simpad_pcmcia_init(); the driver gives up if request_irq() fails.
PcmciaInit ==
    /\ ~socket
    /\ Begin(<<ClearBits(SocketPower)>>)
    /\ socket' \in BOOLEAN
    /\ UNCHANGED <<ledVars, csVcc, irqDepth, irqDisabled, irqWanted, behind, power>>

\* sa1100_pcmcia_init(): initialise the socket, or again after a resume.
SocketInit ==
    /\ socket
    /\ Begin(<<Remember(0)>> \o DeadCalls)
    /\ UNCHANGED <<ledVars, pcmciaVars, power>>

\* Mutant: the state of the socket is not recorded when it is suspended.
SocketSuspendForgetful ==
    /\ socket
    /\ Begin(DeadCalls \o <<SetBits({"PCMCIA_RESET"})>>)
    /\ UNCHANGED <<ledVars, pcmciaVars, power>>

\* sa1100_pcmcia_suspend() and simpad_pcmcia_socket_suspend().
SocketSuspend ==
    /\ socket
    /\ Begin(DeadCalls \o <<Remember(0), SetBits({"PCMCIA_RESET"})>>)
    /\ UNCHANGED <<ledVars, pcmciaVars, power>>

\* sa1100_pcmcia_driver_shutdown(): Card Services has turned the socket off;
\* simpad_pcmcia_shutdown() releases the reset line.
PcmciaShutdown ==
    /\ socket /\ csVcc = 0
    /\ Begin(<<ClearBits({"PCMCIA_RESET"})>>)
    /\ socket' = FALSE
    /\ UNCHANGED <<ledVars, csVcc, irqDepth, irqDisabled, irqWanted, behind, power>>

\* The card's driver installs its handler (external): request_irq() starts with
\* the interrupt enabled, whatever its depth was.
CardDriverRequestIrq ==
    /\ power = "on" /\ Idle /\ socket
    /\ irqDepth' = 0
    /\ UNCHANGED <<cs3Vars, ledVars, socket, csVcc, irqDisabled, irqWanted, behind, power>>

\* pm_do_suspend() and simpad_power_off() run with interrupts disabled.
Atomically(c) ==
    /\ shadow' = Effect(c, shadow)
    /\ latch' = shadow'
    /\ want' = Effect(c, want)
    /\ UNCHANGED <<todo, step, reg>>

Suspend ==
    /\ power = "on" /\ Idle /\ led
    /\ power' = "asleep"
    /\ led' = FALSE
    /\ Atomically(LedCall(FALSE))
    /\ UNCHANGED <<hwLed, pcmciaVars>>

Resume ==
    /\ power = "asleep"
    /\ power' = "on"
    /\ led' = TRUE /\ hwLed' = TRUE
    /\ Atomically(LedCall(TRUE))
    /\ UNCHANGED pcmciaVars

PowerOff ==
    /\ power = "on" /\ Idle
    /\ power' = "off"
    /\ Atomically(WriteAll({"SD_MEDIAQ"}))
    /\ UNCHANGED <<ledVars, pcmciaVars>>

-----------------------------------------------------------------------------
(* The timer interrupt: led_timer, every 50 ticks, at any point.           *)

TimerInterrupt ==
    /\ power = "on" /\ led
    /\ hwLed' = ~hwLed
    /\ Atomically(LedCall(led))
    /\ UNCHANGED <<led, pcmciaVars, power>>

Handler ==
    \/ \E b \in BOOLEAN : UartPm(b)
    \/ \E b \in BOOLEAN : Backlight(b)
    \/ \E v \in ProcValues : ProcWrite(v)
    \/ IdleLoop \/ LedsInit
    \/ \E v \in Vccs, reset, output, irq \in BOOLEAN : SetSocket(v, reset, output, irq)
    \/ PcmciaInit \/ SocketInit \/ SocketSuspend \/ PcmciaShutdown
    \/ CardDriverRequestIrq
    \/ Suspend \/ Resume \/ PowerOff

Next == Proceed \/ Handler \/ TimerInterrupt

Spec == Init /\ [][Next]_vars

-----------------------------------------------------------------------------
(* Properties.                                                             *)

Ops == {"set", "clear", "write", "irq", "vcc"}
Calls == [op : Ops, bits : SUBSET Bits, arg : Nat]

\* The types of the latch, its shadow and its users' state.
TypeOK ==
    /\ shadow \in SUBSET Bits /\ latch \in SUBSET Bits
    /\ reg \in SUBSET Bits    /\ want \in SUBSET Bits
    /\ todo \in Seq(Calls)
    /\ step \in {"load", "shadow", "latch"}
    /\ led \in BOOLEAN /\ hwLed \in BOOLEAN
    /\ power \in {"on", "asleep", "off"}
    /\ socket \in BOOLEAN
    /\ csVcc \in Nat /\ irqDepth \in Nat
    /\ irqDisabled \in BOOLEAN /\ irqWanted \in BOOLEAN /\ behind \in BOOLEAN

\* Two values of the latch agree in all bits but the LED's.
AgreeButLed(a, b) == a \ LED = b \ LED

\* set_cs3_bit() and clear_cs3_bit() do not exclude the timer interrupt.  When no
\* call is under way, the latch and the shadow agree all the same, except
\* perhaps in the LED's bit.
LatchFollowsShadow == step = "load" => AgreeButLed(latch, shadow)

\* No update of the latch is lost but for the LED's: the shadow is what it
\* would be if every call had been atomic.
NoLostUpdate == step = "load" => AgreeButLed(shadow, want)

\* The two supply voltages of the PCMCIA socket are never on together, not
\* even while simpad_pcmcia_configure_socket() changes from one to the other
\* and is interrupted.
NeverBothSupplies == ~ ({"VCC_3V_EN", "VCC_5V_EN"} \subseteq latch)

\* disable_irq() nests: if the latest configuration of the socket asked for the
\* card's interrupt, then nothing keeps it disabled.
CardIrqOn == Idle /\ irqWanted => irqDepth = 0

\* "We just remember the state and regurgitate it upon request": the remembered
\* Vcc tells whether the socket is powered, over suspend, re-initialisation and
\* shutdown.  A voltage that the socket refuses turns it off and is not remembered,
\* and /proc/cs3 knows nothing of cs_state: both leave it wrong only until the
\* next configuration that the socket takes.
PowerStatusTrue ==
    power = "on" /\ Idle /\ socket /\ ~behind => (csVcc # 0 <=> "EN0" \in shadow)
=============================================================================
