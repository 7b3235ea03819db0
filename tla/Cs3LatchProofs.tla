--------------------------- MODULE Cs3LatchProofs ----------------------------
(***************************************************************************)
(* Proofs about the CS3 latch, for every set of values written to          *)
(* /proc/cs3 and of voltages Card Services may ask for.                    *)
(***************************************************************************)
EXTENDS Cs3Latch, SequenceTheorems, TLAPS

-----------------------------------------------------------------------------
(* The effect of calls.                                                    *)

\* A call leaves a value of the latch a value of the latch.
LEMMA EffectType ==
    ASSUME NEW c \in Calls, NEW v \in SUBSET Bits
    PROVE  Effect(c, v) \in SUBSET Bits
BY DEF Effect, Calls

\* What set_cs3_bit(), clear_cs3_bit() and set_cs3() do to the other bits does
\* not depend on the LED's bit.
LEMMA EffectIgnoresLed ==
    ASSUME NEW c \in Calls, NEW v \in SUBSET Bits, NEW w \in SUBSET Bits,
           AgreeButLed(v, w)
    PROVE  AgreeButLed(Effect(c, v), Effect(c, w))
<1>1. CASE c.op = "set"   BY <1>1 DEF Effect, AgreeButLed
<1>2. CASE c.op = "clear" BY <1>2 DEF Effect, AgreeButLed
<1>3. CASE c.op = "write" BY <1>3 DEF Effect, AgreeButLed
<1>4. CASE c.op \notin {"set", "clear", "write"}
  BY <1>4 DEF Effect, AgreeButLed
<1>5. QED BY <1>1, <1>2, <1>3, <1>4

\* simpad_leds_event() changes nothing but the LED's bit.
LEMMA LedCallIsLocal ==
    ASSUME NEW on \in BOOLEAN, NEW v \in SUBSET Bits
    PROVE  /\ LedCall(on) \in Calls
           /\ AgreeButLed(Effect(LedCall(on), v), v)
<1>1. LED \subseteq Bits BY DEF LED, Bits
<1>2. CASE on
  BY <1>1, <1>2 DEF LedCall, SetBits, Call, Calls, Ops, Effect, AgreeButLed
<1>3. CASE ~on
  BY <1>1, <1>3 DEF LedCall, ClearBits, Call, Calls, Ops, Effect, AgreeButLed
<1>4. QED BY <1>2, <1>3

-----------------------------------------------------------------------------
(* The calls of the handlers.                                              *)

\* Each call a handler can make is one the running process can carry out.
LEMMA CallsType ==
    /\ \A b \in SUBSET Bits : SetBits(b) \in Calls /\ ClearBits(b) \in Calls
                              /\ WriteAll(b) \in Calls
    /\ \A on \in BOOLEAN : CardIrq(on) \in Calls
    /\ \A v \in Nat : Remember(v) \in Calls
BY DEF SetBits, ClearBits, WriteAll, CardIrq, Remember, Call, Calls, Ops

\* simpad_pcmcia_configure_socket() and its callers make such calls.
LEMMA ConfigureType ==
    ASSUME NEW vcc \in Nat, NEW reset \in BOOLEAN, NEW output \in BOOLEAN,
           NEW irq \in BOOLEAN
    PROVE  ConfigureCalls(vcc, reset, output, irq) \in Seq(Calls)
<1>1. PowerCalls(vcc) \in Seq(Calls)
  <2>1. /\ ClearBits({"VCC_3V_EN", "EN1"}) \in Calls
        /\ SetBits({"VCC_5V_EN", "EN0"}) \in Calls
        /\ ClearBits({"VCC_5V_EN", "EN1"}) \in Calls
        /\ SetBits({"VCC_3V_EN", "EN0"}) \in Calls
        /\ ClearBits(SocketPower) \in Calls
    BY CallsType DEF SocketPower, Bits
  <2>2. CASE vcc = 33 BY <2>1, <2>2 DEF PowerCalls
  <2>3. CASE vcc = 50 BY <2>1, <2>3 DEF PowerCalls
  <2>4. CASE vcc \notin {33, 50} BY <2>1, <2>4 DEF PowerCalls
  <2>5. QED BY <2>2, <2>3, <2>4
<1>2. /\ SetBits({"PCMCIA_RESET"}) \in Calls /\ ClearBits({"PCMCIA_RESET"}) \in Calls
      /\ SetBits({"PCMCIA_BUFF_DIS"}) \in Calls /\ ClearBits({"PCMCIA_BUFF_DIS"}) \in Calls
      /\ CardIrq(irq) \in Calls
  BY CallsType DEF Bits
<1>3. QED BY <1>1, <1>2 DEF ConfigureCalls

\* The calls that take a socket out of use are well typed.
LEMMA DeadType == DeadCalls \in Seq(Calls)
BY ConfigureType DEF DeadCalls

-----------------------------------------------------------------------------
(* The inductive invariant.                                                *)

\* The running process has a call to make when it is in the middle of one.
InCall == step # "load" => todo # <<>>

\* In the middle of a call the register holds what the call makes of the value
\* all calls before it have produced; the LED's bit aside, the interrupt can
\* have changed none of them.
Coherent ==
    /\ step = "load" => AgreeButLed(latch, shadow) /\ AgreeButLed(shadow, want)
    /\ step = "shadow" => /\ AgreeButLed(latch, shadow) /\ AgreeButLed(shadow, want)
                          /\ AgreeButLed(reg, Effect(Head(todo), want))
    /\ step = "latch" => /\ AgreeButLed(shadow, reg)
                         /\ AgreeButLed(reg, Effect(Head(todo), want))

\* The card's interrupt is disabled once if irq_disabled is set, else not at all.
IrqBalanced ==
    /\ irqDisabled => irqDepth <= 1
    /\ ~irqDisabled => irqDepth = 0
    /\ irqWanted => ~irqDisabled

\* The invariant by the variables it is about.
Cs3Type == /\ shadow \in SUBSET Bits /\ latch \in SUBSET Bits
           /\ reg \in SUBSET Bits    /\ want \in SUBSET Bits
           /\ todo \in Seq(Calls)
           /\ step \in {"load", "shadow", "latch"}
Cs3Inv == Cs3Type /\ InCall /\ Coherent

LedType == led \in BOOLEAN /\ hwLed \in BOOLEAN /\ power \in {"on", "asleep", "off"}

SocketType == /\ socket \in BOOLEAN
              /\ csVcc \in Nat /\ irqDepth \in Nat
              /\ irqDisabled \in BOOLEAN /\ irqWanted \in BOOLEAN
              /\ behind \in BOOLEAN
SocketInv == SocketType /\ IrqBalanced

Inv == Cs3Inv /\ LedType /\ SocketInv

\* The inductive invariant holds when simpad_map_io() has run.
LEMMA InitInv == Init => Inv
<1> SUFFICES ASSUME Init PROVE Inv OBVIOUS
<1>1. Cs3Inv
  <2>1. BootBits \in SUBSET Bits BY DEF BootBits, Bits
  <2>2. Cs3Type BY <2>1 DEF Init, Cs3Type
  <2>3. InCall /\ Coherent BY DEF Init, InCall, Coherent, AgreeButLed
  <2>4. QED BY <2>2, <2>3 DEF Cs3Inv
<1>2. LedType BY DEF Init, LedType
<1>3. SocketInv BY DEF Init, SocketInv, SocketType, IrqBalanced
<1>4. QED BY <1>1, <1>2, <1>3 DEF Inv

-----------------------------------------------------------------------------
(* What changes the latch preserves its part of the invariant.             *)

\* A handler that starts with a list of calls.
LEMMA BeginCs3 ==
    ASSUME Cs3Inv, NEW calls \in Seq(Calls), Begin(calls)
    PROVE  Cs3Inv'
<1>1. todo = <<>> /\ step = "load" /\ step' = "load" /\ todo' = calls
  BY DEF Cs3Inv, InCall, Begin, Idle
<1>2. UNCHANGED <<shadow, latch, reg, want>> BY DEF Begin
<1>3. Cs3Type' BY <1>1, <1>2 DEF Cs3Inv, Cs3Type
<1>4. InCall' /\ Coherent'
  BY <1>1, <1>2 DEF Cs3Inv, InCall, Coherent, AgreeButLed
<1>5. QED BY <1>3, <1>4 DEF Cs3Inv

\* The timer interrupt, at any point of a call.
LEMMA LedAtomicallyCs3 ==
    ASSUME Cs3Inv, NEW on \in BOOLEAN, Atomically(LedCall(on))
    PROVE  Cs3Inv'
<1> DEFINE c == LedCall(on)
<1>1. c \in Calls BY LedCallIsLocal DEF Cs3Inv, Cs3Type
<1>2. /\ shadow' = Effect(c, shadow) /\ latch' = shadow' /\ want' = Effect(c, want)
      /\ UNCHANGED <<todo, step, reg>>
  BY DEF Atomically
<1> HIDE DEF c
<1>3. Cs3Type' BY <1>1, <1>2, EffectType DEF Cs3Inv, Cs3Type
<1>4. AgreeButLed(shadow', shadow) /\ AgreeButLed(want', want) /\ AgreeButLed(latch', shadow)
  BY <1>2, LedCallIsLocal DEF Cs3Inv, Cs3Type, c
<1>5. InCall' BY <1>2 DEF Cs3Inv, InCall
<1>6. CASE step = "load"
  BY <1>2, <1>3, <1>4, <1>5, <1>6 DEF Cs3Inv, Coherent, AgreeButLed
<1>7. CASE step # "load"
  <2>1. Head(todo) \in Calls
    BY <1>7, HeadTailProperties DEF Cs3Inv, Cs3Type, InCall
  <2>2. AgreeButLed(Effect(Head(todo), want'), Effect(Head(todo), want))
    BY <2>1, <1>3, <1>4, EffectIgnoresLed DEF Cs3Inv, Cs3Type
  <2>3. CASE step = "shadow"
    <3>1. Coherent'
      BY <1>2, <1>4, <2>2, <2>3 DEF Cs3Inv, Coherent, AgreeButLed
    <3>2. QED BY <1>3, <1>5, <3>1 DEF Cs3Inv
  <2>4. CASE step = "latch"
    <3>1. Coherent'
      BY <1>2, <1>4, <2>2, <2>4 DEF Cs3Inv, Coherent, AgreeButLed
    <3>2. QED BY <1>3, <1>5, <3>1 DEF Cs3Inv
  <2>5. QED BY <1>7, <2>3, <2>4 DEF Cs3Inv, Cs3Type
<1>8. QED BY <1>6, <1>7

\* The last assignment before the power goes off.
LEMMA WriteAtomicallyCs3 ==
    ASSUME Cs3Inv, Idle, Atomically(WriteAll({"SD_MEDIAQ"}))
    PROVE  Cs3Inv'
<1>1. step = "load" BY DEF Cs3Inv, Cs3Type, InCall, Idle
<1>2. Effect(WriteAll({"SD_MEDIAQ"}), shadow) = {"SD_MEDIAQ"}
      /\ Effect(WriteAll({"SD_MEDIAQ"}), want) = {"SD_MEDIAQ"}
  BY DEF Effect, WriteAll, Call
<1>3. /\ shadow' = {"SD_MEDIAQ"} /\ latch' = {"SD_MEDIAQ"} /\ want' = {"SD_MEDIAQ"}
      /\ UNCHANGED <<todo, step, reg>>
  BY <1>2 DEF Atomically
<1>4. {"SD_MEDIAQ"} \in SUBSET Bits BY DEF Bits
<1>5. Cs3Type' BY <1>3, <1>4 DEF Cs3Inv, Cs3Type
<1>6. InCall' /\ Coherent' BY <1>1, <1>3 DEF InCall, Coherent, AgreeButLed
<1>7. QED BY <1>5, <1>6 DEF Cs3Inv

\* The steps of one call.
LEMMA ProceedCs3 ==
    ASSUME Cs3Inv, LoadShadow \/ StoreShadow \/ StoreLatch
    PROVE  Cs3Inv'
<1>1. /\ todo # <<>> /\ Head(todo) \in Calls /\ Tail(todo) \in Seq(Calls)
      /\ shadow \in SUBSET Bits /\ latch \in SUBSET Bits
      /\ reg \in SUBSET Bits /\ want \in SUBSET Bits
  BY HeadTailProperties
     DEF Cs3Inv, Cs3Type, LoadShadow, StoreShadow, StoreLatch, CallIs, Idle
<1>2. CASE LoadShadow
  <2>1. /\ step = "load" /\ step' = "shadow" /\ reg' = Effect(Head(todo), shadow)
        /\ UNCHANGED <<shadow, latch, todo, want>>
    BY <1>2 DEF LoadShadow, CallIs
  <2>2. AgreeButLed(latch, shadow) /\ AgreeButLed(shadow, want)
    BY <2>1 DEF Cs3Inv, Coherent
  <2>3. AgreeButLed(reg', Effect(Head(todo), want))
    BY <1>1, <2>1, <2>2, EffectIgnoresLed
  <2>4. Cs3Type' BY <1>1, <2>1, EffectType DEF Cs3Inv, Cs3Type
  <2>5. InCall' /\ Coherent'
    BY <1>1, <2>1, <2>2, <2>3 DEF InCall, Coherent, AgreeButLed
  <2>6. QED BY <2>4, <2>5 DEF Cs3Inv
<1>3. CASE StoreShadow
  <2>1. /\ step = "shadow" /\ step' = "latch" /\ shadow' = reg
        /\ UNCHANGED <<latch, todo, reg, want>>
    BY <1>3 DEF StoreShadow, CallIs
  <2>2. Cs3Type' BY <1>1, <2>1 DEF Cs3Inv, Cs3Type
  <2>3. InCall' /\ Coherent'
    BY <1>1, <2>1 DEF Cs3Inv, InCall, Coherent, AgreeButLed
  <2>4. QED BY <2>2, <2>3 DEF Cs3Inv
<1>4. CASE StoreLatch
  <2>1. /\ step = "latch" /\ step' = "load" /\ latch' = reg
        /\ want' = Effect(Head(todo), want) /\ todo' = Tail(todo)
        /\ UNCHANGED <<shadow, reg>>
    BY <1>4 DEF StoreLatch, CallIs, Done
  <2>2. Cs3Type' BY <1>1, <2>1, EffectType DEF Cs3Inv, Cs3Type
  <2>3. InCall' /\ Coherent'
    BY <1>1, <2>1 DEF Cs3Inv, InCall, Coherent, AgreeButLed
  <2>4. QED BY <2>2, <2>3 DEF Cs3Inv
<1>5. QED BY <1>2, <1>3, <1>4

\* A call that does not touch the latch is done with.
LEMMA OtherCallCs3 ==
    ASSUME Cs3Inv, todo # <<>>, step = "load", Done,
           UNCHANGED <<shadow, latch, reg, want>>
    PROVE  Cs3Inv'
<1>1. Tail(todo) \in Seq(Calls) BY HeadTailProperties DEF Cs3Inv, Cs3Type
<1>2. Cs3Type' BY <1>1 DEF Done, Cs3Inv, Cs3Type
<1>3. InCall' /\ Coherent' BY DEF Done, Cs3Inv, InCall, Coherent, AgreeButLed
<1>4. QED BY <1>2, <1>3 DEF Cs3Inv

-----------------------------------------------------------------------------
(* Every step preserves the invariant.                                     *)

\* What the handlers of the socket ask for.
LEMMA HandlerCalls ==
    /\ \A v \in Vccs, reset, output, irq \in BOOLEAN :
          ConfigureCalls(v, reset, output, irq)
             \o (IF Known(v) THEN <<Remember(v)>> ELSE <<>>) \in Seq(Calls)
    /\ <<ClearBits(SocketPower)>> \in Seq(Calls)
    /\ <<Remember(0)>> \o DeadCalls \in Seq(Calls)
    /\ DeadCalls \o <<Remember(0), SetBits({"PCMCIA_RESET"})>> \in Seq(Calls)
    /\ <<ClearBits({"PCMCIA_RESET"})>> \in Seq(Calls)
<1>1. /\ ClearBits(SocketPower) \in Calls /\ SetBits({"PCMCIA_RESET"}) \in Calls
      /\ ClearBits({"PCMCIA_RESET"}) \in Calls
  BY CallsType DEF SocketPower, Bits
<1>2. Remember(0) \in Calls BY CallsType
<1>3. ASSUME NEW v \in Vccs, NEW reset \in BOOLEAN, NEW output \in BOOLEAN,
             NEW irq \in BOOLEAN
      PROVE  ConfigureCalls(v, reset, output, irq)
                \o (IF Known(v) THEN <<Remember(v)>> ELSE <<>>) \in Seq(Calls)
  <2>1. v \in Nat BY VccsAssumption
  <2>2. Remember(v) \in Calls BY <2>1, CallsType
  <2>3. ConfigureCalls(v, reset, output, irq) \in Seq(Calls) BY <2>1, ConfigureType
  <2>4. QED BY <2>2, <2>3
<1>4. QED BY <1>1, <1>2, <1>3, DeadType

\* Every handler, every step of a call and the timer interrupt preserve it.
LEMMA NextInv == Inv /\ [Next]_vars => Inv'
<1> SUFFICES ASSUME Inv, [Next]_vars PROVE Inv' OBVIOUS
<1>1. CASE UNCHANGED vars
  <2>1. Cs3Inv'
    BY <1>1 DEF Inv, vars, cs3Vars, Cs3Inv, Cs3Type, InCall, Coherent, AgreeButLed
  <2>2. LedType' BY <1>1 DEF Inv, vars, ledVars, LedType
  <2>3. SocketInv'
    BY <1>1 DEF Inv, vars, pcmciaVars, SocketInv, SocketType, IrqBalanced
  <2>4. QED BY <2>1, <2>2, <2>3 DEF Inv
<1>2. CASE LoadShadow \/ StoreShadow \/ StoreLatch
  <2>1. Cs3Inv' BY <1>2, ProceedCs3 DEF Inv
  <2>2. UNCHANGED <<ledVars, pcmciaVars, power>>
    BY <1>2 DEF LoadShadow, StoreShadow, StoreLatch
  <2>3. LedType' BY <2>2 DEF Inv, ledVars, LedType
  <2>4. SocketInv' BY <2>2 DEF Inv, pcmciaVars, SocketInv, SocketType, IrqBalanced
  <2>5. QED BY <2>1, <2>3, <2>4 DEF Inv
<1>3. CASE SetCardIrq
  <2>1. Cs3Inv' BY <1>3, OtherCallCs3 DEF Inv, SetCardIrq, CallIs, Idle
  <2>2. LedType' BY <1>3 DEF SetCardIrq, ledVars, Inv, LedType
  <2>3. SocketType /\ IrqBalanced BY DEF Inv, SocketInv
  <2>4. UNCHANGED <<socket, csVcc, behind>> BY <1>3 DEF SetCardIrq
  <2>5. CASE Head(todo).arg = 1
    <3>1. irqDepth' = 0 /\ irqDisabled' = FALSE /\ irqWanted' \in BOOLEAN
      BY <1>3, <2>3, <2>5 DEF SetCardIrq, SocketType, IrqBalanced
    <3>2. QED BY <2>1, <2>2, <2>3, <2>4, <3>1
             DEF Inv, SocketInv, SocketType, IrqBalanced
  <2>6. CASE Head(todo).arg # 1
    <3>1. irqDepth' \in Nat /\ irqDepth' <= 1 /\ irqDisabled' = TRUE /\ irqWanted' = FALSE
      BY <1>3, <2>3, <2>6 DEF SetCardIrq, SocketType, IrqBalanced
    <3>2. QED BY <2>1, <2>2, <2>3, <2>4, <3>1
             DEF Inv, SocketInv, SocketType, IrqBalanced
  <2>7. QED BY <2>5, <2>6
<1>4. CASE RememberState
  <2>1. Cs3Inv' BY <1>4, OtherCallCs3 DEF Inv, RememberState, CallIs, Idle
  <2>2. LedType' BY <1>4 DEF RememberState, ledVars, Inv, LedType
  <2>3. Head(todo).arg \in Nat
    <3>1. Head(todo) \in Calls
      BY <1>4, HeadTailProperties DEF RememberState, CallIs, Idle, Inv, Cs3Inv, Cs3Type
    <3>2. QED BY <3>1 DEF Calls
  <2>4. SocketInv'
    BY <1>4, <2>3 DEF RememberState, Inv, SocketInv, SocketType, IrqBalanced
  <2>5. QED BY <2>1, <2>2, <2>4 DEF Inv
<1>5. ASSUME NEW calls \in Seq(Calls), Begin(calls), LedType',
             socket' \in BOOLEAN, behind' \in BOOLEAN,
             UNCHANGED <<csVcc, irqDepth, irqDisabled, irqWanted>>
      PROVE  Inv'
  <2>1. Cs3Inv' BY <1>5, BeginCs3 DEF Inv
  <2>2. SocketInv' BY <1>5 DEF Inv, SocketInv, SocketType, IrqBalanced
  <2>3. QED BY <1>5, <2>1, <2>2 DEF Inv
<1>6. ASSUME NEW c \in Calls, Begin(<<c>>), UNCHANGED <<pcmciaVars, power>>,
             led' \in BOOLEAN, hwLed' \in BOOLEAN
      PROVE  Inv'
  <2>1. LedType' BY <1>6 DEF Inv, LedType
  <2>2. socket' \in BOOLEAN /\ behind' \in BOOLEAN
    BY <1>6 DEF Inv, SocketInv, SocketType, pcmciaVars
  <2>3. <<c>> \in Seq(Calls) OBVIOUS
  <2>4. QED BY <1>5, <1>6, <2>1, <2>2, <2>3 DEF pcmciaVars
<1>7. ASSUME NEW b \in BOOLEAN, UartPm(b) \/ Backlight(b) PROVE Inv'
  <2>1. /\ SetBits({"RS232_ON"}) \in Calls /\ ClearBits({"RS232_ON"}) \in Calls
        /\ SetBits({"DISPLAY_ON"}) \in Calls /\ ClearBits({"DISPLAY_ON"}) \in Calls
    BY CallsType DEF Bits
  <2>2. led' \in BOOLEAN /\ hwLed' \in BOOLEAN /\ UNCHANGED <<pcmciaVars, power>>
    BY <1>7 DEF UartPm, Backlight, ledVars, Inv, LedType
  <2>3. \E c \in Calls : Begin(<<c>>) BY <1>7, <2>1 DEF UartPm, Backlight
  <2>4. QED BY <1>6, <2>2, <2>3
<1>8. ASSUME NEW v \in ProcValues, ProcWrite(v) PROVE Inv'
  <2>1. WriteAll(v) \in Calls BY CallsType, ProcValuesAssumption
  <2>2. <<WriteAll(v)>> \in Seq(Calls) BY <2>1
  <2>3. LedType' BY <1>8 DEF ProcWrite, ledVars, Inv, LedType
  <2>4. socket' \in BOOLEAN /\ behind' \in BOOLEAN
        /\ UNCHANGED <<csVcc, irqDepth, irqDisabled, irqWanted>>
    BY <1>8 DEF ProcWrite, Inv, SocketInv, SocketType
  <2>5. Begin(<<WriteAll(v)>>) BY <1>8 DEF ProcWrite
  <2>6. QED BY <1>5, <2>2, <2>3, <2>4, <2>5
<1>9. CASE IdleLoop \/ LedsInit
  <2>1. LedCall(led) \in Calls /\ LedCall(TRUE) \in Calls
    BY LedCallIsLocal DEF Inv, LedType
  <2>2. led' \in BOOLEAN /\ hwLed' \in BOOLEAN /\ UNCHANGED <<pcmciaVars, power>>
    BY <1>9 DEF IdleLoop, LedsInit, ledVars, Inv, LedType
  <2>3. \E c \in Calls : Begin(<<c>>) BY <1>9, <2>1 DEF IdleLoop, LedsInit
  <2>4. QED BY <1>6, <2>2, <2>3
<1>10. ASSUME NEW v \in Vccs, NEW reset \in BOOLEAN, NEW output \in BOOLEAN,
              NEW irq \in BOOLEAN, SetSocket(v, reset, output, irq)
       PROVE  Inv'
  <2>1. LedType' BY <1>10 DEF SetSocket, ledVars, Inv, LedType
  <2>2. socket' \in BOOLEAN /\ behind' \in BOOLEAN
        /\ UNCHANGED <<csVcc, irqDepth, irqDisabled, irqWanted>>
    BY <1>10 DEF SetSocket, pcmciaVars, Inv, SocketInv, SocketType
  <2>3. QED BY <1>5, <1>10, <2>1, <2>2, HandlerCalls DEF SetSocket
<1>11. CASE PcmciaInit \/ SocketInit \/ SocketSuspend \/ PcmciaShutdown
  <2>1. LedType'
    BY <1>11 DEF PcmciaInit, SocketInit, SocketSuspend, PcmciaShutdown, ledVars, Inv, LedType
  <2>2. socket' \in BOOLEAN /\ behind' \in BOOLEAN
        /\ UNCHANGED <<csVcc, irqDepth, irqDisabled, irqWanted>>
    BY <1>11 DEF PcmciaInit, SocketInit, SocketSuspend, PcmciaShutdown, pcmciaVars,
                 Inv, SocketInv, SocketType
  <2>3. \E calls \in Seq(Calls) : Begin(calls)
    BY <1>11, HandlerCalls DEF PcmciaInit, SocketInit, SocketSuspend, PcmciaShutdown
  <2>4. QED BY <1>5, <2>1, <2>2, <2>3
<1>12. CASE CardDriverRequestIrq
  <2>1. Cs3Inv'
    BY <1>12 DEF CardDriverRequestIrq, cs3Vars, Inv, Cs3Inv, Cs3Type, InCall, Coherent,
                 AgreeButLed
  <2>2. LedType' BY <1>12 DEF CardDriverRequestIrq, ledVars, Inv, LedType
  <2>3. SocketInv'
    <3>1. irqDepth' = 0 /\ UNCHANGED <<socket, csVcc, irqDisabled, irqWanted, behind>>
      BY <1>12 DEF CardDriverRequestIrq
    <3>2. SocketType' BY <3>1 DEF Inv, SocketInv, SocketType
    <3>3. irqDepth' <= 1 /\ (irqWanted' => ~irqDisabled')
      BY <3>1 DEF Inv, SocketInv, IrqBalanced
    <3>4. QED BY <3>1, <3>2, <3>3 DEF SocketInv, IrqBalanced
  <2>4. QED BY <2>1, <2>2, <2>3 DEF Inv
<1>13. CASE Suspend \/ Resume \/ TimerInterrupt
  <2>1. \E on \in BOOLEAN : Atomically(LedCall(on))
    BY <1>13 DEF Suspend, Resume, TimerInterrupt, Inv, LedType
  <2>2. Cs3Inv' BY <2>1, LedAtomicallyCs3 DEF Inv
  <2>3. LedType' BY <1>13 DEF Suspend, Resume, TimerInterrupt, Inv, LedType
  <2>4. UNCHANGED pcmciaVars BY <1>13 DEF Suspend, Resume, TimerInterrupt
  <2>5. SocketInv' BY <2>4 DEF pcmciaVars, Inv, SocketInv, SocketType, IrqBalanced
  <2>6. QED BY <2>2, <2>3, <2>5 DEF Inv
<1>14. CASE PowerOff
  <2>1. Cs3Inv' BY <1>14, WriteAtomicallyCs3 DEF PowerOff, Inv
  <2>2. LedType' BY <1>14 DEF PowerOff, ledVars, Inv, LedType
  <2>3. SocketInv' BY <1>14 DEF PowerOff, pcmciaVars, Inv, SocketInv, SocketType, IrqBalanced
  <2>4. QED BY <2>1, <2>2, <2>3 DEF Inv
<1>15. QED
  BY <1>1, <1>2, <1>3, <1>4, <1>7, <1>8, <1>9, <1>10, <1>11, <1>12, <1>13, <1>14
     DEF Next, Proceed, Handler

\* The invariant holds throughout.
THEOREM Invariance == Spec => []Inv
BY InitInv, NextInv, PTL DEF Spec

-----------------------------------------------------------------------------
(* The properties of Cs3Latch.                                             *)

\* The latch, its shadow and its users' state keep their types.
THEOREM TypeCorrect == Spec => []TypeOK
<1>1. Inv => TypeOK
  BY DEF Inv, Cs3Inv, Cs3Type, LedType, SocketInv, SocketType, TypeOK
<1>2. QED BY Invariance, <1>1, PTL

\* When no call is under way, latch and shadow agree except in the LED's bit,
\* wherever the timer interrupts have struck.
THEOREM LatchFollowsShadowAlways == Spec => []LatchFollowsShadow
<1>1. Inv => LatchFollowsShadow BY DEF Inv, Cs3Inv, Coherent, LatchFollowsShadow
<1>2. QED BY Invariance, <1>1, PTL

\* No update of a bit other than the LED's is lost to an interrupt.
THEOREM NoUpdateIsLost == Spec => []NoLostUpdate
<1>1. Inv => NoLostUpdate BY DEF Inv, Cs3Inv, Coherent, NoLostUpdate
<1>2. QED BY Invariance, <1>1, PTL

\* Whatever sequence of configurations the socket goes through, a card that was
\* given its interrupt has it.
THEOREM CardIrqIsOn == Spec => []CardIrqOn
<1>1. Inv => CardIrqOn
  BY DEF Inv, SocketInv, SocketType, IrqBalanced, CardIrqOn
<1>2. QED BY Invariance, <1>1, PTL

-----------------------------------------------------------------------------
(* The two supplies.  A handler switches one on only right after it has    *)
(* switched the other one off, and none of the calls that others may make  *)
(* in between switches a supply on: none is made but the LED's.            *)

Supplies == {"VCC_3V_EN", "VCC_5V_EN"}
OtherSupply(s) == IF s = "VCC_3V_EN" THEN "VCC_5V_EN" ELSE "VCC_3V_EN"

One(v) == ~ (Supplies \subseteq v)

\* The values that root writes to /proc/cs3 do not ask for both.
OneInProc == \A v \in ProcValues : One(v)

Harmless(c) ==
    /\ c.op = "set" => c.bits \cap Supplies = {}
    /\ c.op = "write" => One(c.bits)
TurnsOn(c, s)  == c.op = "set" /\ c.bits \cap Supplies = {s}
TurnsOff(c, s) == c.op = "clear" /\ s \in c.bits

\* v is the value before the first of the calls.
SwitchedOver(calls, v) ==
    \A i \in 1..Len(calls) :
        \/ Harmless(calls[i])
        \/ \E s \in Supplies :
              /\ TurnsOn(calls[i], s)
              /\ i = 1 => OtherSupply(s) \notin v
              /\ i > 1 => TurnsOff(calls[i - 1], OtherSupply(s))

SupplyInv == One(want) /\ One(latch) /\ SwitchedOver(todo, want)

\* The LED's bit is no supply.
LEMMA SuppliesIgnoreLed ==
    ASSUME NEW v, NEW w, AgreeButLed(v, w)
    PROVE  /\ One(v) => One(w)
           /\ \A s \in Supplies : s \in v <=> s \in w
<1>1. \A s \in Supplies : s \notin LED BY DEF Supplies, LED
<1>2. \A s \in Supplies : s \in v <=> s \in w BY <1>1 DEF AgreeButLed
<1>3. QED BY <1>2 DEF One

\* A supply and the other one are all there are.
LEMMA TwoSupplies ==
    ASSUME NEW s \in Supplies, NEW v
    PROVE  /\ OtherSupply(s) \in Supplies
           /\ One(v) <=> s \notin v \/ OtherSupply(s) \notin v
BY DEF Supplies, OtherSupply, One

\* The first call leaves at most one supply on.
LEMMA FirstCallOne ==
    ASSUME NEW calls \in Seq(Calls), calls # <<>>, NEW v \in SUBSET Bits,
           One(v), SwitchedOver(calls, v)
    PROVE  One(Effect(Head(calls), v))
<1> DEFINE c == Head(calls)
<1>1. c = calls[1] /\ c \in Calls /\ 1 \in 1..Len(calls)
  BY HeadTailProperties, EmptySeq
<1> HIDE DEF c
<1>2. CASE Harmless(c)
  BY <1>1, <1>2 DEF Effect, Harmless, Calls, One, c
<1>3. ASSUME NEW s \in Supplies, TurnsOn(c, s), OtherSupply(s) \notin v
      PROVE  One(Effect(c, v))
  <2>1. Effect(c, v) = v \cup c.bits BY <1>3 DEF Effect, TurnsOn
  <2>2. OtherSupply(s) # s BY DEF Supplies, OtherSupply
  <2>3. OtherSupply(s) \notin c.bits BY <1>3, <2>2, TwoSupplies DEF TurnsOn
  <2>4. QED BY <1>3, <2>1, <2>3, TwoSupplies
<1>4. QED BY <1>1, <1>2, <1>3 DEF SwitchedOver, c

\* When the first call is done, the rest is as it should be.
LEMMA TailSwitchedOver ==
    ASSUME NEW calls \in Seq(Calls), calls # <<>>, NEW v \in SUBSET Bits,
           SwitchedOver(calls, v)
    PROVE  SwitchedOver(Tail(calls), Effect(Head(calls), v))
<1> DEFINE t == Tail(calls)
<1>1. /\ Head(calls) = calls[1] /\ Len(t) = Len(calls) - 1 /\ Len(calls) \in Nat
      /\ \A i \in 1..Len(t) : t[i] = calls[i + 1]
  BY HeadTailProperties, EmptySeq
<1> HIDE DEF t
<1>2. ASSUME NEW i \in 1..Len(t), ~Harmless(t[i])
      PROVE  \E s \in Supplies :
                /\ TurnsOn(t[i], s)
                /\ i = 1 => OtherSupply(s) \notin Effect(calls[1], v)
                /\ i > 1 => TurnsOff(t[i - 1], OtherSupply(s))
  <2>1. i + 1 \in 1..Len(calls) /\ i + 1 > 1 /\ (i + 1) - 1 = i BY <1>1
  <2>2. PICK s \in Supplies : TurnsOn(calls[i + 1], s) /\ TurnsOff(calls[i], OtherSupply(s))
    BY <1>1, <1>2, <2>1 DEF SwitchedOver
  <2>3. i = 1 => OtherSupply(s) \notin Effect(calls[1], v)
    BY <2>2 DEF TurnsOff, Effect
  <2>4. i > 1 => t[i - 1] = calls[i] BY <1>1
  <2>5. QED BY <1>1, <2>2, <2>3, <2>4
<1>3. SwitchedOver(t, Effect(calls[1], v)) BY <1>2 DEF SwitchedOver
<1>4. QED BY <1>1, <1>3 DEF t

\* Harmless calls may follow.
LEMMA HarmlessFollow ==
    ASSUME NEW a \in Seq(Calls), NEW b \in Seq(Calls), NEW v, SwitchedOver(a, v),
           \A i \in 1..Len(b) : Harmless(b[i])
    PROVE  SwitchedOver(a \o b, v)
<1> DEFINE ab == a \o b
<1>1. /\ Len(ab) = Len(a) + Len(b) /\ Len(a) \in Nat /\ Len(b) \in Nat
      /\ \A i \in 1..Len(a) : ab[i] = a[i]
      /\ \A i \in 1..Len(ab) : i > Len(a) => ab[i] = b[i - Len(a)]
  BY ConcatProperties
<1> HIDE DEF ab
<1>2. ASSUME NEW i \in 1..Len(ab), i > Len(a) PROVE Harmless(ab[i])
  <2>1. i - Len(a) \in 1..Len(b) BY <1>1, <1>2
  <2>2. QED BY <1>1, <1>2, <2>1
<1>3. ASSUME NEW i \in 1..Len(ab), i <= Len(a), ~Harmless(ab[i])
      PROVE  \E s \in Supplies :
                /\ TurnsOn(ab[i], s)
                /\ i = 1 => OtherSupply(s) \notin v
                /\ i > 1 => TurnsOff(ab[i - 1], OtherSupply(s))
  <2>1. i \in 1..Len(a) /\ (i > 1 => i - 1 \in 1..Len(a)) BY <1>1, <1>3
  <2>2. ab[i] = a[i] /\ (i > 1 => ab[i - 1] = a[i - 1]) BY <1>1, <2>1
  <2>3. QED BY <1>3, <2>1, <2>2 DEF SwitchedOver
<1>4. SwitchedOver(ab, v) BY <1>1, <1>2, <1>3 DEF SwitchedOver
<1>5. QED BY <1>4 DEF ab

\* Calls that are all harmless are as they should be.
LEMMA AllHarmless ==
    ASSUME NEW calls, \A i \in 1..Len(calls) : Harmless(calls[i]), NEW v
    PROVE  SwitchedOver(calls, v)
BY DEF SwitchedOver

\* simpad_pcmcia_configure_socket() changes the supply as it should.
LEMMA PowerCallsSwitch ==
    ASSUME NEW vcc \in Nat, NEW v
    PROVE  PowerCalls(vcc) \in Seq(Calls) /\ SwitchedOver(PowerCalls(vcc), v)
<1> DEFINE off3 == ClearBits({"VCC_3V_EN", "EN1"}) on5 == SetBits({"VCC_5V_EN", "EN0"})
           off5 == ClearBits({"VCC_5V_EN", "EN1"}) on3 == SetBits({"VCC_3V_EN", "EN0"})
           none == ClearBits(SocketPower)
<1>1. off3 \in Calls /\ on5 \in Calls /\ off5 \in Calls /\ on3 \in Calls /\ none \in Calls
  BY CallsType DEF SocketPower, Bits
<1>2. Harmless(off3) /\ Harmless(off5) /\ Harmless(none)
  BY DEF Harmless, ClearBits, Call
<1>3. TurnsOff(off3, "VCC_3V_EN") /\ TurnsOff(off5, "VCC_5V_EN")
  BY DEF TurnsOff, ClearBits, Call
<1>4. TurnsOn(on5, "VCC_5V_EN") /\ TurnsOn(on3, "VCC_3V_EN")
  BY DEF TurnsOn, SetBits, Call, Supplies
<1>5. /\ "VCC_5V_EN" \in Supplies /\ OtherSupply("VCC_5V_EN") = "VCC_3V_EN"
      /\ "VCC_3V_EN" \in Supplies /\ OtherSupply("VCC_3V_EN") = "VCC_5V_EN"
  BY DEF Supplies, OtherSupply
<1>6. PowerCalls(vcc) \in {<<off3, on5>>, <<off5, on3>>, <<none>>}
  BY DEF PowerCalls
<1> HIDE DEF off3, on5, off5, on3, none
<1>7. SwitchedOver(<<off3, on5>>, v) BY <1>2, <1>3, <1>4, <1>5 DEF SwitchedOver
<1>8. SwitchedOver(<<off5, on3>>, v) BY <1>2, <1>3, <1>4, <1>5 DEF SwitchedOver
<1>9. SwitchedOver(<<none>>, v) BY <1>2 DEF SwitchedOver
<1>10. CASE PowerCalls(vcc) = <<off3, on5>> BY <1>1, <1>7, <1>10
<1>11. CASE PowerCalls(vcc) = <<off5, on3>> BY <1>1, <1>8, <1>11
<1>12. CASE PowerCalls(vcc) = <<none>> BY <1>1, <1>9, <1>12
<1>13. QED BY <1>6, <1>10, <1>11, <1>12

\* The rest of a configuration, and all that it is part of.
LEMMA ConfigureSwitches ==
    ASSUME NEW vcc \in Nat, NEW reset \in BOOLEAN, NEW output \in BOOLEAN,
           NEW irq \in BOOLEAN, NEW v
    PROVE  SwitchedOver(ConfigureCalls(vcc, reset, output, irq), v)
<1> DEFINE r == IF reset THEN SetBits({"PCMCIA_RESET"}) ELSE ClearBits({"PCMCIA_RESET"})
           o == IF output THEN ClearBits({"PCMCIA_BUFF_DIS"}) ELSE SetBits({"PCMCIA_BUFF_DIS"})
<1>1. r \in Calls /\ o \in Calls /\ CardIrq(irq) \in Calls BY CallsType DEF Bits
<1>2. Harmless(r) /\ Harmless(o) /\ Harmless(CardIrq(irq))
  BY DEF Harmless, SetBits, ClearBits, CardIrq, Call, Supplies
<1>3. ConfigureCalls(vcc, reset, output, irq)
        = PowerCalls(vcc) \o (IF Known(vcc) THEN <<r, o, CardIrq(irq)>> ELSE <<>>)
  BY DEF ConfigureCalls
<1> HIDE DEF r, o
<1> DEFINE rest == IF Known(vcc) THEN <<r, o, CardIrq(irq)>> ELSE <<>>
<1>4. rest \in Seq(Calls) /\ \A i \in 1..Len(rest) : Harmless(rest[i])
  BY <1>1, <1>2
<1> HIDE DEF rest
<1>5. SwitchedOver(PowerCalls(vcc) \o rest, v) BY <1>4, PowerCallsSwitch, HarmlessFollow
<1>6. QED BY <1>3, <1>5 DEF rest

\* What the socket's handlers ask for.
LEMMA SocketSwitches ==
    ASSUME NEW v
    PROVE  /\ \A w \in Vccs, reset, output, irq \in BOOLEAN :
                 SwitchedOver(ConfigureCalls(w, reset, output, irq)
                    \o (IF Known(w) THEN <<Remember(w)>> ELSE <<>>), v)
           /\ SwitchedOver(<<ClearBits(SocketPower)>>, v)
           /\ SwitchedOver(<<Remember(0)>> \o DeadCalls, v)
           /\ SwitchedOver(DeadCalls \o <<Remember(0), SetBits({"PCMCIA_RESET"})>>, v)
           /\ SwitchedOver(<<ClearBits({"PCMCIA_RESET"})>>, v)
<1>1. /\ \A n \in Nat : Remember(n) \in Calls /\ Harmless(Remember(n))
      /\ SetBits({"PCMCIA_RESET"}) \in Calls /\ Harmless(SetBits({"PCMCIA_RESET"}))
      /\ Harmless(ClearBits(SocketPower)) /\ Harmless(ClearBits({"PCMCIA_RESET"}))
  BY CallsType DEF Harmless, Remember, SetBits, ClearBits, Call, Supplies, Bits
<1>2. ASSUME NEW w \in Vccs, NEW reset \in BOOLEAN, NEW output \in BOOLEAN,
             NEW irq \in BOOLEAN
      PROVE  SwitchedOver(ConfigureCalls(w, reset, output, irq)
                \o (IF Known(w) THEN <<Remember(w)>> ELSE <<>>), v)
  <2> DEFINE c == ConfigureCalls(w, reset, output, irq)
             m == IF Known(w) THEN <<Remember(w)>> ELSE <<>>
  <2>1. w \in Nat BY VccsAssumption
  <2>2. c \in Seq(Calls) /\ SwitchedOver(c, v)
    BY <2>1, ConfigureType, ConfigureSwitches
  <2>3. m \in Seq(Calls) /\ \A i \in 1..Len(m) : Harmless(m[i]) BY <1>1, <2>1
  <2> HIDE DEF c, m
  <2>4. SwitchedOver(c \o m, v) BY <2>2, <2>3, HarmlessFollow
  <2>5. QED BY <2>4 DEF c, m
<1>3. SwitchedOver(<<ClearBits(SocketPower)>>, v)
      /\ SwitchedOver(<<ClearBits({"PCMCIA_RESET"})>>, v)
  BY <1>1 DEF SwitchedOver
<1>4. DeadCalls \in Seq(Calls) /\ SwitchedOver(DeadCalls, v)
  BY DeadType, ConfigureSwitches DEF DeadCalls
<1>5. SwitchedOver(DeadCalls \o <<Remember(0), SetBits({"PCMCIA_RESET"})>>, v)
  <2> DEFINE m == <<Remember(0), SetBits({"PCMCIA_RESET"})>>
  <2>1. m \in Seq(Calls) /\ \A i \in 1..Len(m) : Harmless(m[i]) BY <1>1
  <2> HIDE DEF m
  <2>2. SwitchedOver(DeadCalls \o m, v) BY <1>4, <2>1, HarmlessFollow
  <2>3. QED BY <2>2 DEF m
<1>6. SwitchedOver(<<Remember(0)>> \o DeadCalls, v)
  <2> DEFINE d == DeadCalls  q == <<Remember(0)>> \o d
  <2>1. \A i \in 1..Len(d) : Harmless(d[i])
    <3> DEFINE p == ClearBits(SocketPower)           r == ClearBits({"PCMCIA_RESET"})
               b == SetBits({"PCMCIA_BUFF_DIS"})     k == CardIrq(FALSE)
    <3>1. Harmless(p) /\ Harmless(r) /\ Harmless(b) /\ Harmless(k)
      BY <1>1 DEF Harmless, SetBits, CardIrq, Call, Supplies
    <3>2. PowerCalls(0) = <<p>> BY DEF PowerCalls
    <3>3. DeadCalls = PowerCalls(0) \o <<r, b, k>>
      BY DEF DeadCalls, ConfigureCalls, Known
    <3>4. p \in Calls /\ r \in Calls /\ b \in Calls /\ k \in Calls
      BY CallsType DEF SocketPower, Bits
    <3> DEFINE m == <<r, b, k>>
    <3> HIDE DEF p, r, b, k
    <3>5. /\ m \in Seq(Calls) /\ Len(m) = 3 /\ \A i \in 1..3 : Harmless(m[i])
          /\ <<p>> \in Seq(Calls) /\ Len(<<p>>) = 1 /\ <<p>>[1] = p
      BY <3>1, <3>4
    <3> HIDE DEF m
    <3>6. Len(d) = 4 /\ d[1] = p /\ \A i \in 2..4 : d[i] = m[i - 1]
      <4> DEFINE a == <<p>>
      <4>1. d = a \o m BY <3>2, <3>3 DEF m
      <4>2. a \in Seq(Calls) /\ Len(a) = 1 /\ a[1] = p BY <3>5
      <4> HIDE DEF a, d
      <4>3. /\ Len(d) = Len(a) + Len(m)
            /\ \A i \in 1..(Len(a) + Len(m)) :
                  d[i] = IF i <= Len(a) THEN a[i] ELSE m[i - Len(a)]
        BY <3>5, <4>1, <4>2, ConcatProperties
      <4>4. Len(d) = 4 /\ d[1] = p BY <3>5, <4>2, <4>3
      <4>5. ASSUME NEW i \in 2..4 PROVE d[i] = m[i - 1] BY <3>5, <4>2, <4>3
      <4>6. QED BY <4>4, <4>5
    <3>7. QED BY <3>1, <3>5, <3>6
  <2>2. <<Remember(0)>> \in Seq(Calls) /\ SwitchedOver(<<Remember(0)>>, v)
    BY <1>1 DEF SwitchedOver
  <2> HIDE DEF d
  <2>3. d \in Seq(Calls) BY <1>4 DEF d
  <2>4. QED BY <2>1, <2>2, <2>3, HarmlessFollow DEF d
<1>7. QED BY <1>2, <1>3, <1>4, <1>5, <1>6

\* Every step keeps it to one supply, if root does.
LEMMA NextSupply ==
    ASSUME OneInProc, Inv, SupplyInv, [Next]_vars
    PROVE  SupplyInv'
<1> USE DEF SupplyInv
<1>1. /\ shadow \in SUBSET Bits /\ latch \in SUBSET Bits /\ reg \in SUBSET Bits
      /\ want \in SUBSET Bits /\ todo \in Seq(Calls) /\ led \in BOOLEAN
  BY DEF Inv, Cs3Inv, Cs3Type, LedType
<1>2. CASE UNCHANGED vars BY <1>2 DEF vars, cs3Vars
<1>3. CASE LoadShadow \/ StoreShadow \/ CardDriverRequestIrq
  <2>1. UNCHANGED <<want, latch, todo>>
    BY <1>3 DEF LoadShadow, StoreShadow, CardDriverRequestIrq, cs3Vars
  <2>2. QED BY <2>1
<1>4. CASE StoreLatch
  <2>1. /\ todo # <<>> /\ step = "latch" /\ latch' = reg /\ todo' = Tail(todo)
        /\ want' = Effect(Head(todo), want)
    BY <1>4 DEF StoreLatch, CallIs, Idle, Done
  <2>2. One(want') BY <1>1, <2>1, FirstCallOne
  <2>3. AgreeButLed(want', latch')
    BY <2>1 DEF Inv, Cs3Inv, Coherent, AgreeButLed
  <2>4. One(latch') BY <2>2, <2>3, SuppliesIgnoreLed
  <2>5. SwitchedOver(todo', want') BY <1>1, <2>1, TailSwitchedOver
  <2>6. QED BY <2>2, <2>4, <2>5
<1>5. CASE SetCardIrq \/ RememberState
  <2>1. /\ todo # <<>> /\ todo' = Tail(todo) /\ UNCHANGED <<want, latch>>
        /\ Head(todo).op \in {"irq", "vcc"}
    BY <1>5 DEF SetCardIrq, RememberState, CallIs, Idle, Done
  <2>2. Effect(Head(todo), want) = want BY <2>1 DEF Effect
  <2>3. SwitchedOver(todo', want') BY <1>1, <2>1, <2>2, TailSwitchedOver
  <2>4. QED BY <2>1, <2>3
<1>6. ASSUME NEW calls, Begin(calls), SwitchedOver(calls, want) PROVE SupplyInv'
  BY <1>6 DEF Begin
<1>7. ASSUME NEW c, Begin(<<c>>), Harmless(c) PROVE SupplyInv'
  <2>1. SwitchedOver(<<c>>, want) BY <1>7 DEF SwitchedOver
  <2>2. QED BY <1>6, <1>7, <2>1
<1>8. ASSUME NEW b \in BOOLEAN, UartPm(b) \/ Backlight(b) PROVE SupplyInv'
  <2>1. /\ Harmless(SetBits({"RS232_ON"})) /\ Harmless(ClearBits({"RS232_ON"}))
        /\ Harmless(SetBits({"DISPLAY_ON"})) /\ Harmless(ClearBits({"DISPLAY_ON"}))
    BY DEF Harmless, SetBits, ClearBits, Call, Supplies
  <2>2. QED BY <1>7, <1>8, <2>1 DEF UartPm, Backlight
<1>9. ASSUME NEW v \in ProcValues, ProcWrite(v) PROVE SupplyInv'
  <2>1. Harmless(WriteAll(v)) BY DEF OneInProc, Harmless, WriteAll, Call
  <2>2. QED BY <1>7, <1>9, <2>1 DEF ProcWrite
<1>10. CASE IdleLoop \/ LedsInit
  <2>1. ASSUME NEW on \in BOOLEAN PROVE Harmless(LedCall(on))
    BY DEF Harmless, LedCall, SetBits, ClearBits, Call, LED, Supplies
  <2>2. QED BY <1>1, <1>7, <1>10, <2>1 DEF IdleLoop, LedsInit
<1>11. ASSUME NEW v \in Vccs, NEW reset \in BOOLEAN, NEW output \in BOOLEAN,
              NEW irq \in BOOLEAN, SetSocket(v, reset, output, irq)
       PROVE  SupplyInv'
  BY <1>6, <1>11, SocketSwitches DEF SetSocket
<1>12. CASE PcmciaInit \/ SocketInit \/ SocketSuspend \/ PcmciaShutdown
  BY <1>6, <1>12, SocketSwitches DEF PcmciaInit, SocketInit, SocketSuspend, PcmciaShutdown
<1>13. CASE Suspend \/ Resume \/ TimerInterrupt
  <2>1. PICK on \in BOOLEAN : Atomically(LedCall(on))
    BY <1>1, <1>13 DEF Suspend, Resume, TimerInterrupt
  <2>2. /\ AgreeButLed(want, want') /\ AgreeButLed(shadow, latch')
        /\ UNCHANGED todo
    BY <1>1, <2>1, LedCallIsLocal DEF Atomically, AgreeButLed
  <2>3. One(shadow)
    <3>1. CASE step # "latch"
      <4>1. AgreeButLed(want, shadow)
        BY <3>1 DEF Inv, Cs3Inv, Cs3Type, Coherent, AgreeButLed
      <4>2. QED BY <4>1, SuppliesIgnoreLed
    <3>2. CASE step = "latch"
      <4>1. todo # <<>> BY <3>2 DEF Inv, Cs3Inv, InCall
      <4>2. One(Effect(Head(todo), want)) BY <1>1, <4>1, FirstCallOne
      <4>3. AgreeButLed(Effect(Head(todo), want), shadow)
        BY <3>2 DEF Inv, Cs3Inv, Coherent, AgreeButLed
      <4>4. QED BY <4>2, <4>3, SuppliesIgnoreLed
    <3>3. QED BY <3>1, <3>2
  <2>4. One(want') /\ One(latch') BY <2>2, <2>3, SuppliesIgnoreLed
  <2>5. \A s \in Supplies : OtherSupply(s) \in want <=> OtherSupply(s) \in want'
    BY <2>2, SuppliesIgnoreLed, TwoSupplies
  <2>6. SwitchedOver(todo, want') BY <2>5 DEF SwitchedOver
  <2>7. QED BY <2>2, <2>4, <2>6
<1>14. CASE PowerOff
  <2>1. /\ latch' = {"SD_MEDIAQ"} /\ want' = {"SD_MEDIAQ"} /\ todo' = <<>>
    BY <1>14 DEF PowerOff, Atomically, Effect, WriteAll, Call, Idle
  <2>2. One({"SD_MEDIAQ"}) BY DEF One, Supplies
  <2>3. SwitchedOver(<<>>, want') BY DEF SwitchedOver
  <2>4. QED BY <2>1, <2>2, <2>3
<1>15. QED
  BY <1>2, <1>3, <1>4, <1>5, <1>8, <1>9, <1>10, <1>11, <1>12, <1>13, <1>14
     DEF Next, Proceed, Handler

\* If what root writes to /proc/cs3 never asks for both supplies of the card,
\* they are never on together, at no load or store and under no interrupt.
THEOREM OneSupplyAtATime ==
    ASSUME OneInProc
    PROVE  Spec => []NeverBothSupplies
<1>1. Init => SupplyInv
  BY DEF Init, SupplyInv, SwitchedOver, One, Supplies, BootBits
<1>2. Inv /\ SupplyInv /\ [Next]_vars => SupplyInv' BY NextSupply
<1>3. SupplyInv => NeverBothSupplies BY DEF SupplyInv, One, Supplies, NeverBothSupplies
<1>4. QED BY Invariance, <1>1, <1>2, <1>3, PTL DEF Spec

-----------------------------------------------------------------------------
(* What is remembered of the supply.  EN0 of the latch and cs_state.Vcc    *)
(* are written by different calls of one handler: until it has made them   *)
(* all, what counts is the last call in todo that writes either of them.   *)

\* The last of the calls that is in W is in G, or, if there is none, ok.
Ends(calls, W, G, ok) ==
    \A i \in 0..Len(calls) :
        (\A j \in 1..Len(calls) : j > i => calls[j] \notin W)
            => /\ i = 0 => ok
               /\ i > 0 /\ calls[i] \in W => calls[i] \in G

\* The first call is carried out.
LEMMA EndsTail ==
    ASSUME NEW calls \in Seq(Calls), calls # <<>>, NEW W, NEW G,
           NEW ok \in BOOLEAN, NEW then \in BOOLEAN, Ends(calls, W, G, ok),
           IF Head(calls) \in W THEN Head(calls) \in G => then ELSE ok => then
    PROVE  Ends(Tail(calls), W, G, then)
<1> DEFINE t == Tail(calls)
<1>1. /\ Head(calls) = calls[1] /\ Len(t) = Len(calls) - 1
      /\ Len(calls) \in Nat /\ Len(calls) >= 1
      /\ \A i \in 1..Len(t) : t[i] = calls[i + 1]
  BY HeadTailProperties, EmptySeq
<1> HIDE DEF t
<1>2. SUFFICES ASSUME NEW i \in 0..Len(t), \A j \in 1..Len(t) : j > i => t[j] \notin W
               PROVE  /\ i = 0 => then
                      /\ i > 0 /\ t[i] \in W => t[i] \in G
  BY DEF Ends, t
<1>3. i + 1 \in 0..Len(calls) /\ i + 1 > 0 BY <1>1
<1>4. ASSUME NEW j \in 1..Len(calls), j > i + 1 PROVE calls[j] \notin W
  <2>1. j - 1 \in 1..Len(t) /\ j - 1 > i /\ (j - 1) + 1 = j BY <1>1, <1>4
  <2>2. QED BY <1>1, <1>2, <2>1
<1>5. calls[i + 1] \in W => calls[i + 1] \in G BY <1>3, <1>4 DEF Ends
<1>6. i > 0 /\ t[i] \in W => t[i] \in G BY <1>1, <1>5
<1>7. ASSUME i = 0 PROVE then
  <2>1. CASE calls[1] \in W BY <1>1, <1>5, <1>7, <2>1
  <2>2. CASE calls[1] \notin W
    <3>1. ASSUME NEW j \in 1..Len(calls), j > 0 PROVE calls[j] \notin W
      <4>1. CASE j = 1 BY <2>2, <4>1
      <4>2. CASE j > 1 BY <1>4, <1>7, <4>2
      <4>3. QED BY <4>1, <4>2
    <3>2. 0 \in 0..Len(calls) BY <1>1
    <3>3. ok BY <3>1, <3>2 DEF Ends
    <3>4. QED BY <1>1, <2>2, <3>3
  <2>3. QED BY <2>1, <2>2
<1>8. QED BY <1>6, <1>7

\* Calls none of which is in W.
LEMMA EndsNone ==
    ASSUME NEW calls \in Seq(Calls), NEW W, NEW G, NEW ok \in BOOLEAN, ok,
           \A i \in 1..Len(calls) : calls[i] \notin W
    PROVE  Ends(calls, W, G, ok)
<1>1. Len(calls) \in Nat BY LenProperties
<1>2. QED BY <1>1 DEF Ends

\* When there are no calls, ok.
LEMMA EndsEmpty ==
    ASSUME NEW W, NEW G, NEW ok \in BOOLEAN
    PROVE  Ends(<<>>, W, G, ok) <=> ok
BY DEF Ends

\* More calls: the last of W may be among the first ones, or the later ones.
LEMMA EndsConcat ==
    ASSUME NEW a \in Seq(Calls), NEW b \in Seq(Calls), NEW W, NEW G,
           NEW ok \in BOOLEAN,
           \/ Ends(a, W, G, ok) /\ \A i \in 1..Len(b) : b[i] \notin W
           \/ Ends(b, W, G, FALSE)
    PROVE  Ends(a \o b, W, G, ok)
<1> DEFINE ab == a \o b
<1>1. /\ Len(ab) = Len(a) + Len(b) /\ Len(a) \in Nat /\ Len(b) \in Nat
      /\ \A i \in 1..(Len(a) + Len(b)) :
            ab[i] = IF i <= Len(a) THEN a[i] ELSE b[i - Len(a)]
  BY ConcatProperties, LenProperties
<1> HIDE DEF ab
<1>2. \A i \in 1..Len(a) : i \in 1..Len(ab) /\ ab[i] = a[i] BY <1>1
<1>3. ASSUME NEW i \in 1..Len(b)
      PROVE  Len(a) + i \in 1..Len(ab) /\ ab[Len(a) + i] = b[i]
  <2>1. /\ Len(a) + i \in 1..(Len(a) + Len(b)) /\ ~(Len(a) + i <= Len(a))
        /\ (Len(a) + i) - Len(a) = i
    BY <1>1
  <2>2. QED BY <1>1, <2>1
<1>4. SUFFICES ASSUME NEW i \in 0..Len(ab),
                      \A j \in 1..Len(ab) : j > i => ab[j] \notin W
               PROVE  /\ i = 0 => ok
                      /\ i > 0 /\ ab[i] \in W => ab[i] \in G
  BY DEF Ends, ab
<1>5. CASE i <= Len(a)
  <2>1. ASSUME NEW j \in 1..Len(b) PROVE b[j] \notin W
    BY <1>1, <1>3, <1>4, <1>5
  <2>2. ~Ends(b, W, G, FALSE) BY <1>1, <2>1 DEF Ends
  <2>3. \A j \in 1..Len(a) : j > i => a[j] \notin W BY <1>2, <1>4
  <2>4. i \in 0..Len(a) BY <1>1, <1>5
  <2>5. (i = 0 => ok) /\ (i > 0 /\ a[i] \in W => a[i] \in G) BY <2>2, <2>3, <2>4 DEF Ends
  <2>6. QED BY <1>2, <2>4, <2>5
<1>6. CASE i > Len(a)
  <2> DEFINE k == i - Len(a)
  <2>1. k \in 1..Len(b) /\ Len(a) + k = i /\ k \in 0..Len(b) /\ k > 0 /\ i > 0
    BY <1>1, <1>6
  <2> HIDE DEF k
  <2>2. ab[i] = b[k] BY <1>3, <2>1
  <2>3. ASSUME NEW j \in 1..Len(b), j > k PROVE b[j] \notin W
    <3>1. Len(a) + j > i BY <1>1, <2>1, <2>3
    <3>2. QED BY <1>3, <1>4, <3>1
  <2>4. b[k] \in W => b[k] \in G BY <2>1, <2>3 DEF Ends
  <2>5. QED BY <2>1, <2>2, <2>4
<1>7. QED BY <1>1, <1>5, <1>6

\* The calls that write EN0, and those that leave it on (g) or off.
Switching == {c \in Calls : \/ c.op \in {"set", "clear"} /\ "EN0" \in c.bits
                            \/ c.op = "write"}
Leaving(g) == {c \in Calls : "EN0" \in Effect(c, {}) <=> g}

\* The calls that write cs_state.Vcc, and those that remember power (g) or none.
Remembering == {c \in Calls : c.op = "vcc"}
Telling(g)  == {c \in Calls : c.arg # 0 <=> g}

\* When its calls are made, the socket is powered (g) or not, and Card Services
\* is told so, unless the supply was changed behind its back.
SettlesAt(g) ==
    /\ Ends(todo, Switching, Leaving(g), "EN0" \in want <=> g)
    /\ Ends(todo, Remembering, Telling(g), behind \/ (csVcc # 0 <=> g))

StatusInv ==
    /\ socket /\ power # "off" => \E g \in BOOLEAN : SettlesAt(g)
    /\ ~socket => csVcc = 0 /\ \A i \in 1..Len(todo) : todo[i] \notin Remembering

\* What a call does to EN0.
LEMMA SwitchingEffect ==
    ASSUME NEW c \in Calls, NEW v \in SUBSET Bits
    PROVE  /\ c \notin Switching => ("EN0" \in Effect(c, v) <=> "EN0" \in v)
           /\ c \in Switching => ("EN0" \in Effect(c, v) <=> "EN0" \in Effect(c, {}))
<1>1. CASE c.op = "set"   BY <1>1 DEF Effect, Switching
<1>2. CASE c.op = "clear" BY <1>2 DEF Effect, Switching
<1>3. CASE c.op = "write" BY <1>3 DEF Effect, Switching
<1>4. CASE c.op \notin {"set", "clear", "write"} BY <1>4 DEF Effect, Switching
<1>5. QED BY <1>1, <1>2, <1>3, <1>4

\* A call that is made of neither kind.
Aside(c) == c \in Calls /\ c \notin Switching /\ c \notin Remembering

\* The calls for other bits of the latch, and for the card's interrupt.
LEMMA AsideCalls ==
    /\ \A b \in SUBSET Bits : "EN0" \notin b => Aside(SetBits(b)) /\ Aside(ClearBits(b))
    /\ \A on \in BOOLEAN : Aside(CardIrq(on)) /\ Aside(LedCall(on))
<1>1. ASSUME NEW b \in SUBSET Bits, "EN0" \notin b
      PROVE  Aside(SetBits(b)) /\ Aside(ClearBits(b))
  <2>1. SetBits(b) \in Calls /\ ClearBits(b) \in Calls BY CallsType
  <2>2. /\ SetBits(b).op = "set" /\ SetBits(b).bits = b
        /\ ClearBits(b).op = "clear" /\ ClearBits(b).bits = b
    BY DEF SetBits, ClearBits, Call
  <2>3. QED BY <1>1, <2>1, <2>2 DEF Aside, Switching, Remembering
<1>2. ASSUME NEW on \in BOOLEAN PROVE Aside(CardIrq(on))
  <2>1. CardIrq(on) \in Calls /\ CardIrq(on).op = "irq" BY CallsType DEF CardIrq, Call
  <2>2. QED BY <2>1 DEF Aside, Switching, Remembering
<1>3. LED \in SUBSET Bits /\ "EN0" \notin LED BY DEF LED, Bits
<1>4. \A on \in BOOLEAN : Aside(LedCall(on)) BY <1>1, <1>3 DEF LedCall
<1>5. QED BY <1>1, <1>2, <1>4

\* What remembers, and what it tells.
LEMMA RememberTells ==
    ASSUME NEW v \in Nat, NEW g \in BOOLEAN, v # 0 <=> g
    PROVE  Remember(v) \in Remembering \cap Telling(g) /\ Remember(v) \notin Switching
<1>1. Remember(v) \in Calls /\ Remember(v).op = "vcc" /\ Remember(v).arg = v
  BY CallsType DEF Remember, Call
<1>2. QED BY <1>1 DEF Remembering, Telling, Switching

\* simpad_pcmcia_configure_socket() powers the socket for 3.3 V and 5 V, and in
\* all other cases turns it off.
LEMMA PowerCallsEnd ==
    ASSUME NEW vcc \in Nat, NEW g \in BOOLEAN, vcc \in {33, 50} <=> g
    PROVE  /\ PowerCalls(vcc) \in Seq(Calls)
           /\ Ends(PowerCalls(vcc), Switching, Leaving(g), FALSE)
           /\ \A i \in 1..Len(PowerCalls(vcc)) : PowerCalls(vcc)[i] \notin Remembering
<1> DEFINE off3 == ClearBits({"VCC_3V_EN", "EN1"}) on5 == SetBits({"VCC_5V_EN", "EN0"})
           off5 == ClearBits({"VCC_5V_EN", "EN1"}) on3 == SetBits({"VCC_3V_EN", "EN0"})
           none == ClearBits(SocketPower)
<1>1. Aside(off3) /\ Aside(off5)
  <2>1. /\ {"VCC_3V_EN", "EN1"} \in SUBSET Bits /\ "EN0" \notin {"VCC_3V_EN", "EN1"}
        /\ {"VCC_5V_EN", "EN1"} \in SUBSET Bits /\ "EN0" \notin {"VCC_5V_EN", "EN1"}
    BY DEF Bits
  <2>2. QED BY <2>1, AsideCalls
<1>2. on5 \in Calls /\ on3 \in Calls /\ none \in Calls
  BY CallsType DEF SocketPower, Bits
<1>3. /\ on5.op = "set" /\ "EN0" \in on5.bits /\ on3.op = "set" /\ "EN0" \in on3.bits
      /\ none.op = "clear" /\ "EN0" \in none.bits
  BY DEF SetBits, ClearBits, Call, SocketPower
<1>4. PowerCalls(vcc) = CASE vcc = 33 -> <<off3, on5>>
                          [] vcc = 50 -> <<off5, on3>>
                          [] OTHER    -> <<none>>
  BY DEF PowerCalls
<1> HIDE DEF off3, on5, off5, on3, none
<1>5. /\ on5 \in Switching /\ on3 \in Switching /\ none \in Switching
      /\ on5 \notin Remembering /\ on3 \notin Remembering /\ none \notin Remembering
  BY <1>2, <1>3 DEF Switching, Remembering
<1>6. /\ "EN0" \in Effect(on5, {}) /\ "EN0" \in Effect(on3, {})
      /\ "EN0" \notin Effect(none, {})
  BY <1>3 DEF Effect
<1> DEFINE Good(q) == /\ q \in Seq(Calls) /\ Ends(q, Switching, Leaving(g), FALSE)
                      /\ \A i \in 1..Len(q) : q[i] \notin Remembering
<1>7. ASSUME NEW off, NEW on \in Calls, Aside(off), on \in Leaving(g),
             on \in Switching, on \notin Remembering
      PROVE  Good(<<off, on>>)
  <2> DEFINE q == <<off, on>>
  <2>1. q \in Seq(Calls) /\ Len(q) = 2 /\ q[1] = off /\ q[2] = on BY <1>7 DEF Aside
  <2> HIDE DEF q
  <2>2. Ends(q, Switching, Leaving(g), FALSE) BY <1>7, <2>1 DEF Ends
  <2>3. \A i \in 1..Len(q) : q[i] \notin Remembering BY <1>7, <2>1 DEF Aside
  <2>4. Good(q) BY <2>1, <2>2, <2>3
  <2>5. QED BY <2>4 DEF q
<1> SUFFICES Good(PowerCalls(vcc)) OBVIOUS
<1> HIDE DEF Good
<1>8. CASE vcc = 33
  <2>1. on5 \in Leaving(g) BY <1>2, <1>6, <1>8 DEF Leaving
  <2>2. PowerCalls(vcc) = <<off3, on5>> BY <1>4, <1>8
  <2>3. Good(<<off3, on5>>) BY <1>1, <1>2, <1>5, <1>7, <2>1
  <2>4. QED BY <2>2, <2>3
<1>9. CASE vcc = 50
  <2>1. on3 \in Leaving(g) BY <1>2, <1>6, <1>9 DEF Leaving
  <2>2. PowerCalls(vcc) = <<off5, on3>> BY <1>4, <1>9
  <2>3. Good(<<off5, on3>>) BY <1>1, <1>2, <1>5, <1>7, <2>1
  <2>4. QED BY <2>2, <2>3
<1>10. CASE vcc \notin {33, 50}
  <2>1. none \in Leaving(g) BY <1>2, <1>6, <1>10 DEF Leaving
  <2>2. PowerCalls(vcc) = <<none>> BY <1>4, <1>10
  <2> DEFINE q == <<none>>
  <2>3. q \in Seq(Calls) /\ Len(q) = 1 /\ q[1] = none BY <1>2
  <2> HIDE DEF q
  <2>4. Ends(q, Switching, Leaving(g), FALSE) BY <1>5, <2>1, <2>3 DEF Ends
  <2>5. \A i \in 1..Len(q) : q[i] \notin Remembering BY <1>5, <2>3
  <2>6. Good(q) BY <2>3, <2>4, <2>5 DEF Good
  <2>7. QED BY <2>2, <2>6 DEF q
<1>11. QED BY <1>8, <1>9, <1>10

\* So does all of a configuration, and it does not remember anything itself.
LEMMA ConfigureEnds ==
    ASSUME NEW vcc \in Nat, NEW reset \in BOOLEAN, NEW output \in BOOLEAN,
           NEW irq \in BOOLEAN, NEW g \in BOOLEAN, vcc \in {33, 50} <=> g
    PROVE  LET c == ConfigureCalls(vcc, reset, output, irq) IN
           /\ Ends(c, Switching, Leaving(g), FALSE)
           /\ \A i \in 1..Len(c) : c[i] \notin Remembering
<1> DEFINE r == IF reset THEN SetBits({"PCMCIA_RESET"}) ELSE ClearBits({"PCMCIA_RESET"})
           o == IF output THEN ClearBits({"PCMCIA_BUFF_DIS"}) ELSE SetBits({"PCMCIA_BUFF_DIS"})
           k == CardIrq(irq)
<1>1. Aside(r) /\ Aside(o) /\ Aside(k)
  <2>1. /\ {"PCMCIA_RESET"} \in SUBSET Bits /\ "EN0" \notin {"PCMCIA_RESET"}
        /\ {"PCMCIA_BUFF_DIS"} \in SUBSET Bits /\ "EN0" \notin {"PCMCIA_BUFF_DIS"}
    BY DEF Bits
  <2>2. QED BY <2>1, AsideCalls
<1>2. ConfigureCalls(vcc, reset, output, irq)
        = PowerCalls(vcc) \o (IF Known(vcc) THEN <<r, o, k>> ELSE <<>>)
  BY DEF ConfigureCalls
<1> HIDE DEF r, o, k
<1> DEFINE rest == IF Known(vcc) THEN <<r, o, k>> ELSE <<>>
<1>3. rest \in Seq(Calls) /\ \A i \in 1..Len(rest) : Aside(rest[i])
  BY <1>1 DEF Aside
<1> HIDE DEF rest
<1> DEFINE p == PowerCalls(vcc)
<1>4. /\ p \in Seq(Calls) /\ Ends(p, Switching, Leaving(g), FALSE)
      /\ \A i \in 1..Len(p) : p[i] \notin Remembering
  BY PowerCallsEnd
<1> HIDE DEF p
<1>5. Ends(p \o rest, Switching, Leaving(g), FALSE)
  BY <1>3, <1>4, EndsConcat DEF Aside
<1>6. \A i \in 1..Len(p \o rest) : (p \o rest)[i] \notin Remembering
  <2> DEFINE q == p \o rest
  <2>1. /\ Len(q) = Len(p) + Len(rest) /\ Len(p) \in Nat /\ Len(rest) \in Nat
        /\ \A i \in 1..(Len(p) + Len(rest)) :
              q[i] = IF i <= Len(p) THEN p[i] ELSE rest[i - Len(p)]
    BY <1>3, <1>4, ConcatProperties, LenProperties
  <2> HIDE DEF q
  <2>2. ASSUME NEW i \in 1..Len(q) PROVE q[i] \notin Remembering
    <3>1. CASE i <= Len(p)
      <4>1. i \in 1..Len(p) /\ q[i] = p[i] BY <2>1, <3>1
      <4>2. QED BY <1>4, <4>1
    <3>2. CASE i > Len(p)
      <4>1. i - Len(p) \in 1..Len(rest) /\ q[i] = rest[i - Len(p)] BY <2>1, <3>2
      <4>2. QED BY <1>3, <4>1 DEF Aside
    <3>3. QED BY <2>1, <3>1, <3>2
  <2>3. QED BY <2>2 DEF q
<1>7. QED BY <1>2, <1>5, <1>6 DEF p, rest

\* sa1100_pcmcia_set_socket(), for a voltage that the socket takes.
LEMMA SetSocketEnds ==
    ASSUME NEW w \in Vccs, Known(w), NEW reset \in BOOLEAN, NEW output \in BOOLEAN,
           NEW irq \in BOOLEAN, NEW g \in BOOLEAN, w # 0 <=> g
    PROVE  LET q == ConfigureCalls(w, reset, output, irq) \o <<Remember(w)>> IN
           /\ \A ok \in BOOLEAN : Ends(q, Switching, Leaving(g), ok)
           /\ \A ok \in BOOLEAN : Ends(q, Remembering, Telling(g), ok)
<1> DEFINE c == ConfigureCalls(w, reset, output, irq)  m == <<Remember(w)>>
<1>1. w \in Nat /\ (w \in {33, 50} <=> g) BY VccsAssumption DEF Known
<1>2. /\ c \in Seq(Calls) /\ Ends(c, Switching, Leaving(g), FALSE)
  BY <1>1, ConfigureType, ConfigureEnds
<1>3. Remember(w) \in Remembering \cap Telling(g) /\ Remember(w) \notin Switching
  BY <1>1, RememberTells
<1>4. m \in Seq(Calls) /\ Len(m) = 1 /\ m[1] = Remember(w) BY <1>1, CallsType
<1> HIDE DEF c, m
<1>5. Ends(m, Remembering, Telling(g), FALSE) BY <1>3, <1>4 DEF Ends
<1>6. ASSUME NEW ok \in BOOLEAN PROVE Ends(c \o m, Remembering, Telling(g), ok)
  BY <1>2, <1>4, <1>5, EndsConcat
<1>7. ASSUME NEW ok \in BOOLEAN PROVE Ends(c \o m, Switching, Leaving(g), ok)
  <2>1. Ends(c, Switching, Leaving(g), ok) BY <1>2 DEF Ends
  <2>2. \A i \in 1..Len(m) : m[i] \notin Switching BY <1>3, <1>4
  <2>3. QED BY <1>2, <1>4, <2>1, <2>2, EndsConcat
<1>8. QED BY <1>6, <1>7 DEF c, m

\* sa1100_pcmcia_init() and sa1100_pcmcia_suspend() turn the socket off, and say so.
LEMMA DeadEnds ==
    ASSUME NEW ok \in BOOLEAN, NEW g \in BOOLEAN, ~g
    PROVE  /\ Ends(<<Remember(0)>> \o DeadCalls, Switching, Leaving(g), ok)
           /\ Ends(<<Remember(0)>> \o DeadCalls, Remembering, Telling(g), ok)
           /\ Ends(DeadCalls \o <<Remember(0), SetBits({"PCMCIA_RESET"})>>,
                   Switching, Leaving(g), ok)
           /\ Ends(DeadCalls \o <<Remember(0), SetBits({"PCMCIA_RESET"})>>,
                   Remembering, Telling(g), ok)
<1> DEFINE d == DeadCalls  m == Remember(0)  r == SetBits({"PCMCIA_RESET"})
<1>1. /\ d \in Seq(Calls) /\ Ends(d, Switching, Leaving(g), FALSE)
      /\ \A i \in 1..Len(d) : d[i] \notin Remembering
  <2>1. 0 \in Nat /\ (0 \in {33, 50} <=> g) OBVIOUS
  <2>2. FALSE \in BOOLEAN OBVIOUS
  <2> DEFINE c == ConfigureCalls(0, FALSE, FALSE, FALSE)
  <2>3. /\ Ends(c, Switching, Leaving(g), FALSE)
        /\ \A i \in 1..Len(c) : c[i] \notin Remembering
    BY <2>1, <2>2, ConfigureEnds, Zenon
  <2>4. d = c BY DEF DeadCalls
  <2> HIDE DEF c, d
  <2>5. d \in Seq(Calls) BY DeadType DEF d
  <2>6. QED BY <2>3, <2>4, <2>5
<1>2. m \in Remembering /\ m \in Telling(g) /\ m \notin Switching /\ m \in Calls
  BY RememberTells, CallsType
<1>3. Aside(r)
  <2>1. {"PCMCIA_RESET"} \in SUBSET Bits /\ "EN0" \notin {"PCMCIA_RESET"} BY DEF Bits
  <2>2. QED BY <2>1, AsideCalls
<1> HIDE DEF d, m, r
<1> DEFINE a == <<m>>  b == <<m, r>>
<1>4. /\ a \in Seq(Calls) /\ Len(a) = 1 /\ a[1] = m
      /\ b \in Seq(Calls) /\ Len(b) = 2 /\ b[1] = m /\ b[2] = r
  BY <1>2, <1>3 DEF Aside
<1> HIDE DEF a, b
<1>5. Ends(a, Remembering, Telling(g), ok) BY <1>2, <1>4 DEF Ends
<1>6. Ends(b, Remembering, Telling(g), FALSE) BY <1>2, <1>3, <1>4 DEF Ends, Aside
<1>7. \A i \in 1..Len(b) : b[i] \notin Switching BY <1>2, <1>3, <1>4 DEF Aside
<1>8. Ends(d, Switching, Leaving(g), ok) BY <1>1 DEF Ends
<1>9. Ends(a \o d, Switching, Leaving(g), ok) BY <1>1, <1>4, EndsConcat
<1>10. Ends(a \o d, Remembering, Telling(g), ok) BY <1>1, <1>4, <1>5, EndsConcat
<1>11. Ends(d \o b, Switching, Leaving(g), ok)
  BY <1>1, <1>4, <1>7, <1>8, EndsConcat
<1>12. Ends(d \o b, Remembering, Telling(g), ok) BY <1>1, <1>4, <1>6, EndsConcat
<1>13. QED BY <1>9, <1>10, <1>11, <1>12 DEF a, b, d, m, r

\* The running process has carried out the first of its calls.
LEMMA ProceedStatus ==
    ASSUME Inv, StatusInv, StoreLatch \/ SetCardIrq \/ RememberState
    PROVE  StatusInv'
<1> DEFINE c == Head(todo)
<1>1. /\ todo # <<>> /\ todo \in Seq(Calls) /\ todo' = Tail(todo) /\ want \in SUBSET Bits
      /\ UNCHANGED <<socket, power>>
  BY DEF StoreLatch, SetCardIrq, RememberState, CallIs, Idle, Done, pcmciaVars,
         Inv, Cs3Inv, Cs3Type
<1>2. /\ c \in Calls /\ c = todo[1] /\ 1 \in 1..Len(todo)
      /\ Len(todo') = Len(todo) - 1 /\ Len(todo) \in Nat
      /\ \A i \in 1..Len(todo') : todo'[i] = todo[i + 1]
  BY <1>1, HeadTailProperties, EmptySeq
<1>3. want' = Effect(c, want)
  BY DEF StoreLatch, SetCardIrq, RememberState, CallIs, Effect
<1>4. IF c \in Remembering THEN csVcc' = c.arg /\ behind' = FALSE
      ELSE UNCHANGED <<csVcc, behind>>
  <2>1. CASE RememberState
    <3>1. c \in Remembering BY <1>2, <2>1 DEF RememberState, CallIs, Remembering
    <3>2. QED BY <2>1, <3>1 DEF RememberState
  <2>2. CASE StoreLatch \/ SetCardIrq
    <3>1. c \notin Remembering
      BY <2>2 DEF StoreLatch, SetCardIrq, CallIs, Remembering
    <3>2. QED BY <2>2, <3>1 DEF StoreLatch, SetCardIrq, pcmciaVars
  <2>3. QED BY <2>1, <2>2
<1> HIDE DEF c
<1>5. ASSUME NEW g \in BOOLEAN, SettlesAt(g) PROVE SettlesAt(g)'
  <2>1. Ends(todo', Switching, Leaving(g), "EN0" \in want' <=> g)
    <3> DEFINE ok == "EN0" \in want <=> g  then == "EN0" \in want' <=> g
    <3>1. Ends(todo, Switching, Leaving(g), ok) BY <1>5 DEF SettlesAt
    <3>2. IF c \in Switching THEN c \in Leaving(g) => then ELSE ok => then
      BY <1>1, <1>2, <1>3, SwitchingEffect DEF Leaving
    <3>3. ok \in BOOLEAN /\ then \in BOOLEAN OBVIOUS
    <3> HIDE DEF ok, then
    <3>4. Ends(Tail(todo), Switching, Leaving(g), then)
      BY <1>1, <3>1, <3>2, <3>3, EndsTail DEF c
    <3>5. QED BY <1>1, <3>4 DEF then
  <2>2. Ends(todo', Remembering, Telling(g), behind' \/ (csVcc' # 0 <=> g))
    <3> DEFINE ok   == behind \/ (csVcc # 0 <=> g)
               then == behind' \/ (csVcc' # 0 <=> g)
    <3>1. Ends(todo, Remembering, Telling(g), ok) BY <1>5 DEF SettlesAt
    <3>2. IF c \in Remembering THEN c \in Telling(g) => then ELSE ok => then
      BY <1>4 DEF Telling
    <3>3. ok \in BOOLEAN /\ then \in BOOLEAN OBVIOUS
    <3> HIDE DEF ok, then
    <3>4. Ends(Tail(todo), Remembering, Telling(g), then)
      BY <1>1, <3>1, <3>2, <3>3, EndsTail DEF c
    <3>5. QED BY <1>1, <3>4 DEF then
  <2>3. QED BY <2>1, <2>2 DEF SettlesAt
<1>6. ASSUME ~socket
      PROVE  csVcc' = 0 /\ \A i \in 1..Len(todo') : todo'[i] \notin Remembering
  <2>1. csVcc = 0 /\ \A i \in 1..Len(todo) : todo[i] \notin Remembering
    BY <1>6 DEF StatusInv
  <2>2. csVcc' = 0 BY <1>2, <1>4, <2>1
  <2>3. ASSUME NEW i \in 1..Len(todo') PROVE todo'[i] \notin Remembering
    <3>1. i + 1 \in 1..Len(todo) BY <1>2
    <3>2. QED BY <1>2, <2>1, <3>1
  <2>4. QED BY <2>2, <2>3
<1>7. QED BY <1>1, <1>5, <1>6 DEF StatusInv

\* A handler whose only call has nothing to do with the supply.
LEMMA AsideStatus ==
    ASSUME StatusInv, NEW c, Aside(c), Begin(<<c>>),
           UNCHANGED <<csVcc, behind, power>>,
           socket' = socket \/ (~socket' /\ csVcc = 0)
    PROVE  StatusInv'
<1> DEFINE q == <<c>>
<1>1. q \in Seq(Calls) /\ Len(q) = 1 /\ q[1] = c BY DEF Aside
<1>2. todo' = q /\ todo = <<>> /\ want' = want BY DEF Begin, Idle
<1> HIDE DEF q
<1>3. \A i \in 1..Len(q) : q[i] \notin Switching /\ q[i] \notin Remembering
  BY <1>1 DEF Aside
<1>4. ASSUME NEW g \in BOOLEAN, SettlesAt(g) PROVE SettlesAt(g)'
  <2> DEFINE on == "EN0" \in want <=> g  told == behind \/ (csVcc # 0 <=> g)
  <2>1. on \in BOOLEAN /\ told \in BOOLEAN OBVIOUS
  <2>2. Ends(<<>>, Switching, Leaving(g), on) /\ Ends(<<>>, Remembering, Telling(g), told)
    BY <1>2, <1>4 DEF SettlesAt
  <2>3. SettlesAt(g)' <=> /\ Ends(q, Switching, Leaving(g), on)
                          /\ Ends(q, Remembering, Telling(g), told)
    BY <1>2 DEF SettlesAt
  <2> HIDE DEF on, told
  <2>4. on /\ told BY <2>1, <2>2, EndsEmpty
  <2>5. Ends(q, Switching, Leaving(g), on) BY <1>1, <1>3, <2>1, <2>4, EndsNone
  <2>6. Ends(q, Remembering, Telling(g), told) BY <1>1, <1>3, <2>1, <2>4, EndsNone
  <2>7. QED BY <2>3, <2>5, <2>6
<1>5. ~socket' => csVcc' = 0 BY DEF StatusInv
<1>6. QED BY <1>2, <1>3, <1>4, <1>5 DEF StatusInv

\* A handler after whose calls the socket is powered (g) or not.
LEMMA SwitchStatus ==
    ASSUME NEW calls, Begin(calls), NEW g \in BOOLEAN,
           Ends(calls, Switching, Leaving(g), "EN0" \in want <=> g),
           Ends(calls, Remembering, Telling(g), behind' \/ (csVcc' # 0 <=> g)),
           \/ socket'
           \/ csVcc' = 0 /\ \A i \in 1..Len(calls) : calls[i] \notin Remembering
    PROVE  StatusInv'
<1>1. todo' = calls /\ want' = want BY DEF Begin
<1>2. SettlesAt(g)' BY <1>1 DEF SettlesAt
<1>3. QED BY <1>1, <1>2 DEF StatusInv

\* Every step keeps what is remembered on its way to what is.
LEMMA NextStatus ==
    ASSUME Inv, StatusInv, [Next]_vars
    PROVE  StatusInv'
<1>1. want \in SUBSET Bits /\ shadow \in SUBSET Bits /\ led \in BOOLEAN
  BY DEF Inv, Cs3Inv, Cs3Type, LedType
<1>2. CASE UNCHANGED vars \/ LoadShadow \/ StoreShadow \/ CardDriverRequestIrq
  <2>1. UNCHANGED <<todo, want, socket, power, csVcc, behind>>
    BY <1>2 DEF vars, cs3Vars, pcmciaVars, LoadShadow, StoreShadow, CardDriverRequestIrq
  <2>2. QED BY <2>1 DEF StatusInv, SettlesAt
<1>3. CASE StoreLatch \/ SetCardIrq \/ RememberState BY <1>3, ProceedStatus
<1>4. ASSUME NEW b \in BOOLEAN, UartPm(b) \/ Backlight(b) PROVE StatusInv'
  <2>1. /\ {"RS232_ON"} \in SUBSET Bits /\ "EN0" \notin {"RS232_ON"}
        /\ {"DISPLAY_ON"} \in SUBSET Bits /\ "EN0" \notin {"DISPLAY_ON"}
    BY DEF Bits
  <2>2. PICK c : Aside(c) /\ Begin(<<c>>)
    BY <1>4, <2>1, AsideCalls DEF UartPm, Backlight
  <2>3. UNCHANGED <<socket, csVcc, behind, power>>
    BY <1>4 DEF UartPm, Backlight, pcmciaVars
  <2>4. QED BY <2>2, <2>3, AsideStatus
<1>5. CASE IdleLoop \/ LedsInit
  <2>1. PICK c : Aside(c) /\ Begin(<<c>>)
    BY <1>1, <1>5, AsideCalls DEF IdleLoop, LedsInit
  <2>2. UNCHANGED <<socket, csVcc, behind, power>>
    BY <1>5 DEF IdleLoop, LedsInit, pcmciaVars
  <2>3. QED BY <2>1, <2>2, AsideStatus
<1>6. CASE PcmciaShutdown
  <2>1. {"PCMCIA_RESET"} \in SUBSET Bits /\ "EN0" \notin {"PCMCIA_RESET"} BY DEF Bits
  <2>2. PICK c : Aside(c) /\ Begin(<<c>>) BY <1>6, <2>1, AsideCalls DEF PcmciaShutdown
  <2>3. UNCHANGED <<csVcc, behind, power>> /\ socket' = FALSE /\ csVcc = 0
    BY <1>6 DEF PcmciaShutdown
  <2>4. QED BY <2>2, <2>3, AsideStatus
<1>7. ASSUME NEW v \in ProcValues, ProcWrite(v) PROVE StatusInv'
  <2> DEFINE w == WriteAll(v)  q == <<w>>  g == "EN0" \in v  on == "EN0" \in want <=> g
  <2>1. w \in Calls /\ w.op = "write" /\ w.bits = v
    BY CallsType, ProcValuesAssumption DEF WriteAll, Call
  <2>2. q \in Seq(Calls) /\ Len(q) = 1 /\ q[1] = w BY <2>1
  <2>3. /\ Begin(q) /\ behind' = TRUE /\ UNCHANGED <<socket, csVcc>>
    BY <1>7 DEF ProcWrite
  <2>4. g \in BOOLEAN /\ on \in BOOLEAN OBVIOUS
  <2>5. w \in Switching /\ w \in Leaving(g) /\ w \notin Remembering
    BY <2>1 DEF Switching, Leaving, Remembering, Effect
  <2>6. ~socket => csVcc = 0 BY DEF StatusInv
  <2> HIDE DEF w, q, g, on
  <2>7. Ends(q, Switching, Leaving(g), on) BY <2>2, <2>5 DEF Ends
  <2>8. \A i \in 1..Len(q) : q[i] \notin Remembering BY <2>2, <2>5
  <2> DEFINE told == behind' \/ (csVcc' # 0 <=> g)
  <2>9. told /\ told \in BOOLEAN BY <2>3
  <2> HIDE DEF told
  <2>10. Ends(q, Remembering, Telling(g), told) BY <2>2, <2>8, <2>9, EndsNone
  <2>11. socket' \/ csVcc' = 0 BY <2>3, <2>6
  <2>12. QED BY <2>3, <2>4, <2>7, <2>8, <2>10, <2>11, SwitchStatus DEF on, told
<1>8. ASSUME NEW v \in Vccs, NEW reset \in BOOLEAN, NEW output \in BOOLEAN,
             NEW irq \in BOOLEAN, SetSocket(v, reset, output, irq)
      PROVE  StatusInv'
  <2> DEFINE c == ConfigureCalls(v, reset, output, irq)
  <2>1. socket' = TRUE /\ csVcc' = csVcc BY <1>8 DEF SetSocket, Inv, SocketInv, SocketType
  <2>2. CASE Known(v)
    <3> DEFINE g == v # 0  q == c \o <<Remember(v)>>
               on == "EN0" \in want <=> g  told == behind' \/ (csVcc' # 0 <=> g)
    <3>1. Begin(q) BY <1>8, <2>2 DEF SetSocket
    <3>2. g \in BOOLEAN /\ on \in BOOLEAN /\ told \in BOOLEAN /\ (v # 0 <=> g) OBVIOUS
    <3> HIDE DEF g, on, told
    <3>3. Ends(q, Switching, Leaving(g), on) /\ Ends(q, Remembering, Telling(g), told)
      BY <2>2, <3>2, SetSocketEnds
    <3> HIDE DEF q
    <3>4. QED BY <2>1, <3>1, <3>2, <3>3, SwitchStatus DEF on, told
  <2>3. CASE ~Known(v)
    <3> DEFINE g == v \in {33, 50}
               on == "EN0" \in want <=> g  told == behind' \/ (csVcc' # 0 <=> g)
    <3>1. c \in Seq(Calls) BY VccsAssumption, ConfigureType
    <3>2. Begin(c) /\ behind'
      <4>1. behind' /\ Begin(c \o <<>>) BY <1>8, <2>3 DEF SetSocket
      <4>2. c \o <<>> = c BY <3>1, ConcatEmptySeq
      <4>3. QED BY <4>1, <4>2
    <3>3. /\ g \in BOOLEAN /\ on \in BOOLEAN /\ told \in BOOLEAN /\ told
          /\ (v \in {33, 50} <=> g)
      BY <3>2
    <3> HIDE DEF g, on, told
    <3>4. /\ Ends(c, Switching, Leaving(g), FALSE)
          /\ \A i \in 1..Len(c) : c[i] \notin Remembering
      <4>1. v \in Nat BY VccsAssumption
      <4>2. QED BY <3>3, <4>1, ConfigureEnds, Zenon
    <3> HIDE DEF c
    <3>5. Ends(c, Switching, Leaving(g), on) BY <3>4 DEF Ends
    <3>6. Ends(c, Remembering, Telling(g), told) BY <3>1, <3>3, <3>4, EndsNone
    <3>7. QED BY <2>1, <3>2, <3>3, <3>5, <3>6, SwitchStatus DEF on, told
  <2>4. QED BY <2>2, <2>3
<1>9. CASE PcmciaInit \/ SocketInit \/ SocketSuspend
  <2> DEFINE on(g) == "EN0" \in want <=> g
             told(g) == behind' \/ (csVcc' # 0 <=> g)
  <2>1. PICK g \in BOOLEAN : ~g OBVIOUS
  <2>2. on(g) \in BOOLEAN /\ told(g) \in BOOLEAN OBVIOUS
  <2>3. CASE SocketInit
    <3> DEFINE q == <<Remember(0)>> \o DeadCalls
    <3>1. Begin(q) /\ socket' BY <2>3 DEF SocketInit, pcmciaVars
    <3> HIDE DEF on, told
    <3>2. Ends(q, Switching, Leaving(g), on(g)) /\ Ends(q, Remembering, Telling(g), told(g))
      BY <2>1, <2>2, DeadEnds
    <3> HIDE DEF q
    <3>3. QED BY <3>1, <3>2, SwitchStatus DEF on, told
  <2>4. CASE SocketSuspend
    <3> DEFINE q == DeadCalls \o <<Remember(0), SetBits({"PCMCIA_RESET"})>>
    <3>1. Begin(q) /\ socket' BY <2>4 DEF SocketSuspend, pcmciaVars
    <3> HIDE DEF on, told
    <3>2. Ends(q, Switching, Leaving(g), on(g)) /\ Ends(q, Remembering, Telling(g), told(g))
      BY <2>1, <2>2, DeadEnds
    <3> HIDE DEF q
    <3>3. QED BY <3>1, <3>2, SwitchStatus DEF on, told
  <2>5. CASE PcmciaInit
    <3> DEFINE q == PowerCalls(0)
    <3>1. q = <<ClearBits(SocketPower)>> BY DEF PowerCalls
    <3>2. Begin(q) /\ csVcc' = csVcc BY <2>5, <3>1 DEF PcmciaInit
    <3>3. csVcc = 0 BY <2>5 DEF PcmciaInit, StatusInv
    <3>4. told(g) BY <2>1, <3>2, <3>3
    <3> HIDE DEF on, told
    <3>5. /\ q \in Seq(Calls) /\ Ends(q, Switching, Leaving(g), FALSE)
          /\ \A i \in 1..Len(q) : q[i] \notin Remembering
      <4>1. 0 \in Nat /\ (0 \in {33, 50} <=> g) BY <2>1
      <4>2. QED BY <4>1, PowerCallsEnd
    <3> HIDE DEF q
    <3>6. Ends(q, Switching, Leaving(g), on(g)) BY <3>5 DEF Ends
    <3>7. Ends(q, Remembering, Telling(g), told(g)) BY <2>2, <3>4, <3>5, EndsNone
    <3>8. QED BY <3>2, <3>3, <3>5, <3>6, <3>7, SwitchStatus DEF on, told
  <2>6. QED BY <1>9, <2>3, <2>4, <2>5
<1>10. CASE Suspend \/ Resume \/ TimerInterrupt
  <2>1. PICK on \in BOOLEAN : Atomically(LedCall(on))
    BY <1>1, <1>10 DEF Suspend, Resume, TimerInterrupt
  <2>2. Aside(LedCall(on)) BY AsideCalls
  <2>3. want' = Effect(LedCall(on), want) /\ todo' = todo BY <2>1 DEF Atomically
  <2>4. "EN0" \in want' <=> "EN0" \in want BY <1>1, <2>2, <2>3, SwitchingEffect DEF Aside
  <2>5. UNCHANGED <<socket, csVcc, behind>> /\ power # "off"
    BY <1>10 DEF Suspend, Resume, TimerInterrupt, pcmciaVars
  <2>6. ASSUME NEW g \in BOOLEAN, SettlesAt(g) PROVE SettlesAt(g)'
    <3>1. ("EN0" \in want' <=> g) = ("EN0" \in want <=> g) BY <2>4
    <3>2. QED BY <2>3, <2>5, <2>6, <3>1 DEF SettlesAt
  <2>7. QED BY <2>3, <2>5, <2>6 DEF StatusInv
<1>11. CASE PowerOff
  <2>1. /\ power' = "off" /\ todo' = todo /\ UNCHANGED <<socket, csVcc>>
    BY <1>11 DEF PowerOff, Atomically, pcmciaVars
  <2>2. QED BY <2>1 DEF StatusInv
<1>12. QED
  BY <1>2, <1>3, <1>4, <1>5, <1>6, <1>7, <1>8, <1>9, <1>10, <1>11
     DEF Next, Proceed, Handler

\* When no call is under way Card Services is told the truth about the supply,
\* whatever configurations, suspends and shutdowns the socket has been through,
\* unless it was changed behind its back.
THEOREM PowerStatusIsTrue == Spec => []PowerStatusTrue
<1>1. Init => StatusInv
  <2> SUFFICES ASSUME Init PROVE StatusInv OBVIOUS
  <2>1. socket = FALSE /\ csVcc = 0 /\ todo = <<>> BY DEF Init
  <2>2. QED BY <2>1 DEF StatusInv
<1>2. Inv /\ StatusInv /\ [Next]_vars => StatusInv' BY NextStatus
<1>3. Inv /\ StatusInv => PowerStatusTrue
  <2> SUFFICES ASSUME Inv, StatusInv, power = "on", Idle, socket, ~behind
               PROVE  csVcc # 0 <=> "EN0" \in shadow
    BY DEF PowerStatusTrue
  <2>1. PICK g \in BOOLEAN : SettlesAt(g) BY DEF StatusInv
  <2> DEFINE on == "EN0" \in want <=> g  told == behind \/ (csVcc # 0 <=> g)
  <2>2. Ends(<<>>, Switching, Leaving(g), on) /\ Ends(<<>>, Remembering, Telling(g), told)
    BY <2>1 DEF SettlesAt, Idle
  <2>3. on \in BOOLEAN /\ told \in BOOLEAN OBVIOUS
  <2> HIDE DEF on, told
  <2>4. on /\ told BY <2>2, <2>3, EndsEmpty
  <2>5. AgreeButLed(shadow, want) BY DEF Inv, Cs3Inv, Cs3Type, InCall, Coherent, Idle
  <2>6. "EN0" \in shadow <=> "EN0" \in want BY <2>5 DEF AgreeButLed, LED
  <2>7. QED BY <2>4, <2>6 DEF on, told
<1>4. QED BY Invariance, <1>1, <1>2, <1>3, PTL DEF Spec
=============================================================================
