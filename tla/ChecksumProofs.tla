---------------------------- MODULE ChecksumProofs ----------------------------
(***************************************************************************)
(* What sendBlock()'s checksum is worth: proofs about the bits that it     *)
(* still holds at the end of a block, for every block of at least eight    *)
(* bytes, every image and any number of line errors.                       *)
(*                                                                         *)
(* An induction over the bytes of a block is an argument about the first   *)
(* byte for which the claim fails (LeastNumber).                           *)
(***************************************************************************)
EXTENDS SerialDownloadProofs, NaturalsInduction, WellFoundedInduction

\* A block is as long as what the checksum remembers, or longer.
LongBlock == BlockSize >= 8

\* Every set of numbers that is not empty has a least element.
LEMMA LeastNumber ==
    ASSUME NEW T \in SUBSET Nat, T # {}
    PROVE  \E x \in T : \A y \in T : x <= y
  <1> DEFINE R == OpToRel(<, Nat)
  <1>1. IsWellFoundedOn(R, Nat)
    BY NatLessThanWellFounded, Zenon
  <1>2. \A x, y \in Nat : y < x => <<y, x>> \in R
    BY DEF OpToRel
  <1> HIDE DEF R
  <1>3. PICK x \in T : \A y \in T : ~ (<<y, x>> \in R)
    BY <1>1, WFMin, Zenon
  <1>4. \A y \in T : ~(y < x)
    BY <1>2, <1>3, Zenon
  <1> QED BY <1>4

-----------------------------------------------------------------------------
(* The checksum after each byte.                                           *)

\* g is the checksum after each of the first n bytes of s, from the seed c.
RunsTo(g, c, s, n) ==
    g = [i \in 0..n |-> IF i = 0 THEN c ELSE CheckStep(g[i - 1], s[i])]

\* The values check takes in sendBlock()'s loop.
CheckRun(c, s) == CHOOSE g : RunsTo(g, c, s, Len(s))

\* Checksum() is the last of them.
LEMMA ChecksumIsLast ==
    ASSUME NEW c, NEW s PROVE Checksum(c, s) = UnsignedChar(CheckRun(c, s)[Len(s)])
BY DEF Checksum, CheckRun, RunsTo

\* They exist, for any number of bytes.
LEMMA RunExists == ASSUME NEW c, NEW s, NEW n \in Nat PROVE \E g : RunsTo(g, c, s, n)
  <1> DEFINE T == {k \in Nat : ~ \E g : RunsTo(g, c, s, k)}
  <1> SUFFICES ASSUME T # {} PROVE FALSE
    OBVIOUS
  <1>1. PICK k \in T : \A j \in T : k <= j
    BY LeastNumber
  <1>2. k # 0
    <2> DEFINE g == [i \in 0..0 |-> c]
    <2>1. g = [i \in 0..0 |-> IF i = 0 THEN c ELSE CheckStep(g[i - 1], s[i])]
      <3> SUFFICES ASSUME NEW i \in 0..0
                   PROVE  c = IF i = 0 THEN c ELSE CheckStep(g[i - 1], s[i])
        BY Zenon
      <3> QED OBVIOUS
    <2>2. RunsTo(g, c, s, 0)
      BY <2>1 DEF RunsTo
    <2> HIDE DEF g
    <2> QED BY <2>2
  <1>3. k - 1 \in Nat /\ k - 1 \notin T
    BY <1>1, <1>2
  <1>4. PICK g : RunsTo(g, c, s, k - 1)
    BY <1>3
  <1> DEFINE h == [i \in 0..k |-> IF i = k THEN CheckStep(g[k - 1], s[k]) ELSE g[i]]
  <1>5. RunsTo(h, c, s, k)
    <2> SUFFICES ASSUME NEW i \in 0..k
                 PROVE  (IF i = k THEN CheckStep(g[k - 1], s[k]) ELSE g[i])
                            = IF i = 0 THEN c ELSE CheckStep(h[i - 1], s[i])
      BY Zenon DEF RunsTo
    <2>1. i # 0 => h[i - 1] = g[i - 1]
      BY <1>1
    <2>2. i # k => g[i] = IF i = 0 THEN c ELSE CheckStep(g[i - 1], s[i])
      <3>1. i # k => i \in 0..(k - 1)
        BY <1>3
      <3> QED BY <1>4, <3>1 DEF RunsTo
    <2> HIDE DEF h
    <2> QED BY <1>2, <2>1, <2>2
  <1> HIDE DEF h
  <1> QED BY <1>1, <1>5

\* The first value is the seed, and each byte makes one step.
LEMMA RunSteps ==
    ASSUME NEW c \in Byte, NEW s \in Seq(Byte)
    PROVE  /\ CheckRun(c, s)[0] = c
           /\ \A i \in 1..Len(s) : CheckRun(c, s)[i] = CheckStep(CheckRun(c, s)[i - 1], s[i])
           /\ \A i \in 0..Len(s) : CheckRun(c, s)[i] \in Byte
  <1>1. Len(s) \in Nat
    BY LenProperties
  <1>2. RunsTo(CheckRun(c, s), c, s, Len(s))
    BY <1>1, RunExists, Zenon DEF CheckRun
  <1> DEFINE g == CheckRun(c, s)
  <1>3. g = [i \in 0..Len(s) |-> IF i = 0 THEN c ELSE CheckStep(g[i - 1], s[i])]
    BY <1>2 DEF RunsTo
  <1> HIDE DEF g
  <1>4. g[0] = c /\ \A i \in 1..Len(s) : g[i] = CheckStep(g[i - 1], s[i])
    BY <1>1, <1>3
  <1>5. \A i \in 0..Len(s) : i = 0 \/ i \in 1..Len(s)
    BY <1>1
  <1>6. \A i \in 0..Len(s) : g[i] \in Byte
    BY <1>4, <1>5, Zenon DEF CheckStep, UnsignedChar, Byte
  <1> QED BY <1>4, <1>6 DEF g

\* Bit b after a step: bit b - 1 before it, exclusive-or bit b of the byte.
LEMMA StepBit ==
    ASSUME NEW c \in Byte, NEW x \in Byte, NEW b \in Bits
    PROVE  b \in CheckStep(c, x) <=> ~ (b - 1 \in c <=> b \in x)
  <1>1. b \in ShiftLeft(c) <=> b - 1 \in c
    BY DEF ShiftLeft, Byte, Bits
  <1> QED BY <1>1, Zenon DEF CheckStep, UnsignedChar, Xor

\* Every value of the run is a byte, and UnsignedChar leaves bytes alone.
LEMMA ChecksumRun ==
    ASSUME NEW c \in Byte, NEW s \in Seq(Byte)
    PROVE  Checksum(c, s) = CheckRun(c, s)[Len(s)]
  <1>1. CheckRun(c, s)[Len(s)] \in Byte
    BY RunSteps, LenProperties
  <1> QED BY <1>1, ChecksumIsLast DEF UnsignedChar, Byte
-----------------------------------------------------------------------------
(* What the checksum forgets, and what it holds.                           *)

\* After i bytes the lowest i bits no longer depend on the seed.
LEMMA SeedFades ==
    ASSUME NEW c \in Byte, NEW d \in Byte, NEW s \in Seq(Byte)
    PROVE  \A i \in 0..Len(s) : \A b \in Bits :
               b < i => (b \in CheckRun(c, s)[i] <=> b \in CheckRun(d, s)[i])
  <1> DEFINE Same(i, b) == b \in CheckRun(c, s)[i] <=> b \in CheckRun(d, s)[i]
             T == {i \in 0..Len(s) : \E b \in Bits : b < i /\ ~ Same(i, b)}
  <1> SUFFICES ASSUME T # {} PROVE FALSE
    OBVIOUS
  <1>1. Len(s) \in Nat /\ T \in SUBSET Nat
    BY LenProperties
  <1> HIDE DEF T
  <1>2. PICK i \in T : \A j \in T : i <= j
    BY <1>1, LeastNumber
  <1>3. PICK b \in Bits : b < i /\ ~ Same(i, b)
    BY <1>2 DEF T
  <1>4. i \in 1..Len(s) /\ i - 1 \in 0..Len(s) /\ i - 1 \notin T
    BY <1>1, <1>2, <1>3 DEF T, Bits
  <1>5. s[i] \in Byte /\ CheckRun(c, s)[i - 1] \in Byte /\ CheckRun(d, s)[i - 1] \in Byte
    BY <1>4, RunSteps, ElementOfSeq
  <1>6. /\ b \in CheckRun(c, s)[i] <=> ~ (b - 1 \in CheckRun(c, s)[i - 1] <=> b \in s[i])
        /\ b \in CheckRun(d, s)[i] <=> ~ (b - 1 \in CheckRun(d, s)[i - 1] <=> b \in s[i])
    <2>1. /\ CheckRun(c, s)[i] = CheckStep(CheckRun(c, s)[i - 1], s[i])
          /\ CheckRun(d, s)[i] = CheckStep(CheckRun(d, s)[i - 1], s[i])
      BY <1>4, RunSteps
    <2> QED BY <1>5, <2>1, StepBit
  <1>7. b - 1 \in CheckRun(c, s)[i - 1] <=> b - 1 \in CheckRun(d, s)[i - 1]
    <2>1. CASE b = 0
      <3>1. b - 1 \notin Bits
        BY <2>1 DEF Bits
      <3> QED BY <1>5, <3>1, Zenon DEF Byte
    <2>2. CASE b # 0
      <3>1. b - 1 \in Bits /\ b - 1 < i - 1
        BY <1>1, <1>3, <1>4, <2>2 DEF Bits
      <3>2. Same(i - 1, b - 1)
        BY <1>4, <3>1 DEF T
      <3> QED BY <3>2
    <2> QED BY <2>1, <2>2
  <1> QED BY <1>3, <1>6, <1>7, Zenon

\* After eight bytes or more the seed does not matter: sendBlock() may go on
\* with what an earlier attempt left in check.
LEMMA SeedForgotten ==
    ASSUME NEW c \in Byte, NEW d \in Byte, NEW s \in Seq(Byte), Len(s) >= 8
    PROVE  Checksum(c, s) = Checksum(d, s)
  <1>1. Len(s) \in 0..Len(s) /\ \A b \in Bits : b < Len(s)
    BY LenProperties DEF Bits
  <1>2. \A b \in Bits : b \in CheckRun(c, s)[Len(s)] <=> b \in CheckRun(d, s)[Len(s)]
    BY <1>1, SeedFades
  <1>3. CheckRun(c, s)[Len(s)] \in Byte /\ CheckRun(d, s)[Len(s)] \in Byte
    BY <1>1, RunSteps
  <1>4. CheckRun(c, s)[Len(s)] = CheckRun(d, s)[Len(s)]
    BY <1>2, <1>3, Zenon DEF Byte
  <1> QED BY <1>4, ChecksumRun

\* t is s with bit b of byte p flipped.
Flipped(s, t, p, b) ==
    /\ s \in Seq(Byte) /\ t \in Seq(Byte) /\ Len(t) = Len(s)
    /\ p \in 1..Len(s) /\ b \in Bits
    /\ \A i \in 1..Len(s) : i # p => t[i] = s[i]
    /\ t[p] = Xor(s[p], {b})

\* Up to the flipped bit the two checksums are the same.
LEMMA SameBefore ==
    ASSUME NEW c \in Byte, NEW s, NEW t, NEW p, NEW b, Flipped(s, t, p, b)
    PROVE  CheckRun(c, s)[p - 1] = CheckRun(c, t)[p - 1]
  <1> DEFINE T == {i \in 0..(p - 1) : CheckRun(c, s)[i] # CheckRun(c, t)[i]}
  <1>1. Len(s) \in Nat /\ p \in 1..Len(s) /\ T \in SUBSET Nat
    BY LenProperties DEF Flipped
  <1> HIDE DEF T
  <1>2. T = {}
    <2> SUFFICES ASSUME T # {} PROVE FALSE
      OBVIOUS
    <2>1. PICK i \in T : \A j \in T : i <= j
      BY <1>1, LeastNumber
    <2>2. CheckRun(c, s)[0] = CheckRun(c, t)[0]
      BY RunSteps DEF Flipped
    <2>3. i \in 1..Len(s) /\ i # p /\ i - 1 \notin T /\ i - 1 \in 0..(p - 1)
      BY <1>1, <2>1, <2>2 DEF T
    <2>4. CheckRun(c, s)[i - 1] = CheckRun(c, t)[i - 1]
      BY <2>3 DEF T
    <2>5. s[i] = t[i]
      BY <2>3 DEF Flipped
    <2>6. /\ CheckRun(c, s)[i] = CheckStep(CheckRun(c, s)[i - 1], s[i])
          /\ CheckRun(c, t)[i] = CheckStep(CheckRun(c, t)[i - 1], t[i])
      BY <2>3, RunSteps DEF Flipped
    <2>7. CheckRun(c, s)[i] = CheckRun(c, t)[i]
      BY <2>4, <2>5, <2>6, Zenon
    <2> QED BY <2>1, <2>7 DEF T
  <1>3. p - 1 \in 0..(p - 1)
    BY <1>1
  <1> QED BY <1>2, <1>3 DEF T

\* From then on they differ in a bit that moves up by one with every byte, until
\* it is shifted out.
LEMMA FlipMovesUp ==
    ASSUME NEW c \in Byte, NEW s, NEW t, NEW p, NEW b, Flipped(s, t, p, b)
    PROVE  \A j \in p..Len(s) : b + (j - p) \in Bits =>
               ~ (b + (j - p) \in CheckRun(c, s)[j] <=> b + (j - p) \in CheckRun(c, t)[j])
  <1> DEFINE Differ(j, k) == ~ (k \in CheckRun(c, s)[j] <=> k \in CheckRun(c, t)[j])
             T == {j \in p..Len(s) : b + (j - p) \in Bits /\ ~ Differ(j, b + (j - p))}
  <1>1. /\ Len(s) \in Nat /\ p \in 1..Len(s) /\ b \in Bits /\ T \in SUBSET Nat
        /\ s \in Seq(Byte) /\ t \in Seq(Byte) /\ Len(t) = Len(s)
    BY LenProperties DEF Flipped
  <1> SUFFICES ASSUME T # {} PROVE FALSE
    OBVIOUS
  <1> HIDE DEF T
  <1>2. PICK j \in T : \A i \in T : j <= i
    BY <1>1, LeastNumber
  <1>3. j \in p..Len(s) /\ b + (j - p) \in Bits /\ ~ Differ(j, b + (j - p))
    BY <1>2 DEF T
  <1>4. j \in 1..Len(s) /\ j \in 1..Len(t) /\ j - 1 \in 0..Len(s) /\ j - 1 \in 0..Len(t)
    BY <1>1, <1>3
  <1> DEFINE k == b + (j - p)
  <1>5. k \in Bits
    BY <1>3
  <1> HIDE DEF k
  <1>6. /\ s[j] \in Byte /\ t[j] \in Byte
        /\ CheckRun(c, s)[j - 1] \in Byte /\ CheckRun(c, t)[j - 1] \in Byte
    BY <1>1, <1>4, RunSteps, ElementOfSeq
  <1>7. /\ k \in CheckRun(c, s)[j] <=> ~ (k - 1 \in CheckRun(c, s)[j - 1] <=> k \in s[j])
        /\ k \in CheckRun(c, t)[j] <=> ~ (k - 1 \in CheckRun(c, t)[j - 1] <=> k \in t[j])
    <2>1. /\ CheckRun(c, s)[j] = CheckStep(CheckRun(c, s)[j - 1], s[j])
          /\ CheckRun(c, t)[j] = CheckStep(CheckRun(c, t)[j - 1], t[j])
      BY <1>1, <1>4, RunSteps
    <2> QED BY <1>5, <1>6, <2>1, StepBit
  <1>8. Differ(j, k)
    <2>1. CASE j = p
      <3>1. k = b /\ t[j] = Xor(s[j], {b})
        BY <1>1, <2>1 DEF k, Flipped, Bits
      <3>2. ~ (k \in s[j] <=> k \in t[j])
        BY <3>1, Zenon DEF Xor
      <3>3. CheckRun(c, s)[j - 1] = CheckRun(c, t)[j - 1]
        BY <2>1, SameBefore
      <3> QED BY <1>7, <3>2, <3>3, Zenon
    <2>2. CASE j # p
      <3>1. j - 1 \in p..Len(s) /\ j - 1 \notin T /\ k - 1 = b + ((j - 1) - p) /\ k - 1 \in Bits
        BY <1>1, <1>2, <1>3, <1>5, <2>2 DEF k, Bits
      <3>2. Differ(j - 1, k - 1)
        BY <3>1 DEF T
      <3>3. s[j] = t[j]
        BY <1>4, <2>2 DEF Flipped
      <3> QED BY <1>7, <3>2, <3>3, Zenon
    <2> QED BY <2>1, <2>2
  <1> QED BY <1>3, <1>8 DEF k

\* A flipped bit that is not shifted out by the end shows in the checksum.
LEMMA FlipShows ==
    ASSUME NEW c \in Byte, NEW s, NEW t, NEW p, NEW b, Flipped(s, t, p, b),
           b + (Len(s) - p) \in Bits
    PROVE  Checksum(c, s) # Checksum(c, t)
  <1>1. Len(s) \in p..Len(s) /\ s \in Seq(Byte) /\ t \in Seq(Byte) /\ Len(t) = Len(s)
    BY LenProperties DEF Flipped
  <1>2. CheckRun(c, s)[Len(s)] # CheckRun(c, t)[Len(s)]
    BY <1>1, FlipMovesUp
  <1> QED BY <1>1, <1>2, ChecksumRun
-----------------------------------------------------------------------------
(* The checksum that sendBlock() sends.                                    *)

\* While a block is sent, check and the block stay what SendData made them.
LEMMA HostKeepsCheck ==
    ASSUME Host, pc' \in {"blockStx", "mark", "check", "blockAck"}
    PROVE  \/ SendData
           \/ /\ pc \in {"blockStx", "mark", "check", "blockAck"}
              /\ UNCHANGED <<check, image, sent>>
  <1>1. CASE ParseArguments \/ OpenSerialPort \/ LoadFile \/ SlowBaud \/ FastBaud \/ Finish
    BY <1>1 DEF ParseArguments, OpenSerialPort, LoadFile, SlowBaud, FastBaud, Finish,
                ChangeBaudRate, Goto, Exit
  <1>2. CASE Hello \/ BaudReply \/ Burnt
    BY <1>2 DEF Hello, BaudReply, Burnt, Await, Goto
  <1>3. CASE SendBaudRate \/ Synchronise
    BY <1>3 DEF SendBaudRate, Synchronise, Await, ConnectWrite, Write, Goto, Exit
  <1>4. CASE EraseRegistry \/ PowerOff
    BY <1>4 DEF EraseRegistry, PowerOff, SendCommand, Write, Goto
  <1>5. CASE NextBlock
    BY <1>5 DEF NextBlock
  <1>6. CASE DataReceived
    BY <1>6 DEF DataReceived, Await
  <1>7. CASE SendMark \/ SendCheck
    BY <1>7 DEF SendMark, SendCheck, BlockWrite, Write, Goto, Return
  <1>8. CASE BlockReply
    BY <1>8 DEF BlockReply, Goto, Return
  <1> QED BY <1>1, <1>2, <1>3, <1>4, <1>5, <1>6, <1>7, <1>8 DEF Host

\* The block that is being sent is one of full size.
LEMMA CurrentType ==
    ASSUME Types
    PROVE  Current \in Seq(Byte) /\ Len(Current) = BlockSize /\ BlockSize \in Nat
  <1>1. image \in Seq(Byte) /\ sent + 1 \in Nat \ {0}
    BY ImagesAssumption DEF Types, HostType
  <1> QED BY <1>1, BlockType, BlockSizeAssumption DEF Current

\* Every step keeps check the checksum of the block that is being sent.
LEMMA NextFresh ==
    ASSUME LongBlock, Types, CheckIsFresh, [Next]_vars PROVE CheckIsFresh'
  <1> SUFFICES ASSUME pc' \in {"blockStx", "mark", "check", "blockAck"}
               PROVE  check' = Checksum(Seed, Current')
    BY DEF CheckIsFresh
  <1>1. CASE SendData /\ ~ UNCHANGED sent
    BY <1>1 DEF SendData, BlockWrite, Write, Return, Goto
  <1>2. CASE SendData /\ UNCHANGED sent
    <2>1. check' = Checksum(check, Current) /\ Current' = Current
      BY <1>2 DEF SendData, Current
    <2>2. check \in Byte /\ Seed \in Byte
      BY ControlBytes DEF Types, HostType
    <2>3. Checksum(check, Current) = Checksum(Seed, Current)
      BY <2>2, CurrentType, SeedForgotten DEF LongBlock
    <2> QED BY <2>1, <2>3
  <1>3. CASE /\ pc \in {"blockStx", "mark", "check", "blockAck"}
             /\ UNCHANGED <<check, image, sent>>
    BY <1>3 DEF CheckIsFresh, Current
  <1>4. CASE Host
    BY <1>1, <1>2, <1>3, <1>4, HostKeepsCheck
  <1>5. CASE BootStep \/ BootText \/ LineError \/ UNCHANGED vars
    <2>1. UNCHANGED hostVars
      BY <1>5 DEF BootStep, BootText, LineError, BootHello, BootBaud, BootSync, BootData,
                  BootVerify, BootBurnt, BootSay, vars
    <2> QED BY <1>3, <2>1 DEF hostVars
  <1> QED BY <1>4, <1>5 DEF Next

\* The value sendBlock() sends after a block is the checksum of that block,
\* however often it has sent it before and whatever write() returned: what an
\* earlier attempt left in check has been shifted out.
THEOREM CheckAlwaysFresh == ASSUME LongBlock PROVE Spec => []CheckIsFresh
  <1>1. Init => CheckIsFresh
    BY DEF Init, CheckIsFresh
  <1> QED BY <1>1, InitTypes, NextTypes, NextFresh, PTL DEF Spec
-----------------------------------------------------------------------------
(* What the bootloader accepts.                                            *)

\* The bytes arrived as they were sent, or with one bit flipped if a line error
\* struck the attempt.
Arrived(bytes) ==
    \/ bytes = Current
    \/ hit /\ \E p, b : Flipped(Current, bytes, p, b)

\* The block on the line, the block received, and the checksum on the line: only
\* one of the three has been struck.
BlockOnLine ==
    bpc = "data" /\ pc = "blockStx" /\ Len(tx) = BlockSize
        => Arrived(tx) /\ (~hit => tx = Current)
BlockHeld == bpc = "mark" => Arrived(buf) /\ (~hit => buf = Current)
CheckOnLine ==
    bpc = "mark" /\ pc = "blockAck" /\ Len(tx) = 2
        => tx[2] = check \/ (hit /\ buf = Current)

DataInv == BlockOnLine /\ BlockHeld /\ CheckOnLine /\ TailIntact

\* A block with the checksum of the one that was sent differs from it at most in
\* bits that the checksum does not hold.
LEMMA AcceptedTail ==
    ASSUME LongBlock, Types, Arrived(buf), Checksum(Seed, buf) = Checksum(Seed, Current)
    PROVE  SameTail(buf, Current)
  <1>1. /\ Current \in Seq(Byte) /\ Len(Current) = BlockSize
        /\ BlockSize \in Nat /\ BlockSize >= 8 /\ Seed \in Byte
    BY CurrentType, ControlBytes DEF LongBlock
  <1>2. CASE buf = Current
    BY <1>2 DEF SameTail
  <1>3. CASE \E p, b : Flipped(Current, buf, p, b)
    <2>1. PICK p, b : Flipped(Current, buf, p, b)
      BY <1>3
    <2>2. b + (BlockSize - p) \notin Bits
      BY <1>1, <2>1, FlipShows
    <2>3. p \in 1..BlockSize /\ b \in Bits
      BY <1>1, <2>1 DEF Flipped
    <2> SUFFICES ASSUME NEW k \in Bits
                 PROVE  buf[BlockSize - k] \cap Held(k) = Current[BlockSize - k] \cap Held(k)
      BY DEF SameTail
    <2>4. BlockSize - k \in 1..BlockSize
      BY <1>1 DEF Bits
    <2>5. CASE BlockSize - k # p
      BY <1>1, <2>1, <2>4, <2>5 DEF Flipped
    <2>6. CASE BlockSize - k = p
      <3>1. b \notin Held(k)
        BY <1>1, <2>2, <2>3, <2>6 DEF Held, Bits
      <3>2. buf[p] = Xor(Current[p], {b})
        BY <2>1 DEF Flipped
      <3> QED BY <2>6, <3>1, <3>2, Zenon DEF Xor
    <2> QED BY <2>5, <2>6
  <1> QED BY <1>2, <1>3 DEF Arrived

\* Where a block waits for its mark, and what the other places exclude.
LEMMA MarkPlaces ==
    ASSUME Conversation
    PROVE  /\ bpc = "mark" => Sending /\ pc \in {"blockStx", "mark", "check", "blockAck"}
           /\ bpc = "mark" /\ rx # <<>> => pc = "blockStx"
           /\ pc = "blockStx" /\ rx # <<>> => bpc = "mark"
           /\ pc = "block" => bpc = "data" /\ tx = <<>>
           /\ pc = "check" => Len(tx) <= 1
  BY Zenon DEF Conversation, Setup, Greeting, Negotiation, Resync, Sending, Accepted, Between,
         Ending, Aborted, Silent

\* Whatever leaves the block, the verdict and the blocks accepted alone.
LEMMA DataKept ==
    ASSUME DataInv, UNCHANGED <<image, sent, flash, buf, hit>>
    PROVE  /\ Current' = Current /\ TailIntact' /\ (bpc' = bpc => BlockHeld')
           /\ \A bytes : Arrived(bytes) => Arrived(bytes)'
  <1>1. Current' = Current
    BY DEF Current
  <1>2. TailIntact'
    BY DEF DataInv, TailIntact, SameTail
  <1>3. \A bytes : Arrived(bytes) => Arrived(bytes)'
    BY <1>1 DEF Arrived, Flipped
  <1>4. bpc' = bpc => BlockHeld'
    BY <1>1 DEF DataInv, BlockHeld, Arrived, Flipped
  <1> QED BY <1>1, <1>2, <1>3, <1>4
\* Sending the bytes of a block: what is on the line is the block, or less.
LEMMA SendDataData ==
    ASSUME NoZeroWrite, Types, Conversation, DataInv, SendData PROVE DataInv'
  <1>1. /\ pc = "block" /\ pc' = "blockStx" /\ ~hit' /\ Write(Current, TRUE, TRUE)
        /\ UNCHANGED <<image, sent, flash, buf, bpc, rx>>
    BY DEF SendData, BlockWrite, Write, NoZeroWrite, Goto, bootVars
  <1>2. bpc = "data" /\ tx = <<>> /\ tx \in Seq(Byte)
    BY <1>1, MarkPlaces DEF Types, LineType
  <1>3. Current' = Current /\ TailIntact'
    BY <1>1 DEF Current, DataInv, TailIntact, SameTail
  <1>4. Len(tx') = BlockSize => tx' = Current
    <2>1. Len(tx') = Len(tx) + Len(Current) => tx' = tx \o Current
      BY <1>1, <1>2, CurrentType, WriteLeaves
    <2>2. Len(tx) + Len(Current) = BlockSize /\ tx \o Current = Current
      BY <1>2, CurrentType, ConcatEmptySeq
    <2> QED BY <2>1, <2>2
  <1>5. BlockOnLine'
    BY <1>1, <1>3, <1>4 DEF BlockOnLine, Arrived
  <1>6. BlockHeld' /\ CheckOnLine'
    BY <1>1, <1>2 DEF BlockHeld, CheckOnLine
  <1> QED BY <1>3, <1>5, <1>6 DEF DataInv

\* A byte written after one byte.
LEMMA SecondByte ==
    ASSUME NEW s \in Seq(Byte), Len(s) = 1, NEW c \in Byte PROVE (s \o <<c>>)[2] = c
  <1>1. <<c>> \in Seq(Byte) /\ Len(<<c>>) = 1 /\ <<c>>[1] = c
    OBVIOUS
  <1>2. 2 \in 1..Len(s) + Len(<<c>>) /\ ~ (2 <= Len(s)) /\ 2 - Len(s) = 1
    BY <1>1
  <1> DEFINE u == <<c>>
  <1> HIDE DEF u
  <1>3. \A i \in 1..Len(s) + Len(u) :
          (s \o u)[i] = IF i <= Len(s) THEN s[i] ELSE u[i - Len(s)]
    BY <1>1, ConcatProperties DEF u
  <1> QED BY <1>1, <1>2, <1>3 DEF u

\* The mark and the checksum: what is on the line second is the checksum.
LEMMA SendMarkData ==
    ASSUME NoZeroWrite, Types, Conversation, DataInv, SendMark \/ SendCheck PROVE DataInv'
  <1>1. /\ UNCHANGED <<image, sent, flash, buf, bpc, rx, hit, check>>
        /\ \/ pc = "mark" /\ pc' = "check"
           \/ pc = "check" /\ pc' = "blockAck" /\ Write(<<check>>, TRUE, TRUE)
    BY DEF SendMark, SendCheck, BlockWrite, Write, NoZeroWrite, Goto, bootVars, noiseVars
  <1>2. TailIntact' /\ BlockHeld'
    BY <1>1, DataKept
  <1>3. BlockOnLine'
    BY <1>1 DEF BlockOnLine
  <1>4. CheckOnLine'
    <2> SUFFICES ASSUME pc' = "blockAck", Len(tx') = 2 PROVE tx'[2] = check'
      BY DEF CheckOnLine
    <2>1. pc = "check" /\ Write(<<check>>, TRUE, TRUE)
      BY <1>1
    <2>2. /\ tx \in Seq(Byte) /\ <<check>> \in Seq(Byte) /\ Len(<<check>>) = 1
          /\ <<check>>[1] = check
      BY DEF Types, LineType, HostType
    <2>3. /\ Len(tx') <= Len(tx) + 1
          /\ Len(tx') = Len(tx) + 1 => tx' = tx \o <<check>>
      BY <2>1, <2>2, WriteLeaves
    <2>4. Len(tx) \in Nat /\ tx' \in Seq(Byte) /\ Len(tx') \in Nat
      BY <2>1, <2>2, WriteTypes, LenProperties DEF Write
    <2>5. Len(tx) <= 1
      BY <2>1, MarkPlaces
    <2>6. Len(tx) = 1 /\ Len(tx') = Len(tx) + 1
      BY <2>3, <2>4, <2>5, Lengths, Zenon
    <2>7. tx' = tx \o <<check>>
      BY <2>3, <2>6
    <2>8. (tx \o <<check>>)[2] = check
      BY <2>2, <2>6, SecondByte DEF Types, HostType
    <2> QED BY <1>1, <2>7, <2>8
  <1> QED BY <1>2, <1>3, <1>4 DEF DataInv

\* The other steps of the host happen when no block waits for its mark, or leave
\* everything as it is.
LEMMA HostData ==
    ASSUME NoZeroWrite, Types, Conversation, DataInv, Host PROVE DataInv'
  <1>1. CASE SendData
    BY <1>1, SendDataData
  <1>2. CASE SendMark \/ SendCheck
    BY <1>2, SendMarkData
  <1>3. CASE DataReceived
    <2>1. /\ pc = "blockStx" /\ rx # <<>> /\ pc' \in {"blockStx", "mark"}
          /\ UNCHANGED <<image, sent, flash, buf, bpc, tx, hit>>
      BY <1>3 DEF DataReceived, Await, ReadByte, bootVars, noiseVars
    <2>2. bpc = "mark"
      BY <2>1, MarkPlaces
    <2>3. BlockOnLine' /\ CheckOnLine'
      BY <2>1, <2>2 DEF BlockOnLine, CheckOnLine
    <2>4. TailIntact' /\ BlockHeld'
      BY <2>1, DataKept
    <2> QED BY <2>3, <2>4 DEF DataInv
  <1>4. CASE BlockReply
    <2>1. /\ pc = "blockAck" /\ rx # <<>> /\ pc' \in {"main", "block", "blockAck"}
          /\ UNCHANGED <<image, flash, bpc>>
      BY <1>4 DEF BlockReply, ReadByte, Return, Goto, bootVars
    <2>2. bpc # "mark"
      BY <2>1, MarkPlaces
    <2>3. BlockOnLine' /\ BlockHeld' /\ CheckOnLine'
      BY <2>1, <2>2 DEF BlockOnLine, BlockHeld, CheckOnLine
    <2>4. TailIntact'
      BY <2>1 DEF DataInv, TailIntact, SameTail
    <2> QED BY <2>3, <2>4 DEF DataInv
  <1>5. CASE /\ pc \notin {"blockStx", "mark", "check", "blockAck"} /\ pc' # "blockStx"
             /\ UNCHANGED <<image, flash, bpc>>
    <2>1. bpc # "mark"
      BY <1>5, MarkPlaces
    <2>2. BlockOnLine' /\ BlockHeld' /\ CheckOnLine'
      BY <1>5, <2>1 DEF BlockOnLine, BlockHeld, CheckOnLine
    <2>3. TailIntact'
      BY <1>5 DEF DataInv, TailIntact, SameTail
    <2> QED BY <2>2, <2>3 DEF DataInv
  <1>6. CASE ParseArguments \/ OpenSerialPort \/ LoadFile \/ SlowBaud \/ FastBaud \/ Finish
    BY <1>5, <1>6 DEF ParseArguments, OpenSerialPort, LoadFile, SlowBaud, FastBaud, Finish,
                ChangeBaudRate, Goto, Exit, bootVars
  <1>7. CASE Hello \/ BaudReply \/ Burnt
    BY <1>5, <1>7 DEF Hello, BaudReply, Burnt, Await, Goto, bootVars
  <1>8. CASE SendBaudRate \/ Synchronise
    BY <1>5, <1>8 DEF SendBaudRate, Synchronise, Await, ConnectWrite, Write, Goto, Exit,
                bootVars
  <1>9. CASE EraseRegistry \/ PowerOff
    BY <1>5, <1>9 DEF EraseRegistry, PowerOff, SendCommand, Write, Goto, bootVars
  <1>10. CASE NextBlock
    BY <1>5, <1>10 DEF NextBlock, bootVars
  <1> QED
    BY <1>1, <1>2, <1>3, <1>4, <1>6, <1>7, <1>8, <1>9, <1>10 DEF Host
\* A block arrives: what the bootloader holds is what was on the line.
LEMMA BootDataData ==
    ASSUME Types, Conversation, DataInv, BootData PROVE DataInv'
  <1>1. tx \in Seq(Byte) /\ BlockSize \in Nat \ {0}
    BY BlockSizeAssumption DEF Types, LineType
  <1>2. /\ bpc = "data" /\ bpc' = "mark" /\ buf' = SubSeq(tx, 1, BlockSize)
        /\ tx' = SubSeq(tx, BlockSize + 1, Len(tx)) /\ Len(tx) >= BlockSize
        /\ UNCHANGED <<pc, image, sent, check, flash, hit>>
    BY DEF BootData, hostVars, noiseVars
  <1>3. Sending /\ pc = "blockStx" /\ Len(tx) = BlockSize
    <2>1. tx # <<>>
      BY <1>1, <1>2
    <2>2. Sending /\ pc = "blockStx" /\ Len(tx) <= BlockSize
      BY <1>2, <2>1 DEF Conversation, Setup, Greeting, Negotiation, Resync, Sending, Accepted,
             Between, Ending, Aborted, Silent
    <2>3. Len(tx) \in Nat
      BY <1>1, LenProperties
    <2> QED BY <1>1, <1>2, <2>2, <2>3, Lengths, Zenon
  <1>4. buf' = tx
    <2>1. SubSeq(tx, 1, Len(tx)) = tx
      BY <1>1, SubSeqFull
    <2> QED BY <1>2, <1>3, <2>1
  <1>5. Current' = Current /\ TailIntact'
    BY <1>2 DEF Current, DataInv, TailIntact, SameTail
  <1>6. BlockHeld'
    <2>1. Arrived(tx) /\ (~hit => tx = Current)
      BY <1>2, <1>3 DEF DataInv, BlockOnLine
    <2>2. Arrived(buf)'
      BY <1>2, <1>4, <1>5, <2>1, Zenon DEF Arrived
    <2> QED BY <1>2, <1>4, <1>5, <2>1, <2>2, Zenon DEF BlockHeld
  <1>7. BlockOnLine' /\ CheckOnLine'
    BY <1>2, <1>3 DEF BlockOnLine, CheckOnLine
  <1> QED BY <1>5, <1>6, <1>7 DEF DataInv

\* The bootloader's verdict: a block it accepts has the bits that count.
LEMMA BootVerifyData ==
    ASSUME LongBlock, Types, Conversation, CheckIsFresh, DataInv, BootVerify PROVE DataInv'
  <1>1. /\ tx \in Seq(Byte) /\ flash \in Seq(Seq(Byte)) /\ buf \in Seq(Byte)
        /\ Len(flash) \in Nat
    BY LenProperties DEF Types, LineType, BootType
  <1>2. bpc = "mark" /\ Len(tx) >= 2 /\ UNCHANGED <<pc, image, sent, check, buf, hit>>
    BY DEF BootVerify, hostVars, noiseVars
  <1>3. Sending /\ pc = "blockAck" /\ Len(tx) = 2 /\ Len(flash) = sent
    <2>1. tx # <<>> /\ Len(tx) \in Nat /\ 2 \in Nat
      BY <1>1, <1>2, LenProperties
    <2>2. Sending
      BY <1>2, MarkPlaces
    <2>3. ~ (Len(tx) <= 1)
      BY <1>2, <2>1, Lengths, Zenon
    <2>4. pc = "blockAck" /\ Len(tx) <= 2 /\ Len(flash) = sent
      BY <1>2, <2>1, <2>2, <2>3, Zenon DEF Sending, Silent
    <2> QED BY <1>2, <2>1, <2>2, <2>4, Lengths, Zenon
  <1>4. bpc' # "mark" /\ pc' # "blockStx"
    BY <1>2, <1>3 DEF BootVerify
  <1>5. BlockOnLine' /\ BlockHeld' /\ CheckOnLine'
    BY <1>4 DEF BlockOnLine, BlockHeld, CheckOnLine
  <1>6. TailIntact'
    <2>1. CASE tx[2] = Checksum(Seed, buf)
      <3>1. flash' = Append(flash, buf)
        BY <2>1 DEF BootVerify
      <3>2. check = Checksum(Seed, Current)
        BY <1>3 DEF CheckIsFresh
      <3>3. Arrived(buf) /\ (tx[2] = check \/ buf = Current)
        BY <1>2, <1>3 DEF DataInv, BlockHeld, CheckOnLine
      <3>4. Checksum(Seed, buf) = Checksum(Seed, Current)
        BY <2>1, <3>2, <3>3
      <3>5. SameTail(buf, Current)
        BY <3>3, <3>4, AcceptedTail
      <3>6. /\ Len(flash') = Len(flash) + 1 /\ flash'[Len(flash) + 1] = buf
            /\ \A n \in 1..Len(flash) : flash'[n] = flash[n]
        BY <1>1, <3>1, AppendProperties
      <3>7. ASSUME NEW n \in 1..Len(flash') PROVE SameTail(flash'[n], Block(image, n))
        <4>1. CASE n = Len(flash) + 1
          BY <1>3, <3>5, <3>6, <4>1 DEF Current
        <4>2. CASE n # Len(flash) + 1
          <5>1. n \in 1..Len(flash)
            BY <1>1, <3>6, <4>2
          <5> QED BY <3>6, <5>1 DEF DataInv, TailIntact
        <4> QED BY <4>1, <4>2
      <3> QED BY <1>2, <3>7 DEF TailIntact, SameTail
    <2>2. CASE tx[2] # Checksum(Seed, buf)
      <3>1. flash' = flash
        BY <2>2 DEF BootVerify
      <3> QED BY <1>2, <3>1 DEF DataInv, TailIntact, SameTail
    <2> QED BY <2>1, <2>2
  <1> QED BY <1>5, <1>6 DEF DataInv

\* The bootloader's other steps leave the blocks alone.
LEMMA BootOtherData ==
    ASSUME Conversation, DataInv, BootHello \/ BootBaud \/ BootSync \/ BootText \/ BootBurnt
    PROVE  DataInv'
  <1>1. /\ UNCHANGED <<pc, image, sent, flash>> /\ bpc' # "mark"
        /\ bpc' = "data" => bpc = "ready"
    BY DEF BootHello, BootBaud, BootSync, BootText, BootBurnt, BootSay, hostVars
  <1>2. bpc = "ready" => pc # "blockStx"
    BY DEF Conversation, Setup, Greeting, Negotiation, Resync, Sending, Accepted, Between,
         Ending, Aborted
  <1>3. BlockOnLine' /\ BlockHeld' /\ CheckOnLine'
    BY <1>1, <1>2 DEF BlockOnLine, BlockHeld, CheckOnLine
  <1>4. TailIntact'
    BY <1>1 DEF DataInv, TailIntact, SameTail
  <1> QED BY <1>3, <1>4 DEF DataInv
\* A line error flips one bit of a block that has not been struck, or of its
\* checksum when the block has arrived unharmed.
LEMMA LineErrorData ==
    ASSUME Types, Conversation, CheckIsFresh, DataInv, LineError PROVE DataInv'
  <1>1. tx \in Seq(Byte) /\ hit \in BOOLEAN /\ Len(tx) \in Nat
    BY LenProperties DEF Types, LineType, NoiseType
  <1>2. PICK i \in Strikable, b \in Bits : tx' = [tx EXCEPT ![i] = Xor(tx[i], {b})]
    BY DEF LineError
  <1>3. i \in 1..Len(tx) /\ (bpc # "data" => i # 1)
    BY <1>1, <1>2 DEF Strikable
  <1>4. /\ ~hit /\ hit' = TRUE /\ Exposed
        /\ UNCHANGED <<pc, image, sent, check, flash, buf, bpc>>
    BY DEF LineError, hostVars, bootVars
  <1>5. Current' = Current /\ TailIntact'
    BY <1>4 DEF Current, DataInv, TailIntact, SameTail
  <1>6. BlockHeld'
    BY <1>4, <1>5, Zenon DEF DataInv, BlockHeld, Arrived
  <1>7. BlockOnLine'
    <2> SUFFICES ASSUME bpc = "data", pc = "blockStx", Len(tx') = BlockSize
                 PROVE  \E p, q : Flipped(Current, tx', p, q)
      BY <1>4, <1>5, Zenon DEF BlockOnLine, Arrived
    <2>1. Len(tx') = Len(tx)
      BY <1>1, <1>2
    <2>2. tx = Current
      BY <1>4, <2>1 DEF DataInv, BlockOnLine
    <2>3. tx[i] \in Byte
      BY <1>1, <1>3, ElementOfSeq
    <2>4. tx' \in Seq(Byte)
      <3>1. Xor(tx[i], {b}) \in Byte
        BY <2>3, XorType
      <3> QED BY <1>1, <1>2, <1>3, <3>1, ExceptSeq
    <2>5. Flipped(tx, tx', i, b)
      BY <1>1, <1>2, <1>3, <2>1, <2>4 DEF Flipped
    <2> QED BY <2>2, <2>5
  <1>8. CheckOnLine'
    <2> SUFFICES ASSUME bpc = "mark" PROVE hit' /\ buf' = Current'
      BY <1>4 DEF CheckOnLine
    <2> QED BY <1>4, <1>5 DEF DataInv, BlockHeld
  <1> QED BY <1>5, <1>6, <1>7, <1>8 DEF DataInv

\* Every step preserves it.
LEMMA NextData ==
    ASSUME LongBlock, NoZeroWrite, Types, Conversation, CheckIsFresh, DataInv, [Next]_vars
    PROVE  DataInv'
  <1>1. CASE Host
    BY <1>1, HostData
  <1>2. CASE BootStep \/ BootText
    BY <1>2, BootDataData, BootVerifyData, BootOtherData DEF BootStep
  <1>3. CASE LineError
    BY <1>3, LineErrorData
  <1>4. CASE UNCHANGED vars
    <2>1. UNCHANGED <<pc, image, sent, check, tx, flash, buf, bpc, hit>>
      BY <1>4 DEF vars, hostVars, bootVars, noiseVars
    <2>2. Current' = Current
      BY <2>1 DEF Current
    <2> QED
      BY <2>1, <2>2 DEF DataInv, BlockOnLine, BlockHeld, CheckOnLine, Arrived, TailIntact,
             SameTail
  <1> QED BY <1>1, <1>2, <1>3, <1>4 DEF Next

-----------------------------------------------------------------------------
(* The download implements the transfer of the padded blocks.              *)

\* Without line errors the bootloader holds the very blocks of the image.
CleanInv ==
    /\ hit => noise > 0
    /\ noise = 0 => \A n \in 1..Len(flash) : flash[n] = Block(image, n)

DownloadInv == Types /\ Conversation /\ CheckIsFresh /\ DataInv /\ CleanInv

\* Only the bootloader's verdict adds a block, and only the line makes noise.
LEMMA WhoChangesWhat ==
    ASSUME [Next]_vars
    PROVE  /\ image' = image
           /\ BootVerify \/ flash' = flash
           /\ LineError \/ noise' = noise
           /\ LineError \/ hit' = hit \/ hit' = FALSE
  <1>1. CASE ParseArguments \/ OpenSerialPort \/ LoadFile \/ SlowBaud \/ FastBaud \/ Finish
    BY <1>1 DEF ParseArguments, OpenSerialPort, LoadFile, SlowBaud, FastBaud, Finish,
                ChangeBaudRate, bootVars, noiseVars
  <1>2. CASE Hello \/ BaudReply \/ DataReceived \/ Burnt
    BY <1>2 DEF Hello, BaudReply, DataReceived, Burnt, Await, bootVars, noiseVars
  <1>3. CASE SendBaudRate \/ Synchronise
    BY <1>3 DEF SendBaudRate, Synchronise, Await, ConnectWrite, bootVars, noiseVars
  <1>4. CASE EraseRegistry \/ PowerOff
    BY <1>4 DEF EraseRegistry, PowerOff, SendCommand, bootVars, noiseVars
  <1>5. CASE NextBlock \/ SendData \/ SendMark \/ SendCheck \/ BlockReply
    BY <1>5 DEF NextBlock, SendData, SendMark, SendCheck, BlockReply, bootVars, noiseVars
  <1>6. CASE BootStep \/ BootText
    BY <1>6 DEF BootStep, BootText, BootHello, BootBaud, BootSync, BootData, BootVerify,
                BootBurnt, BootSay, hostVars, noiseVars
  <1>7. CASE LineError
    BY <1>7 DEF LineError, hostVars, bootVars
  <1>8. CASE UNCHANGED vars
    BY <1>8 DEF vars, hostVars, bootVars, noiseVars
  <1> QED BY <1>1, <1>2, <1>3, <1>4, <1>5, <1>6, <1>7, <1>8, Zenon DEF Next, Host

\* The bootloader's verdict: it adds the block it holds, or none, while there
\* is a block that it does not have.
LEMMA Verdict ==
    ASSUME Types, Conversation, BootVerify
    PROVE  /\ Len(flash) = sent /\ sent < BlockCount(image) /\ pc = "blockAck"
           /\ UNCHANGED <<hostVars, noise, hit>>
           /\ \/ flash' = flash
              \/ /\ Len(flash') = Len(flash) + 1 /\ flash'[Len(flash) + 1] = buf
                 /\ \A n \in 1..Len(flash) : flash'[n] = flash[n]
  <1>1. bpc = "mark" /\ Len(tx) >= 2 /\ tx \in Seq(Byte)
    BY DEF BootVerify, Types, LineType
  <1>2. Sending
    BY <1>1, MarkPlaces
  <1>3. Len(flash) = sent /\ sent < BlockCount(image)
    BY <1>2 DEF Sending
  <1>4. pc = "blockAck"
    <2>1. tx # <<>> /\ Len(tx) \in Nat
      BY <1>1, LenProperties
    <2>2. ~ (Len(tx) <= 1)
      BY <1>1, <2>1, Lengths, Zenon
    <2> QED BY <1>1, <1>2, <2>1, <2>2, Zenon DEF Sending, Silent
  <1>5. UNCHANGED <<hostVars, noise, hit>>
    BY DEF BootVerify, noiseVars
  <1>6. flash' = flash \/ flash' = Append(flash, buf)
    BY DEF BootVerify
  <1>7. flash \in Seq(Seq(Byte)) /\ buf \in Seq(Byte)
    BY DEF Types, BootType
  <1>8. flash' = Append(flash, buf) =>
          /\ Len(flash') = Len(flash) + 1 /\ flash'[Len(flash) + 1] = buf
          /\ \A n \in 1..Len(flash) : flash'[n] = flash[n]
    BY <1>7, AppendProperties
  <1> QED BY <1>3, <1>4, <1>5, <1>6, <1>8

\* Every step preserves it.
LEMMA NextClean ==
    ASSUME Types, Conversation, DataInv, CleanInv, [Next]_vars PROVE CleanInv'
  <1>1. image' = image /\ noise \in Nat /\ Len(flash) \in Nat
    BY WhoChangesWhat, LenProperties DEF Types, NoiseType, BootType
  <1>2. CASE LineError
    <2>1. noise' = noise + 1 /\ noise' > 0
      BY <1>1, <1>2 DEF LineError
    <2> QED BY <1>1, <2>1 DEF CleanInv
  <1>3. CASE BootVerify
    <2>1. noise' = noise /\ hit' = hit /\ Len(flash) = sent
      BY <1>3, Verdict
    <2>2. ASSUME noise = 0, NEW n \in 1..Len(flash') PROVE flash'[n] = Block(image, n)
      <3>1. CASE flash' = flash
        BY <2>2, <3>1 DEF CleanInv
      <3>2. CASE /\ Len(flash') = Len(flash) + 1 /\ flash'[Len(flash) + 1] = buf
                 /\ \A m \in 1..Len(flash) : flash'[m] = flash[m]
        <4>1. bpc = "mark" /\ ~hit
          BY <1>3, <2>2 DEF BootVerify, CleanInv
        <4>2. buf = Block(image, Len(flash) + 1)
          BY <2>1, <4>1 DEF DataInv, BlockHeld, Current
        <4>3. n = Len(flash) + 1 \/ n \in 1..Len(flash)
          BY <1>1, <3>2
        <4> QED BY <2>2, <3>2, <4>2, <4>3 DEF CleanInv
      <3> QED BY <1>3, <3>1, <3>2, Verdict
    <2> QED BY <1>1, <2>1, <2>2 DEF CleanInv
  <1>4. CASE ~LineError /\ ~BootVerify
    <2>1. flash' = flash /\ noise' = noise /\ (hit' = hit \/ hit' = FALSE)
      BY <1>4, WhoChangesWhat, Zenon
    <2>2. hit' => noise' > 0
      <3>1. CASE hit' = hit
        BY <2>1, <3>1 DEF CleanInv
      <3>2. CASE hit' = FALSE
        BY <3>2
      <3> QED BY <2>1, <3>1, <3>2
    <2> QED BY <1>1, <2>1, <2>2 DEF CleanInv
  <1> QED BY <1>2, <1>3, <1>4

\* The invariant of the download.
THEOREM DownloadInvAlways ==
    ASSUME LongBlock, NoZeroWrite PROVE Spec => []DownloadInv
  <1>1. Init => DataInv /\ CleanInv /\ CheckIsFresh
    BY DEF Init, DataInv, BlockOnLine, BlockHeld, CheckOnLine, TailIntact, CleanInv,
           CheckIsFresh
  <1>2. Init => DownloadInv
    BY <1>1, InitTypes, InitConversation, Zenon DEF DownloadInv
  <1>3. DownloadInv /\ [Next]_vars => DownloadInv'
    BY NextTypes, NextConversation, NextFresh, NextData, NextClean DEF DownloadInv
  <1> QED BY <1>2, <1>3, PTL DEF Spec

\* Whatever the line does to the blocks of a download, one bit per attempt, the
\* blocks the bootloader has accepted agree with the image in all the bits that
\* the checksum holds, if no write() returns 0.
THEOREM TailAlwaysIntact ==
    ASSUME LongBlock, NoZeroWrite PROVE Spec => []TailIntact
  <1>1. DownloadInv => TailIntact
    BY DEF DownloadInv, DataInv
  <1> QED BY <1>1, DownloadInvAlways, PTL
-----------------------------------------------------------------------------
(* The steps of the download as steps of the transfer.                     *)

\* The first k blocks of an image.
FirstBlocks(img, k) == [n \in 1..k |-> Block(img, n)]

\* One block more.
LEMMA FirstBlocksGrow ==
    ASSUME NEW img, NEW k \in Nat
    PROVE  /\ Len(FirstBlocks(img, k)) = k
           /\ FirstBlocks(img, 0) = <<>>
           /\ FirstBlocks(img, k + 1) = Append(FirstBlocks(img, k), Block(img, k + 1))
  <1> DEFINE B == FirstBlocks(img, k)
             D == FirstBlocks(img, k + 1)
             S == {Block(img, n) : n \in 1..(k + 1)}
  <1>1. /\ B \in Seq(S) /\ Len(B) = k /\ \A n \in 1..k : B[n] = Block(img, n)
        /\ D \in Seq(S) /\ Len(D) = k + 1 /\ \A n \in 1..(k + 1) : D[n] = Block(img, n)
        /\ Block(img, k + 1) \in S
    <2>1. \A n \in 1..(k + 1) : Block(img, n) \in S
      OBVIOUS
    <2> HIDE DEF S
    <2>2. B \in [1..k -> S] /\ D \in [1..(k + 1) -> S]
      BY <2>1 DEF FirstBlocks
    <2> QED BY <2>1, <2>2 DEF FirstBlocks
  <1>2. FirstBlocks(img, 0) = <<>>
    BY DEF FirstBlocks
  <1> HIDE DEF B, D, S
  <1>3. /\ Append(B, Block(img, k + 1)) \in Seq(S)
        /\ Len(Append(B, Block(img, k + 1))) = k + 1
        /\ \A n \in 1..k : Append(B, Block(img, k + 1))[n] = B[n]
        /\ Append(B, Block(img, k + 1))[k + 1] = Block(img, k + 1)
    BY <1>1, AppendProperties
  <1>4. \A n \in 1..(k + 1) : D[n] = Append(B, Block(img, k + 1))[n]
    BY <1>1, <1>3
  <1>5. D = Append(B, Block(img, k + 1))
    BY <1>1, <1>3, <1>4, SeqEqual
  <1> QED BY <1>1, <1>2, <1>5 DEF B, D

\* Up to the bits that nothing protects, the bootloader holds the first blocks.
LEMMA ReceivedIs ==
    ASSUME DownloadInv
    PROVE  /\ Received = FirstBlocks(image, Len(flash))
           /\ Blocks(image) = FirstBlocks(image, BlockCount(image))
           /\ Len(flash) \in Nat /\ BlockCount(image) \in Nat /\ sent \in Nat
  <1>1. /\ flash \in Seq(Seq(Byte)) /\ Len(flash) \in Nat /\ noise \in Nat /\ sent \in Nat
        /\ BlockCount(image) \in Nat
    BY Shapes DEF DownloadInv, Types, BootType, NoiseType
  <1>2. DOMAIN flash = 1..Len(flash)
    BY <1>1
  <1>3. ASSUME NEW n \in 1..Len(flash)
        PROVE  (IF noise > 0 /\ SameTail(flash[n], Block(image, n))
                THEN Block(image, n) ELSE flash[n]) = Block(image, n)
    <2>1. SameTail(flash[n], Block(image, n))
      BY DEF DownloadInv, DataInv, TailIntact
    <2>2. noise > 0 \/ noise = 0
      BY <1>1
    <2>3. noise = 0 => flash[n] = Block(image, n)
      BY DEF DownloadInv, CleanInv
    <2> QED BY <2>1, <2>2, <2>3
  <1>4. Received = FirstBlocks(image, Len(flash))
    BY <1>2, <1>3, Zenon DEF Received, FirstBlocks
  <1> QED BY <1>1, <1>4 DEF Blocks, FirstBlocks

\* The same after a step.
LEMMA ReceivedAfter ==
    DownloadInv' => Received' = FirstBlocks(image', Len(flash'))
  <1> DEFINE Holds == Received = FirstBlocks(image, Len(flash))
  <1>1. DownloadInv => Holds
    BY ReceivedIs
  <1> HIDE DEF Holds
  <1>2. DownloadInv' => Holds'
    BY <1>1, PTL
  <1> QED BY <1>2 DEF Holds

\* The transfer begins with nothing delivered.
LEMMA InitImplements == Init => Transfer!Init
  BY DEF Init, Transfer!Init, Received, Status

\* Where serload gives up, nothing has been delivered; where it ends, all.
LEMMA ExitImplements ==
    ASSUME DownloadInv, DownloadInv', Host, pc # "exit", pc' = "exit", flash' = flash
    PROVE  Transfer!Abort \/ Transfer!Succeed
  <1>1. /\ image' = image /\ Received' = Received /\ Blocks(image)' = Blocks(image)
    <2>1. image' = image
      BY WhoChangesWhat DEF Next
    <2> QED
      BY <2>1, ReceivedIs, ReceivedAfter DEF Blocks, BlockCount, FullBlocks, Remainder
  <1>2. Status = "running"
    BY DEF Status
  <1>3. CASE Finish
    <2>1. pc = "done" /\ exitCode' = 0 /\ sent' = sent
      BY <1>3 DEF Finish, Exit
    <2>2. Len(flash) = BlockCount(image) /\ sent > 0
      <3>1. Ending
        BY <2>1 DEF DownloadInv, Conversation, Setup, Greeting, Negotiation, Resync, Sending,
               Accepted, Between, Ending, Aborted
      <3> QED BY <3>1, Zenon DEF Ending
    <2>3. Status' = "success"
      BY <2>1, <2>2 DEF Status
    <2>4. Received = Blocks(image)
      BY <2>2, ReceivedIs, Zenon
    <2> QED BY <1>1, <1>2, <2>3, <2>4 DEF Transfer!Succeed
  <1>4. CASE ~Finish
    <2>1. /\ sent' = sent
          /\ pc \in {"args", "open", "load", "slow", "ackBd", "baud2", "baud1", "baud0", "fast",
                     "writeStx"}
      BY <1>4 DEF Host, ParseArguments, OpenSerialPort, LoadFile, SlowBaud, FastBaud, Hello,
             SendBaudRate, BaudReply, Synchronise, NextBlock, SendData, DataReceived, SendMark,
             SendCheck, BlockReply, Burnt, EraseRegistry, PowerOff, ChangeBaudRate, Await,
             ConnectWrite, BlockWrite, SendCommand, Write, Return, Goto
    <2>2. Fresh
      BY <2>1 DEF DownloadInv, Conversation, Setup, Greeting, Negotiation, Resync, Sending,
             Accepted, Between, Ending, Aborted
    <2>3. Status' = "aborted"
      BY <2>1, <2>2 DEF Status, Fresh
    <2>4. Received = <<>>
      <3>1. Received = FirstBlocks(image, 0)
        BY <2>2, ReceivedIs, Zenon DEF Fresh
      <3> QED BY <3>1 DEF FirstBlocks
    <2> QED BY <1>1, <1>2, <2>3, <2>4 DEF Transfer!Abort
  <1> QED BY <1>3, <1>4

\* Every step of the download is a step of the transfer, or changes nothing that
\* the transfer speaks of.
LEMMA StepImplementsTransfer ==
    ASSUME DownloadInv, DownloadInv', [Next]_vars
    PROVE  [Transfer!Next]_(Transfer!vars)
  <1>1. image' = image /\ (BootVerify \/ flash' = flash)
    BY WhoChangesWhat, Zenon
  <1>2. Blocks(image)' = Blocks(image)
    BY <1>1 DEF Blocks, BlockCount, FullBlocks, Remainder
  <1>3. CASE flash' = flash
    <2>1. Received' = Received
      BY <1>1, <1>3, ReceivedIs, ReceivedAfter
    <2>2. CASE pc # "exit" /\ pc' # "exit"
      BY <1>2, <2>1, <2>2 DEF Status, Transfer!vars
    <2>3. CASE pc = "exit"
      <3>1. UNCHANGED hostVars
        <4>1. CASE Host
          BY <2>3, <4>1 DEF Host, ParseArguments, OpenSerialPort, LoadFile, SlowBaud, FastBaud,
             Hello, SendBaudRate, BaudReply, Synchronise, NextBlock, SendData, DataReceived,
             SendMark, SendCheck, BlockReply, Burnt, EraseRegistry, PowerOff, Finish,
             ChangeBaudRate, Await, ConnectWrite, SendCommand
        <4>2. CASE BootStep \/ BootText \/ LineError \/ UNCHANGED vars
          BY <4>2 DEF BootStep, BootText, LineError, BootHello, BootBaud, BootSync, BootData,
                  BootVerify, BootBurnt, BootSay, vars
        <4> QED BY <4>1, <4>2 DEF Next
      <3>2. Status' = Status
        BY <3>1 DEF Status, hostVars
      <3> QED BY <1>2, <2>1, <3>2 DEF Transfer!vars
    <2>4. CASE pc # "exit" /\ pc' = "exit"
      <3>1. Host
        <4>1. CASE BootStep \/ BootText \/ LineError \/ UNCHANGED vars
          <5>1. UNCHANGED hostVars
            BY <4>1 DEF BootStep, BootText, LineError, BootHello, BootBaud, BootSync, BootData,
                  BootVerify, BootBurnt, BootSay, vars
          <5> QED BY <2>4, <5>1 DEF hostVars
        <4> QED BY <4>1 DEF Next
      <3> QED BY <1>3, <2>4, <3>1, ExitImplements DEF Transfer!Next
    <2> QED BY <2>2, <2>3, <2>4
  <1>4. CASE BootVerify /\ flash' # flash
    <2>1. /\ Len(flash) = sent /\ sent < BlockCount(image) /\ pc = "blockAck"
          /\ UNCHANGED hostVars /\ Len(flash') = Len(flash) + 1
      BY <1>4, Verdict DEF DownloadInv
    <2>2. Status = "running" /\ Status' = "running"
      BY <2>1 DEF Status, hostVars
    <2>3. /\ Received = FirstBlocks(image, Len(flash))
          /\ Received' = FirstBlocks(image, Len(flash) + 1)
          /\ Len(flash) \in Nat /\ BlockCount(image) \in Nat
          /\ Blocks(image) = FirstBlocks(image, BlockCount(image))
      BY <1>1, <2>1, ReceivedIs, ReceivedAfter
    <2>4. /\ Len(Received) = Len(flash) /\ Len(Blocks(image)) = BlockCount(image)
          /\ Received' = Append(Received, Block(image, Len(flash) + 1))
      BY <2>3, FirstBlocksGrow
    <2>5. Blocks(image)[Len(Received) + 1] = Block(image, Len(flash) + 1)
      BY <2>1, <2>3, <2>4 DEF FirstBlocks
    <2>6. Transfer!Deliver
      BY <1>2, <2>1, <2>2, <2>4, <2>5 DEF Transfer!Deliver
    <2> QED BY <2>6 DEF Transfer!Next
  <1> QED BY <1>1, <1>3, <1>4

\* A download delivers the padded blocks of the image once each and in order,
\* however often a block is sent again, and reports success only for the whole
\* image, if no write() returns 0.
THEOREM DownloadImplementsTransfer ==
    ASSUME LongBlock, NoZeroWrite PROVE Spec => ImplementsTransfer
  <1>1. DownloadInv /\ DownloadInv' /\ [Next]_vars => [Transfer!Next]_(Transfer!vars)
    BY StepImplementsTransfer
  <1> QED
    BY <1>1, InitImplements, DownloadInvAlways, PTL DEF Spec, ImplementsTransfer, Transfer!Spec
=============
