------------------------ MODULE SerialDownloadProofs -------------------------
(***************************************************************************)
(* Proofs about the download protocol, for every block size, every set of  *)
(* images and any number of line errors.                                   *)
(***************************************************************************)
EXTENDS SerialDownload, SequenceTheorems, TLAPS

-----------------------------------------------------------------------------
(* Bytes, checksums and blocks.                                            *)

\* The control characters are bytes.
LEMMA ControlBytes ==
    /\ STX \in Byte /\ ETX \in Byte /\ BEL \in Byte /\ ACK_BD \in Byte
    /\ ACK_OK \in Byte /\ ACK_NOK \in Byte /\ FILLER \in Byte /\ Seed \in Byte
    /\ CharR \in Byte /\ CharO \in Byte /\ Text \in Byte
    /\ FastBaudRate[1] \in Byte /\ FastBaudRate[2] \in Byte /\ FastBaudRate[3] \in Byte
BY DEF STX, ETX, BEL, ACK_BD, ACK_OK, ACK_NOK, FILLER, Seed, CharR, CharO, Text,
       FastBaudRate, Byte, Bits

\* The replies serload tells apart are different.
LEMMA DistinctReplies ==
    /\ STX # BEL /\ STX # ETX /\ ACK_OK # ACK_NOK /\ Text # ETX /\ ACK_OK # ETX
    /\ STX # ACK_OK /\ STX # ACK_NOK
    /\ ACK_OK \in Replies /\ ACK_NOK \in Replies
<1>1. 0 \in ETX /\ 0 \notin STX /\ 0 \in BEL /\ 0 \in ACK_NOK /\ 0 \notin ACK_OK
  BY DEF STX, ETX, BEL, ACK_OK, ACK_NOK
<1>2. 2 \in Text /\ 2 \notin ETX /\ 2 \in ACK_OK /\ 2 \notin STX /\ 2 \in ACK_NOK
  BY DEF STX, ETX, Text, ACK_OK, ACK_NOK
<1>3. QED BY <1>1, <1>2 DEF Replies

\* A checksum fits into an unsigned char.
LEMMA ChecksumType == ASSUME NEW c, NEW s PROVE Checksum(c, s) \in Byte
BY DEF Checksum, UnsignedChar, Byte

\* A flipped bit leaves a byte a byte.
LEMMA XorType == ASSUME NEW a \in Byte, NEW b \in Bits PROVE Xor(a, {b}) \in Byte
BY DEF Xor, Byte

\* Every block sendBlock() sends has the full size.
LEMMA BlockType ==
    ASSUME NEW img \in Seq(Byte), NEW n \in Nat \ {0}
    PROVE  Block(img, n) \in Seq(Byte) /\ Len(Block(img, n)) = BlockSize
<1> DEFINE k(j) == (n - 1) * BlockSize + j
<1>1. BlockSize \in Nat BY BlockSizeAssumption
<1>2. (n - 1) * BlockSize \in Nat
  <2>1. n - 1 \in Nat OBVIOUS
  <2>2. QED BY <1>1, <2>1
<1>3. ASSUME NEW j \in 1..BlockSize
      PROVE  (IF k(j) <= Len(img) THEN img[k(j)] ELSE FILLER) \in Byte
  <2>1. k(j) \in Nat /\ k(j) >= 1 BY <1>1, <1>2, <1>3
  <2>2. CASE k(j) <= Len(img)
    <3>1. k(j) \in 1..Len(img) BY <2>1, <2>2
    <3>2. QED BY <2>2, <3>1, ElementOfSeq
  <2>3. CASE ~ (k(j) <= Len(img)) BY <2>3, ControlBytes
  <2>4. QED BY <2>2, <2>3
<1>4. Block(img, n) \in [1..BlockSize -> Byte] BY <1>3 DEF Block
<1>5. QED BY <1>1, <1>4

-----------------------------------------------------------------------------
(* Type correctness.                                                       *)

HostType == /\ pc \in HostPlaces /\ exitCode \in -1..4
            /\ image \in Images /\ sent \in Nat /\ check \in Byte
            /\ hostBaud \in Bauds
LineType == tx \in Seq(Byte) /\ rx \in Seq(Byte)
BootType == /\ bpc \in BootPlaces /\ bootBaud \in Bauds
            /\ buf \in Seq(Byte) /\ flash \in Seq(Seq(Byte))
NoiseType == noise \in Nat /\ hit \in BOOLEAN

Types == HostType /\ LineType /\ BootType /\ NoiseType

\* The program starts with well-typed variables.
LEMMA InitTypes == Init => Types
<1> SUFFICES ASSUME Init PROVE Types OBVIOUS
<1>1. HostType BY ControlBytes DEF Init, HostType, HostPlaces, Bauds
<1>2. LineType BY DEF Init, LineType
<1>3. BootType BY DEF Init, BootType, BootPlaces, Bauds
<1>4. NoiseType BY DEF Init, NoiseType
<1>5. QED BY <1>1, <1>2, <1>3, <1>4 DEF Types

\* What write() leaves on the line, for any continuation of the caller.
LEMMA WriteTypes ==
    ASSUME tx \in Seq(Byte), NEW bytes \in Seq(Byte),
           NEW o \in WriteOutcomes,
           \/ o = "full"  /\ tx' = tx \o bytes
           \/ o = "short" /\ \E n \in 1..(Len(bytes) - 1) : tx' = tx \o SubSeq(bytes, 1, n)
           \/ o \in {"error", "zero"} /\ tx' = tx
    PROVE  tx' \in Seq(Byte)
<1>1. CASE o = "short"
  <2>1. PICK n \in 1..(Len(bytes) - 1) : tx' = tx \o SubSeq(bytes, 1, n) BY <1>1
  <2>2. \A i \in 1..n : bytes[i] \in Byte BY ElementOfSeq
  <2>3. SubSeq(bytes, 1, n) \in Seq(Byte) BY <2>2, SubSeqProperties
  <2>4. QED BY <2>1, <2>3
<1>2. CASE o = "full" /\ tx' = tx \o bytes BY <1>2, ConcatProperties
<1>3. CASE tx' = tx BY <1>3
<1>4. QED BY <1>1, <1>2, <1>3

\* The system calls of the host.
LEMMA AwaitTypes ==
    ASSUME Types, NEW at, NEW c, NEW next \in HostPlaces, Await(at, c, next)
    PROVE  Types'
<1>1. rx' \in Seq(Byte) BY HeadTailProperties DEF Await, ReadByte, Types, LineType
<1>2. HostType' BY DEF Await, Types, HostType
<1>3. LineType' BY <1>1 DEF Await, Types, LineType
<1>4. BootType' /\ NoiseType'
  BY DEF Await, bootVars, noiseVars, Types, BootType, NoiseType
<1>5. QED BY <1>2, <1>3, <1>4 DEF Types

\* A write of connectToSimpad() preserves the types.
LEMMA ConnectWriteTypes ==
    ASSUME Types, NEW at, NEW byte \in Byte, NEW next \in HostPlaces,
           ConnectWrite(at, byte, next)
    PROVE  Types'
<1>1. tx \in Seq(Byte) /\ <<byte>> \in Seq(Byte) BY DEF Types, LineType
<1>2. tx' \in Seq(Byte)
  BY <1>1, WriteTypes DEF ConnectWrite, Write
<1>3. pc' \in HostPlaces /\ exitCode' \in -1..4
  BY DEF ConnectWrite, Write, Goto, Exit, HostPlaces, Types, HostType
<1>4. HostType' /\ LineType' BY <1>2, <1>3 DEF ConnectWrite, Types, HostType, LineType
<1>5. BootType' /\ NoiseType'
  BY DEF ConnectWrite, bootVars, noiseVars, Types, BootType, NoiseType
<1>6. QED BY <1>4, <1>5 DEF Types

\* changeBaudRate() preserves the types.
LEMMA ChangeBaudTypes ==
    ASSUME Types, NEW at, NEW baud \in Bauds, NEW next \in HostPlaces,
           ChangeBaudRate(at, baud, next)
    PROVE  Types'
<1>1. pc' \in HostPlaces /\ exitCode' \in -1..4 /\ hostBaud' \in Bauds
  BY DEF ChangeBaudRate, Goto, Exit, HostPlaces, Types, HostType
<1>2. HostType' /\ LineType' BY <1>1 DEF ChangeBaudRate, Types, HostType, LineType
<1>3. BootType' /\ NoiseType'
  BY DEF ChangeBaudRate, bootVars, noiseVars, Types, BootType, NoiseType
<1>4. QED BY <1>2, <1>3 DEF Types

\* sendBlock()'s writes.
LEMMA BlockWriteTypes ==
    ASSUME Types, NEW bytes \in Seq(Byte), NEW next \in HostPlaces, BlockWrite(bytes, next)
    PROVE  /\ tx' \in Seq(Byte)
           /\ pc' \in HostPlaces /\ exitCode' \in -1..4 /\ sent' \in Nat
<1>1. tx' \in Seq(Byte)
  BY WriteTypes DEF BlockWrite, Write, Types, LineType
<1>2. pc' \in HostPlaces /\ exitCode' \in -1..4 /\ sent' \in Nat
  BY DEF BlockWrite, Write, Goto, Return, HostPlaces, Types, HostType
<1>3. QED BY <1>1, <1>2

\* waitForEndOfBurning()'s writes.
LEMMA SendCommandTypes ==
    ASSUME Types, NEW at, NEW char \in Byte, NEW next \in HostPlaces,
           SendCommand(at, char, next)
    PROVE  Types'
<1>1. tx \in Seq(Byte) /\ <<char>> \in Seq(Byte) BY DEF Types, LineType
<1>2. tx' \in Seq(Byte)
  BY <1>1, WriteTypes DEF SendCommand, Write
<1>3. pc' \in HostPlaces /\ exitCode' \in -1..4
  BY DEF SendCommand, Write, Goto, Types, HostType
<1>4. HostType' /\ LineType' BY <1>2, <1>3 DEF SendCommand, Types, HostType, LineType
<1>5. BootType' /\ NoiseType'
  BY DEF SendCommand, bootVars, noiseVars, Types, BootType, NoiseType
<1>6. QED BY <1>4, <1>5 DEF Types

\* The bootloader sends a byte.
LEMMA BootSayTypes ==
    ASSUME Types, NEW at, NEW byte \in Byte, NEW next \in BootPlaces,
           BootSay(at, byte, next)
    PROVE  Types'
<1>1. HostType' /\ NoiseType' BY DEF BootSay, hostVars, noiseVars, Types, HostType, NoiseType
<1>2. LineType' BY AppendProperties DEF BootSay, Types, LineType
<1>3. BootType' BY DEF BootSay, Types, BootType
<1>4. QED BY <1>1, <1>2, <1>3 DEF Types

-----------------------------------------------------------------------------
(* Types of the host's steps.                                              *)

\* Every step of serload preserves the types.
LEMMA HostTypes == ASSUME Types, Host PROVE Types'
<1> USE DEF HostPlaces
<1>1. CASE ParseArguments \/ OpenSerialPort \/ LoadFile
  <2>1. HostType' /\ LineType'
    BY <1>1 DEF ParseArguments, OpenSerialPort, LoadFile, Goto, Exit, Types, HostType,
                LineType, Bauds
  <2>2. BootType' /\ NoiseType'
    BY <1>1 DEF ParseArguments, OpenSerialPort, LoadFile, bootVars, noiseVars, Types,
                BootType, NoiseType
  <2>3. QED BY <2>1, <2>2 DEF Types
<1>2. CASE SlowBaud \/ FastBaud BY <1>2, ChangeBaudTypes DEF SlowBaud, FastBaud, Bauds
<1>3. CASE Hello BY <1>3, AwaitTypes DEF Hello
<1>4. CASE SendBaudRate BY <1>4, ConnectWriteTypes, ControlBytes DEF SendBaudRate
<1>5. CASE Synchronise
  BY <1>5, AwaitTypes, ConnectWriteTypes, ControlBytes DEF Synchronise
<1>6. CASE BaudReply
  <2>1. rx' \in Seq(Byte) BY <1>6, HeadTailProperties DEF BaudReply, ReadByte, Types, LineType
  <2>2. HostType' /\ LineType' BY <1>6, <2>1 DEF BaudReply, Types, HostType, LineType
  <2>3. BootType' /\ NoiseType'
    BY <1>6 DEF BaudReply, bootVars, noiseVars, Types, BootType, NoiseType
  <2>4. QED BY <2>2, <2>3 DEF Types
<1>7. CASE NextBlock
  <2>1. HostType' /\ LineType' BY <1>7, ControlBytes DEF NextBlock, Types, HostType, LineType
  <2>2. BootType' /\ NoiseType'
    BY <1>7 DEF NextBlock, bootVars, noiseVars, Types, BootType, NoiseType
  <2>3. QED BY <2>1, <2>2 DEF Types
<1>8. CASE SendData
  <2>1. Current \in Seq(Byte)
    BY BlockType, ImagesAssumption DEF Current, Types, HostType
  <2>2. /\ tx' \in Seq(Byte)
        /\ pc' \in HostPlaces /\ exitCode' \in -1..4 /\ sent' \in Nat
    BY <1>8, <2>1, BlockWriteTypes DEF SendData
  <2>3. check' \in Byte BY <1>8, ChecksumType DEF SendData
  <2>4. HostType' /\ LineType' BY <1>8, <2>2, <2>3 DEF SendData, Types, HostType, LineType
  <2>5. BootType' BY <1>8 DEF SendData, bootVars, Types, BootType
  <2>6. NoiseType' BY <1>8 DEF SendData, Types, NoiseType
  <2>7. QED BY <2>4, <2>5, <2>6 DEF Types
<1>9. CASE DataReceived \/ Burnt BY <1>9, AwaitTypes DEF DataReceived, Burnt
<1>10. CASE SendMark \/ SendCheck
  <2>1. <<IF IsFull THEN STX ELSE ETX>> \in Seq(Byte) /\ <<check>> \in Seq(Byte)
    BY ControlBytes DEF Types, HostType
  <2>2. /\ tx' \in Seq(Byte)
        /\ pc' \in HostPlaces /\ exitCode' \in -1..4 /\ sent' \in Nat
    BY <1>10, <2>1, BlockWriteTypes DEF SendMark, SendCheck
  <2>3. HostType' /\ LineType'
    BY <1>10, <2>2 DEF SendMark, SendCheck, Types, HostType, LineType
  <2>4. BootType' /\ NoiseType'
    BY <1>10 DEF SendMark, SendCheck, bootVars, noiseVars, Types, BootType, NoiseType
  <2>5. QED BY <2>3, <2>4 DEF Types
<1>11. CASE BlockReply
  <2>1. rx' \in Seq(Byte)
    BY <1>11, HeadTailProperties DEF BlockReply, ReadByte, Types, LineType
  <2>2. pc' \in HostPlaces /\ exitCode' \in -1..4 /\ sent' \in Nat
    BY <1>11 DEF BlockReply, Return, Goto, Types, HostType
  <2>3. HostType' /\ LineType' BY <1>11, <2>1, <2>2 DEF BlockReply, Types, HostType, LineType
  <2>4. BootType' /\ NoiseType'
    BY <1>11 DEF BlockReply, bootVars, noiseVars, Types, BootType, NoiseType
  <2>5. QED BY <2>3, <2>4 DEF Types
<1>12. CASE EraseRegistry \/ PowerOff
  BY <1>12, SendCommandTypes, ControlBytes DEF EraseRegistry, PowerOff
<1>13. CASE Finish
  <2>1. HostType' /\ LineType' BY <1>13 DEF Finish, Exit, Types, HostType, LineType
  <2>2. BootType' /\ NoiseType'
    BY <1>13 DEF Finish, bootVars, noiseVars, Types, BootType, NoiseType
  <2>3. QED BY <2>1, <2>2 DEF Types
<1>14. QED
  BY <1>1, <1>2, <1>3, <1>4, <1>5, <1>6, <1>7, <1>8, <1>9, <1>10, <1>11, <1>12, <1>13 DEF Host

-----------------------------------------------------------------------------
(* Types of the bootloader's steps and of the line's.                      *)

\* The rest of what was on the line.
LEMMA RestType ==
    ASSUME NEW s \in Seq(Byte), NEW n \in Nat, Len(s) >= n
    PROVE  /\ SubSeq(s, 1, n) \in Seq(Byte) /\ Len(SubSeq(s, 1, n)) = n
           /\ SubSeq(s, n + 1, Len(s)) \in Seq(Byte)
           /\ Len(SubSeq(s, n + 1, Len(s))) = Len(s) - n
<1>1. \A i \in 1..Len(s) : s[i] \in Byte BY ElementOfSeq
<1>2. \A i \in 1..n : s[i] \in Byte BY <1>1
<1>3. \A i \in (n + 1)..Len(s) : s[i] \in Byte BY <1>1
<1>4. SubSeq(s, 1, n) \in Seq(Byte) /\ Len(SubSeq(s, 1, n)) = n
  BY <1>2, SubSeqProperties
<1>5. SubSeq(s, n + 1, Len(s)) \in Seq(Byte)
      /\ Len(SubSeq(s, n + 1, Len(s))) = Len(s) - n
  BY <1>3, SubSeqProperties
<1>6. QED BY <1>4, <1>5

\* The bootloader's answers.
LEMMA ReplyType ==
    ASSUME NEW s \in Seq(Byte)
    PROVE  Append(s, ACK_OK) \in Seq(Byte) /\ Append(s, ACK_NOK) \in Seq(Byte)
BY AppendProperties, ControlBytes

\* Every step of the bootloader preserves the types.
LEMMA BootTypes == ASSUME Types, BootStep \/ BootText PROVE Types'
<1> USE DEF BootPlaces
<1>1. CASE BootHello BY <1>1, BootSayTypes, ControlBytes DEF BootHello
<1>2. CASE BootBaud
  <2>1. tx' \in Seq(Byte)
    BY <1>2, RestType DEF BootBaud, Types, LineType
  <2>2. rx' \in Seq(Byte) /\ bootBaud' \in Bauds
    BY <1>2, ReplyType DEF BootBaud, Types, LineType, BootType, Bauds
  <2>3. LineType' /\ BootType' BY <1>2, <2>1, <2>2 DEF BootBaud, Types, LineType, BootType
  <2>4. HostType' /\ NoiseType'
    BY <1>2 DEF BootBaud, hostVars, noiseVars, Types, HostType, NoiseType
  <2>5. QED BY <2>3, <2>4 DEF Types
<1>3. CASE BootSync
  <2>1. CASE \E at, next \in BootPlaces : BootSay(at, STX, next)
    BY <2>1, BootSayTypes, ControlBytes
  <2>2. CASE /\ tx # <<>> /\ tx' = Tail(tx) /\ bpc' = "ready"
             /\ UNCHANGED <<hostVars, rx, bootBaud, buf, flash, noiseVars>>
    <3>1. LineType' BY <2>2, HeadTailProperties DEF Types, LineType
    <3>2. BootType' BY <2>2 DEF Types, BootType
    <3>3. HostType' /\ NoiseType'
      BY <2>2 DEF hostVars, noiseVars, Types, HostType, NoiseType
    <3>4. QED BY <3>1, <3>2, <3>3 DEF Types
  <2>3. QED BY <1>3, <2>1, <2>2 DEF BootSync
<1>4. CASE BootData
  <2>1. BlockSize \in Nat BY BlockSizeAssumption
  <2>2. buf' \in Seq(Byte) /\ tx' \in Seq(Byte)
    BY <1>4, <2>1, RestType DEF BootData, Types, LineType
  <2>3. rx' \in Seq(Byte)
    BY <1>4, AppendProperties, ControlBytes DEF BootData, Types, LineType
  <2>4. LineType' /\ BootType' BY <1>4, <2>2, <2>3 DEF BootData, Types, LineType, BootType
  <2>5. HostType' /\ NoiseType'
    BY <1>4 DEF BootData, hostVars, noiseVars, Types, HostType, NoiseType
  <2>6. QED BY <2>4, <2>5 DEF Types
<1>5. CASE BootVerify
  <2>1. tx' \in Seq(Byte) BY <1>5, RestType DEF BootVerify, Types, LineType
  <2>2. rx' \in Seq(Byte) /\ bpc' \in BootPlaces
    BY <1>5, ReplyType DEF BootVerify, Types, LineType
  <2>3. flash' \in Seq(Seq(Byte))
    <3>1. flash \in Seq(Seq(Byte)) /\ buf \in Seq(Byte) BY DEF Types, BootType
    <3>2. Append(flash, buf) \in Seq(Seq(Byte)) BY <3>1, AppendProperties
    <3>3. QED BY <1>5, <3>1, <3>2 DEF BootVerify
  <2>4. LineType' /\ BootType'
    BY <1>5, <2>1, <2>2, <2>3 DEF BootVerify, Types, LineType, BootType
  <2>5. HostType' /\ NoiseType'
    BY <1>5 DEF BootVerify, hostVars, noiseVars, Types, HostType, NoiseType
  <2>6. QED BY <2>4, <2>5 DEF Types
<1>6. CASE BootText \/ BootBurnt BY <1>6, BootSayTypes, ControlBytes DEF BootText, BootBurnt
<1>7. QED BY <1>1, <1>2, <1>3, <1>4, <1>5, <1>6 DEF BootStep

\* A line error preserves the types: a flipped bit makes a byte a byte.
LEMMA LineTypes == ASSUME Types, LineError PROVE Types'
<1>1. PICK i \in Strikable, b \in Bits : tx' = [tx EXCEPT ![i] = Xor(tx[i], {b})]
  BY DEF LineError
<1>2. i \in 1..Len(tx) BY DEF Strikable, Types, LineType
<1>3. Xor(tx[i], {b}) \in Byte BY <1>2, XorType, ElementOfSeq DEF Types, LineType
<1>4. tx' \in Seq(Byte) BY <1>1, <1>2, <1>3, ExceptSeq DEF Types, LineType
<1>5. LineType' /\ NoiseType' BY <1>4 DEF LineError, Types, LineType, NoiseType
<1>6. HostType' /\ BootType' BY DEF LineError, hostVars, bootVars, Types, HostType, BootType
<1>7. QED BY <1>5, <1>6 DEF Types

\* The types are an inductive invariant.
LEMMA NextTypes == Types /\ [Next]_vars => Types'
<1> SUFFICES ASSUME Types, [Next]_vars PROVE Types' OBVIOUS
<1>1. CASE UNCHANGED vars
  <2>1. UNCHANGED <<hostVars, tx, rx, bootVars, noiseVars>> BY <1>1 DEF vars
  <2>2. HostType' /\ LineType' BY <2>1 DEF hostVars, Types, HostType, LineType
  <2>3. BootType' /\ NoiseType' BY <2>1 DEF bootVars, noiseVars, Types, BootType, NoiseType
  <2>4. QED BY <2>2, <2>3 DEF Types
<1>2. QED BY <1>1, HostTypes, BootTypes, LineTypes DEF Next

FailedType == failed \in BOOLEAN

\* Whether a write() has failed is a Boolean, whatever write() returns.
LEMMA NextFailed == FailedType /\ [Next]_vars => FailedType'
<1> SUFFICES ASSUME failed \in BOOLEAN, [Next]_vars PROVE failed' \in BOOLEAN
  BY DEF FailedType
<1>1. CASE SendBaudRate \/ Synchronise \/ SendData \/ SendMark \/ SendCheck \/ EraseRegistry
           \/ PowerOff
  BY <1>1 DEF SendBaudRate, Synchronise, SendData, SendMark, SendCheck, EraseRegistry,
              PowerOff, ConnectWrite, BlockWrite, SendCommand, Await, Write
<1>2. CASE ParseArguments \/ OpenSerialPort \/ LoadFile \/ SlowBaud \/ Hello \/ BaudReply
           \/ FastBaud \/ NextBlock \/ DataReceived \/ BlockReply \/ Burnt \/ Finish
  BY <1>2 DEF ParseArguments, OpenSerialPort, LoadFile, SlowBaud, Hello, BaudReply,
              FastBaud, NextBlock, DataReceived, BlockReply, Burnt, Finish,
              ChangeBaudRate, Await
<1>3. CASE BootStep \/ BootText \/ LineError \/ UNCHANGED vars
  BY <1>3 DEF BootStep, BootText, BootHello, BootBaud, BootSync, BootData, BootVerify,
              BootBurnt, BootSay, LineError, vars, hostVars
<1>4. QED BY <1>1, <1>2, <1>3 DEF Next, Host

\* serload's variables and the line keep their types, whatever write() returns
\* and however many line errors happen.
THEOREM TypeCorrect == Spec => []TypeOK
<1>1. Types /\ FailedType => TypeOK
  BY DEF Types, HostType, LineType, BootType, NoiseType, FailedType, TypeOK
<1>2. Init => FailedType BY DEF Init, FailedType
<1>3. QED BY <1>1, <1>2, InitTypes, NextTypes, NextFailed, PTL DEF Spec

-----------------------------------------------------------------------------
(* The conversation between serload and the bootloader, when no write()    *)
(* returns 0: where both sides are, and what is on the line.  A write()    *)
(* that takes less than it was given leaves less on the line than the      *)
(* bootloader waits for, and both sides stay where they are.               *)

NoZeroWrite == "zero" \notin WriteOutcomes

Silent == tx = <<>> /\ rx = <<>>
Agreed == hostBaud = bootBaud
Fresh  == sent = 0 /\ Len(flash) = 0
Mark   == IF IsFull THEN STX ELSE ETX

Setup ==
    /\ pc \in {"args", "open", "load", "slow"} /\ bpc = "hello"
    /\ hostBaud = "slow" /\ bootBaud = "slow" /\ Fresh /\ Silent

\* The bootloader announces itself.
Greeting ==
    /\ hostBaud = "slow" /\ bootBaud = "slow" /\ Fresh /\ tx = <<>>
    /\ \/ pc = "helloStx" /\ bpc = "hello" /\ rx = <<>>
       \/ pc = "helloStx" /\ bpc = "bel"   /\ rx = <<STX>>
       \/ pc = "helloStx" /\ bpc = "baud"  /\ rx = <<STX, BEL>>
       \/ pc = "helloBel" /\ bpc = "bel"   /\ rx = <<>>
       \/ pc = "helloBel" /\ bpc = "baud"  /\ rx = <<BEL>>

\* The baud rate is on its way to the bootloader, or the answer on its way back.
Negotiation ==
    /\ hostBaud = "slow" /\ Fresh
    /\ \/ /\ bpc = "baud" /\ bootBaud = "slow" /\ rx = <<>>
          /\ \/ pc = "ackBd" /\ tx = <<>>
             \/ pc = "baud2" /\ Len(tx) <= 1
             \/ pc = "baud1" /\ Len(tx) <= 2
             \/ pc = "baud0" /\ Len(tx) <= 3
             \/ pc = "baudAck" /\ Len(tx) <= 4
       \/ /\ bpc = "sync" /\ tx = <<>> /\ pc = "baudAck"
          /\ \/ rx = <<ACK_OK>>  /\ bootBaud = "fast"
             \/ rx = <<ACK_NOK>> /\ bootBaud = "slow"
       \/ pc = "fast" /\ bpc = "sync" /\ bootBaud = "fast" /\ Silent

\* Both sides have the same rate and find each other again.
Resync ==
    /\ Agreed /\ Fresh
    /\ \/ pc = "syncStx"  /\ bpc = "sync"   /\ Silent
       \/ pc = "syncStx"  /\ bpc = "synced" /\ tx = <<>> /\ rx = <<STX>>
       \/ pc = "writeStx" /\ bpc = "synced" /\ Silent
       \/ pc = "readyStx" /\ bpc = "synced" /\ Len(tx) <= 1 /\ rx = <<>>
       \/ pc = "readyStx" /\ bpc = "ready"  /\ Silent
       \/ pc = "readyStx" /\ bpc = "data"   /\ tx = <<>> /\ rx = <<STX>>

\* A block is under way that the bootloader has not accepted yet.
Sending ==
    /\ Agreed /\ sent < BlockCount(image) /\ Len(flash) = sent
    /\ \/ pc = "block"    /\ bpc = "data" /\ Silent
       \/ pc = "blockStx" /\ bpc = "data" /\ Len(tx) <= BlockSize /\ rx = <<>>
       \/ pc = "blockStx" /\ bpc = "mark" /\ tx = <<>> /\ rx = <<STX>>
       \/ pc = "mark"     /\ bpc = "mark" /\ Silent
       \/ /\ pc = "check"    /\ bpc = "mark" /\ Len(tx) <= 1 /\ rx = <<>>
          /\ Len(tx) = 1 => tx[1] = Mark
       \/ /\ pc = "blockAck" /\ bpc = "mark" /\ Len(tx) <= 2 /\ rx = <<>>
          /\ Len(tx) = 2 => tx[1] = Mark
       \/ pc = "blockAck" /\ bpc = "data" /\ tx = <<>> /\ rx = <<ACK_NOK>>

\* It has accepted the block, and serload does not know yet.  After a block with
\* the mark ETX it has begun to burn.
Accepted ==
    /\ Agreed /\ sent < BlockCount(image) /\ Len(flash) = sent + 1
    /\ pc = "blockAck" /\ tx = <<>>
    /\ \/ IsFull  /\ bpc = "data" /\ rx = <<ACK_OK>>
       \/ ~IsFull /\ bpc = "burn" /\ rx = <<ACK_OK>>
       \/ ~IsFull /\ bpc = "off"  /\ rx = <<ACK_OK, ETX>>

\* main() between two blocks, or waiting for the end of burning.
Between ==
    /\ Agreed /\ sent <= BlockCount(image) /\ Len(flash) = sent /\ tx = <<>>
    /\ pc = "main" \/ (pc = "burning" /\ sent = BlockCount(image))
    /\ \/ sent <= FullBlocks(image) /\ bpc = "data" /\ rx = <<>>
       \/ sent > FullBlocks(image)  /\ bpc = "burn" /\ rx \in {<<>>, <<Text>>}
       \/ sent > FullBlocks(image)  /\ bpc = "off"  /\ rx \in {<<ETX>>, <<Text, ETX>>}

\* The image is burnt.
Ending ==
    /\ Agreed /\ sent = BlockCount(image) /\ Len(flash) = sent /\ sent > 0
    /\ bpc = "off" /\ rx = <<>> /\ pc \in {"sendR", "sendO", "done", "exit"}

\* serload has given up before the first block.
Aborted == pc = "exit" /\ bpc \in {"hello", "sync"} /\ Fresh /\ Silent

Conversation == \/ Setup \/ Greeting \/ Negotiation \/ Resync \/ Sending
                \/ Accepted \/ Between \/ Ending \/ Aborted

\* The number of blocks.
LEMMA Counts ==
    ASSUME NEW img \in Seq(Byte)
    PROVE  /\ FullBlocks(img) \in Nat /\ BlockCount(img) \in Nat
           /\ BlockCount(img) \in {FullBlocks(img), FullBlocks(img) + 1}
<1>1. Len(img) \in Nat /\ BlockSize \in Nat \ {0} BY BlockSizeAssumption
<1>2. Len(img) \div BlockSize \in Nat BY <1>1
<1>3. QED BY <1>2 DEF FullBlocks, BlockCount

\* Facts about lengths.
LEMMA Lengths ==
    /\ 0 <= 1 /\ 0 + 1 = 1 /\ 1 + 1 = 2
    /\ \A n, k \in Nat : n <= k /\ n >= k => n = k
    /\ \A n, k \in Nat : n <= 1 /\ k <= n + 1 => k <= 2 /\ (k = 2 => n = 1)
    /\ \A n \in Nat : n >= 2 => ~ (n <= 1)
    /\ \A n \in Nat : n >= 4 => ~ (n <= 1) /\ ~ (n <= 2) /\ ~ (n <= 3)
    /\ \A n, k \in Nat : k = n \/ k = n + 1 => n <= k /\ k <= n + 1
OBVIOUS

\* What a write() that does not return 0 leaves on the line.
LEMMA WriteLeaves ==
    ASSUME NoZeroWrite, tx \in Seq(Byte), NEW bytes \in Seq(Byte), Write(bytes, TRUE, TRUE)
    PROVE  /\ Len(tx') <= Len(tx) + Len(bytes)
           /\ Len(tx') = Len(tx) + Len(bytes) => tx' = tx \o bytes
<1>1. PICK o \in WriteOutcomes :
        \/ o = "full"  /\ tx' = tx \o bytes
        \/ o = "short" /\ \E n \in 1..(Len(bytes) - 1) : tx' = tx \o SubSeq(bytes, 1, n)
        \/ o \in {"error", "zero"} /\ tx' = tx
  BY DEF Write
<1>2. CASE o = "full" BY <1>1, <1>2, ConcatProperties
<1>3. CASE o = "short"
  <2>1. PICK n \in 1..(Len(bytes) - 1) : tx' = tx \o SubSeq(bytes, 1, n) BY <1>1, <1>3
  <2>2. \A i \in 1..n : bytes[i] \in Byte BY ElementOfSeq
  <2>3. SubSeq(bytes, 1, n) \in Seq(Byte) /\ Len(SubSeq(bytes, 1, n)) = n
    BY <2>2, SubSeqProperties
  <2>4. Len(tx') = Len(tx) + n BY <2>1, <2>3, ConcatProperties
  <2>5. Len(tx) \in Nat /\ Len(bytes) \in Nat BY LenProperties
  <2>6. QED BY <2>4, <2>5
<1>4. CASE tx' = tx
  <2>1. Len(tx) \in Nat /\ Len(bytes) \in Nat BY LenProperties
  <2>2. bytes # <<>> => Len(bytes) > 0 BY <2>1, EmptySeq
  <2>3. CASE bytes = <<>> BY <1>4, <2>3, ConcatEmptySeq
  <2>4. CASE Len(bytes) > 0 BY <1>4, <2>1, <2>4
  <2>5. QED BY <2>2, <2>3, <2>4
<1>5. QED BY <1>1, <1>2, <1>3, <1>4

\* The conversation begins in its first phase.
LEMMA InitConversation == Init => Conversation
BY DEF Init, Conversation, Setup, Fresh, Silent

\* What the proofs about single steps use of the types.
LEMMA Shapes ==
    ASSUME Types
    PROVE  /\ tx \in Seq(Byte) /\ rx \in Seq(Byte) /\ sent \in Nat
           /\ FullBlocks(image) \in Nat /\ BlockCount(image) \in Nat
           /\ BlockCount(image) \in {FullBlocks(image), FullBlocks(image) + 1}
           /\ Len(flash) \in Nat
BY Counts, ImagesAssumption DEF Types, LineType, HostType, BootType

-----------------------------------------------------------------------------
(* Steps before the first block.                                           *)

\* main() up to the first wait preserves the phases.
LEMMA StartConversation ==
    ASSUME Conversation, ParseArguments \/ OpenSerialPort \/ LoadFile \/ SlowBaud
    PROVE  Conversation'
<1>1. Setup
  BY DEF ParseArguments, OpenSerialPort, LoadFile, SlowBaud, ChangeBaudRate, Conversation,
         Setup, Greeting, Negotiation, Resync, Sending, Accepted, Between, Ending, Aborted
<1>2. UNCHANGED <<tx, rx, sent, bpc, bootBaud, flash>>
  BY DEF ParseArguments, OpenSerialPort, LoadFile, SlowBaud, ChangeBaudRate, bootVars
<1>3. /\ pc' \in {"exit", "open", "load", "slow", "helloStx"}
      /\ hostBaud' = "slow"
  BY <1>1 DEF ParseArguments, OpenSerialPort, LoadFile, SlowBaud, ChangeBaudRate, Goto, Exit,
         Setup
<1>4. Setup' \/ Greeting' \/ Aborted'
  BY <1>1, <1>2, <1>3 DEF Setup, Greeting, Aborted, Fresh, Silent
<1>5. QED BY <1>4 DEF Conversation

\* Waiting for STX and BEL preserves the phases.
LEMMA HelloConversation == ASSUME Types, Conversation, Hello PROVE Conversation'
<1>1. Greeting
  BY DEF Hello, Await, Conversation, Setup, Greeting, Negotiation, Resync, Sending,
         Accepted, Between, Ending, Aborted
<1>2. UNCHANGED <<tx, sent, bpc, hostBaud, bootBaud, flash>> /\ rx # <<>> /\ rx' = Tail(rx)
  BY DEF Hello, Await, ReadByte, bootVars
<1>3. CASE pc = "helloStx"
  <2>1. Head(rx) = STX /\ pc' = "helloBel"
    BY <1>1, <1>2, <1>3 DEF Hello, Await, Greeting
  <2>2. \/ bpc = "bel"  /\ rx' = <<>>
        \/ bpc = "baud" /\ rx' = <<BEL>>
    <3>1. \/ bpc = "bel"  /\ rx = <<STX>>
          \/ bpc = "baud" /\ rx = <<STX, BEL>>
      BY <1>1, <1>2, <1>3 DEF Greeting
    <3>2. CASE rx = <<STX>> BY <1>2, <3>1, <3>2
    <3>3. CASE bpc = "baud" /\ rx = <<STX, BEL>> BY <1>2, <3>3
    <3>4. QED BY <3>1, <3>2, <3>3
  <2>3. Greeting' BY <1>1, <1>2, <2>1, <2>2 DEF Greeting, Fresh
  <2>4. QED BY <2>3 DEF Conversation
<1>4. CASE pc = "helloBel"
  <2>1. Head(rx) = BEL /\ pc' = "ackBd"
    BY <1>1, <1>2, <1>4 DEF Hello, Await, Greeting
  <2>2. Negotiation'
    <3>1. rx = <<BEL>> /\ bpc = "baud" BY <1>1, <1>2, <1>4 DEF Greeting
    <3>2. rx' = <<>> BY <1>2, <3>1
    <3>3. /\ hostBaud' = "slow" /\ bootBaud' = "slow" /\ Fresh' /\ tx' = <<>> /\ bpc' = "baud"
      BY <1>1, <1>2, <3>1 DEF Greeting, Fresh
    <3>4. QED BY <2>1, <3>2, <3>3, Zenon DEF Negotiation
  <2>3. QED BY <2>2 DEF Conversation
<1>5. QED BY <1>1, <1>3, <1>4 DEF Greeting

\* Sending ACK_BD and the baud rate preserves the phases.
LEMMA SendBaudConversation ==
    ASSUME NoZeroWrite, Types, Conversation, SendBaudRate PROVE Conversation'
<1>1. Negotiation
  BY DEF SendBaudRate, ConnectWrite, Conversation, Setup, Greeting, Negotiation, Resync,
         Sending, Accepted, Between, Ending, Aborted
<1>2. /\ UNCHANGED <<rx, sent, bpc, hostBaud, bootBaud, flash>>
      /\ \E byte \in Byte : Write(<<byte>>, TRUE, TRUE)
  BY ControlBytes DEF SendBaudRate, ConnectWrite, Write, bootVars
<1>3. tx \in Seq(Byte) /\ Len(tx) \in Nat /\ Len(tx') \in Nat /\ Len(tx') <= Len(tx) + 1
  <2>1. PICK byte \in Byte : Write(<<byte>>, TRUE, TRUE) BY <1>2
  <2>2. tx \in Seq(Byte) /\ <<byte>> \in Seq(Byte) /\ Len(<<byte>>) = 1
    BY DEF Types, LineType
  <2>3. tx' \in Seq(Byte) BY <2>1, <2>2, WriteTypes DEF Write
  <2>4. QED BY <2>1, <2>2, <2>3, WriteLeaves, LenProperties
<1>4. \/ pc = "ackBd" /\ pc' = "baud2"
      \/ pc = "baud2" /\ pc' = "baud1"
      \/ pc = "baud1" /\ pc' = "baud0"
      \/ pc = "baud0" /\ pc' = "baudAck"
  BY DEF SendBaudRate, ConnectWrite, Write, NoZeroWrite, Goto
<1>5. Fresh' /\ hostBaud' = "slow" /\ bootBaud' = "slow" /\ bpc' = "baud" /\ rx' = <<>>
  BY <1>1, <1>2, <1>4 DEF Negotiation, Fresh
<1>6. \/ pc' = "baud2" /\ Len(tx') <= 1
      \/ pc' = "baud1" /\ Len(tx') <= 2
      \/ pc' = "baud0" /\ Len(tx') <= 3
      \/ pc' = "baudAck" /\ Len(tx') <= 4
  BY <1>1, <1>3, <1>4 DEF Negotiation
<1>7. Negotiation' BY <1>5, <1>6 DEF Negotiation
<1>8. QED BY <1>7 DEF Conversation

\* The reply to the baud rate, and changing to it, preserve the phases.
LEMMA BaudReplyConversation ==
    ASSUME Types, Conversation, BaudReply \/ FastBaud PROVE Conversation'
<1>1. Negotiation
  BY DEF BaudReply, FastBaud, ChangeBaudRate, Conversation, Setup, Greeting, Negotiation,
         Resync, Sending, Accepted, Between, Ending, Aborted
<1>2. CASE BaudReply
  <2>1. /\ rx # <<>> /\ rx' = Tail(rx) /\ pc = "baudAck"
        /\ UNCHANGED <<tx, sent, bpc, hostBaud, bootBaud, flash>>
    BY <1>2 DEF BaudReply, ReadByte, bootVars
  <2>2. CASE rx = <<ACK_OK>>
    <3>1. pc' = "fast" /\ rx' = <<>> BY <1>2, <2>1, <2>2, DistinctReplies DEF BaudReply
    <3>2. Negotiation'
      BY <1>1, <2>1, <2>2, <3>1, DistinctReplies DEF Negotiation, Fresh, Silent
    <3>3. QED BY <3>2 DEF Conversation
  <2>3. CASE rx = <<ACK_NOK>>
    <3>1. pc' = "syncStx" /\ rx' = <<>> BY <1>2, <2>1, <2>3, DistinctReplies DEF BaudReply
    <3>2. Resync'
      BY <1>1, <2>1, <2>3, <3>1, DistinctReplies
         DEF Negotiation, Resync, Fresh, Silent, Agreed
    <3>3. QED BY <3>2 DEF Conversation
  <2>4. QED BY <1>1, <2>1, <2>2, <2>3 DEF Negotiation
<1>3. CASE FastBaud
  <2>1. /\ pc = "fast" /\ UNCHANGED <<tx, rx, sent, bpc, bootBaud, flash>>
        /\ \/ pc' = "exit"
           \/ pc' = "syncStx" /\ hostBaud' = "fast"
    BY <1>3 DEF FastBaud, ChangeBaudRate, Goto, Exit, bootVars
  <2>2. Aborted' \/ Resync'
    BY <1>1, <2>1 DEF Negotiation, Aborted, Resync, Fresh, Silent, Agreed
  <2>3. QED BY <2>2 DEF Conversation
<1>4. QED BY <1>2, <1>3

\* Synchronising at the new baud rate preserves the phases.
LEMMA SyncConversation ==
    ASSUME NoZeroWrite, Types, Conversation, Synchronise PROVE Conversation'
<1>1. Resync
  BY DEF Synchronise, Await, ConnectWrite, Conversation, Setup, Greeting, Negotiation,
         Resync, Sending, Accepted, Between, Ending, Aborted
<1>2. UNCHANGED <<sent, bpc, hostBaud, bootBaud, flash, image>>
  BY DEF Synchronise, Await, ConnectWrite, bootVars
<1>3. CASE Await("syncStx", STX, "writeStx")
  <2>1. pc = "syncStx" /\ rx # <<>> /\ rx' = Tail(rx) /\ tx' = tx
    BY <1>3 DEF Await, ReadByte
  <2>2. rx = <<STX>> /\ bpc = "synced" /\ tx = <<>> BY <1>1, <2>1 DEF Resync, Silent
  <2>3. pc' = "writeStx" BY <1>3, <2>2 DEF Await
  <2>4. Resync' BY <1>1, <1>2, <2>1, <2>2, <2>3 DEF Resync, Silent, Fresh, Agreed
  <2>5. QED BY <2>4 DEF Conversation
<1>4. CASE ConnectWrite("writeStx", STX, "readyStx")
  <2>1. /\ pc = "writeStx" /\ pc' = "readyStx" /\ rx' = rx
        /\ Write(<<STX>>, TRUE, TRUE)
    BY <1>4 DEF ConnectWrite, Write, NoZeroWrite, Goto
  <2>2. bpc = "synced" /\ tx = <<>> /\ rx = <<>> BY <1>1, <2>1 DEF Resync, Silent
  <2>3. Len(tx') <= 1
    <3>1. tx \in Seq(Byte) /\ <<STX>> \in Seq(Byte) /\ Len(<<STX>>) = 1 /\ Len(tx) = 0
      BY <2>2, ControlBytes DEF Types, LineType
    <3>2. Len(tx') <= Len(tx) + Len(<<STX>>) BY <2>1, <3>1, WriteLeaves
    <3>3. QED BY <3>1, <3>2, Lengths, Zenon
  <2>4. Resync' BY <1>1, <1>2, <2>1, <2>2, <2>3 DEF Resync, Silent, Fresh, Agreed
  <2>5. QED BY <2>4 DEF Conversation
<1>5. CASE Await("readyStx", STX, "main")
  <2>1. pc = "readyStx" /\ rx # <<>> /\ rx' = Tail(rx) /\ tx' = tx
    BY <1>5 DEF Await, ReadByte
  <2>2. rx = <<STX>> /\ bpc = "data" /\ tx = <<>> BY <1>1, <2>1 DEF Resync, Silent
  <2>3. pc' = "main" /\ rx' = <<>> BY <1>5, <2>1, <2>2 DEF Await
  <2>4. Between'
    BY <1>1, <1>2, <2>1, <2>2, <2>3, Shapes DEF Resync, Between, Silent, Fresh, Agreed
  <2>5. QED BY <2>4 DEF Conversation
<1>6. QED BY <1>3, <1>4, <1>5 DEF Synchronise

-----------------------------------------------------------------------------
(* Steps of a block.                                                       *)

\* main()'s loop preserves the phases: it goes on when a block is accepted.
LEMMA NextBlockConversation == ASSUME Types, Conversation, NextBlock PROVE Conversation'
<1>1. Between
  BY DEF NextBlock, Conversation, Setup, Greeting, Negotiation, Resync, Sending, Accepted,
         Between, Ending, Aborted
<1>2. pc = "main" /\ UNCHANGED <<tx, rx, sent, bpc, hostBaud, bootBaud, flash, image>>
  BY DEF NextBlock, bootVars
<1>3. CASE sent < BlockCount(image)
  <2>1. pc' = "block" BY <1>3 DEF NextBlock
  <2>2. sent <= FullBlocks(image) BY <1>3, Shapes
  <2>3. Sending' BY <1>1, <1>2, <1>3, <2>1, <2>2, Shapes DEF Between, Sending, Silent, Agreed
  <2>4. QED BY <2>3 DEF Conversation
<1>4. CASE ~ (sent < BlockCount(image))
  <2>1. pc' = "burning" BY <1>4 DEF NextBlock
  <2>2. sent = BlockCount(image) BY <1>1, <1>4, Shapes DEF Between
  <2>3. Between' BY <1>1, <1>2, <2>1, <2>2 DEF Between, Agreed
  <2>4. QED BY <2>3 DEF Conversation
<1>5. QED BY <1>3, <1>4

\* Sending the bytes of a block preserves the phases.
LEMMA SendDataConversation ==
    ASSUME NoZeroWrite, Types, Conversation, SendData PROVE Conversation'
<1>1. Sending /\ pc = "block"
  BY DEF SendData, Conversation, Setup, Greeting, Negotiation, Resync, Sending, Accepted,
         Between, Ending, Aborted
<1>2. /\ pc' = "blockStx" /\ Write(Current, TRUE, TRUE)
      /\ UNCHANGED <<rx, sent, bpc, hostBaud, bootBaud, flash, image>>
  BY DEF SendData, BlockWrite, Write, NoZeroWrite, Goto, bootVars
<1>3. bpc = "data" /\ tx = <<>> /\ rx = <<>> BY <1>1 DEF Sending, Silent
<1>4. Current \in Seq(Byte) /\ Len(Current) = BlockSize
  BY BlockType, ImagesAssumption, Shapes DEF Current, Types, HostType
<1>5. Len(tx') <= BlockSize
  <2>1. tx \in Seq(Byte) /\ Len(tx) = 0 /\ BlockSize \in Nat
    BY <1>3, BlockSizeAssumption DEF Types, LineType
  <2>2. Len(tx') <= Len(tx) + Len(Current) BY <1>2, <1>4, <2>1, WriteLeaves
  <2>3. QED BY <1>4, <2>1, <2>2
<1>6. Sending' BY <1>1, <1>2, <1>3, <1>5 DEF Sending, Silent, Agreed
<1>7. QED BY <1>6 DEF Conversation

\* The STX that follows the bytes of a block preserves the phases.
LEMMA DataReceivedConversation ==
    ASSUME Types, Conversation, DataReceived PROVE Conversation'
<1>1. Sending /\ pc = "blockStx"
  BY DEF DataReceived, Await, Conversation, Setup, Greeting, Negotiation, Resync, Sending,
         Accepted, Between, Ending, Aborted
<1>2. /\ rx # <<>> /\ rx' = Tail(rx)
      /\ UNCHANGED <<tx, sent, bpc, hostBaud, bootBaud, flash, image>>
  BY DEF DataReceived, Await, ReadByte, bootVars
<1>3. rx = <<STX>> /\ bpc = "mark" /\ tx = <<>> BY <1>1, <1>2 DEF Sending
<1>4. pc' = "mark" /\ rx' = <<>> BY <1>2, <1>3 DEF DataReceived, Await
<1>5. Sending' BY <1>1, <1>2, <1>3, <1>4 DEF Sending, Silent, Agreed
<1>6. QED BY <1>5 DEF Conversation

\* Sending the mark and the checksum preserves the phases.
LEMMA SendMarkConversation ==
    ASSUME NoZeroWrite, Types, Conversation, SendMark \/ SendCheck PROVE Conversation'
<1>1. Sending
  BY DEF SendMark, SendCheck, Conversation, Setup, Greeting, Negotiation, Resync, Sending,
         Accepted, Between, Ending, Aborted
<1>2. UNCHANGED <<rx, sent, bpc, hostBaud, bootBaud, flash, image>>
  BY DEF SendMark, SendCheck, BlockWrite, Write, NoZeroWrite, bootVars
<1>3. Mark' = Mark BY <1>2 DEF Mark, IsFull
<1>4. CASE SendMark
  <2>1. pc = "mark" /\ pc' = "check" /\ Write(<<Mark>>, TRUE, TRUE)
    BY <1>4 DEF SendMark, BlockWrite, Write, NoZeroWrite, Goto, Mark
  <2>2. bpc = "mark" /\ tx = <<>> /\ rx = <<>> BY <1>1, <2>1 DEF Sending, Silent
  <2>3. Len(tx') <= 1 /\ (Len(tx') = 1 => tx'[1] = Mark)
    <3>1. tx \in Seq(Byte) /\ <<Mark>> \in Seq(Byte) /\ Len(<<Mark>>) = 1 /\ Len(tx) = 0
      BY <2>2, ControlBytes DEF Types, LineType, Mark
    <3>2. tx \o <<Mark>> = <<Mark>> BY <2>2, <3>1, ConcatEmptySeq
    <3>3. /\ Len(tx') <= Len(tx) + Len(<<Mark>>)
          /\ Len(tx') = Len(tx) + Len(<<Mark>>) => tx' = tx \o <<Mark>>
      BY <2>1, <3>1, WriteLeaves
    <3>4. <<Mark>>[1] = Mark OBVIOUS
    <3>5. QED BY <3>1, <3>2, <3>3, <3>4, Lengths, Zenon
  <2>4. Sending' BY <1>1, <1>2, <1>3, <2>1, <2>2, <2>3 DEF Sending, Agreed
  <2>5. QED BY <2>4 DEF Conversation
<1>5. CASE SendCheck
  <2>1. pc = "check" /\ pc' = "blockAck" /\ Write(<<check>>, TRUE, TRUE)
    BY <1>5 DEF SendCheck, BlockWrite, Write, NoZeroWrite, Goto
  <2>2. bpc = "mark" /\ Len(tx) <= 1 /\ (Len(tx) = 1 => tx[1] = Mark) /\ rx = <<>>
    BY <1>1, <2>1 DEF Sending
  <2>3. Len(tx') <= 2 /\ (Len(tx') = 2 => tx'[1] = Mark)
    <3>1. tx \in Seq(Byte) /\ <<check>> \in Seq(Byte) /\ Len(<<check>>) = 1
      BY DEF Types, LineType, HostType
    <3>2. /\ Len(tx') <= Len(tx) + 1
          /\ Len(tx') = Len(tx) + 1 => tx' = tx \o <<check>>
      BY <2>1, <3>1, WriteLeaves
    <3>3. Len(tx) \in Nat /\ tx' \in Seq(Byte) /\ Len(tx') \in Nat
      BY <2>1, <3>1, WriteTypes, LenProperties DEF Write
    <3>4. Len(tx') <= 2 BY <2>2, <3>2, <3>3
    <3>5. ASSUME Len(tx') = 2 PROVE tx'[1] = Mark
      <4>1. Len(tx) = 1 /\ Len(tx') = Len(tx) + 1
        BY <2>2, <3>2, <3>3, <3>5, Lengths, Zenon
      <4>2. tx' = tx \o <<check>> /\ tx[1] = Mark BY <2>2, <3>2, <4>1
      <4>3. QED BY <3>1, <4>1, <4>2, ConcatProperties
    <3>6. QED BY <3>4, <3>5
  <2>4. Sending' BY <1>1, <1>2, <1>3, <2>1, <2>2, <2>3 DEF Sending, Agreed
  <2>5. QED BY <2>4 DEF Conversation
<1>6. QED BY <1>4, <1>5

\* The reply to a block preserves the phases: ACK_OK and another try.
LEMMA BlockReplyConversation == ASSUME Types, Conversation, BlockReply PROVE Conversation'
<1>1. (Sending \/ Accepted) /\ pc = "blockAck"
  BY DEF BlockReply, Conversation, Setup, Greeting, Negotiation, Resync, Sending, Accepted,
         Between, Ending, Aborted
<1>2. /\ rx # <<>> /\ rx' = Tail(rx)
      /\ UNCHANGED <<tx, bpc, hostBaud, bootBaud, flash, image>>
  BY DEF BlockReply, ReadByte, bootVars
<1>3. CASE Sending
  <2>1. bpc = "data" /\ tx = <<>> /\ rx = <<ACK_NOK>> BY <1>1, <1>2, <1>3 DEF Sending
  <2>2. pc' = "block" /\ sent' = sent /\ rx' = <<>>
    <3>1. Head(rx) = ACK_NOK /\ Tail(rx) = <<>> BY <2>1
    <3>2. Head(rx) # ACK_OK /\ Head(rx) \in Replies BY <3>1, DistinctReplies
    <3>3. QED BY <1>2, <3>1, <3>2 DEF BlockReply, Goto
  <2>3. Sending' BY <1>2, <1>3, <2>1, <2>2 DEF Sending, Silent, Agreed
  <2>4. QED BY <2>3 DEF Conversation
<1>4. CASE Accepted
  <2>1. Head(rx) = ACK_OK BY <1>4 DEF Accepted
  <2>2. pc' = "main" /\ sent' = sent + 1 BY <2>1 DEF BlockReply, Return, Goto
  <2>3. sent' <= BlockCount(image) BY <1>4, <2>2, Shapes DEF Accepted
  <2>4. \/ bpc = "data" /\ rx' = <<>>    /\ sent' <= FullBlocks(image)
        \/ bpc = "burn" /\ rx' = <<>>    /\ sent' > FullBlocks(image)
        \/ bpc = "off"  /\ rx' = <<ETX>> /\ sent' > FullBlocks(image)
    <3>1. IsFull => sent' <= FullBlocks(image) BY <2>2, Shapes DEF IsFull
    <3>2. ~IsFull => sent' > FullBlocks(image) BY <2>2, Shapes DEF IsFull
    <3>3. CASE rx = <<ACK_OK>>
      <4>1. rx' = <<>> BY <1>2, <3>3
      <4>2. \/ IsFull /\ bpc = "data"
            \/ ~IsFull /\ bpc = "burn"
        BY <1>4, <3>3 DEF Accepted
      <4>3. QED BY <3>1, <3>2, <4>1, <4>2
    <3>4. CASE ~IsFull /\ bpc = "off" /\ rx = <<ACK_OK, ETX>>
      <4>1. rx' = <<ETX>> BY <1>2, <3>4
      <4>2. QED BY <3>2, <3>4, <4>1
    <3>5. QED BY <1>4, <3>3, <3>4 DEF Accepted
  <2>5. Between' BY <1>2, <1>4, <2>2, <2>3, <2>4 DEF Accepted, Between, Agreed
  <2>6. QED BY <2>5 DEF Conversation
<1>5. QED BY <1>1, <1>3, <1>4

-----------------------------------------------------------------------------
(* Steps after the last block.                                             *)

\* Waiting for the end of burning preserves the phases.
LEMMA BurntConversation == ASSUME Types, Conversation, Burnt PROVE Conversation'
<1>1. Between /\ pc = "burning"
  BY DEF Burnt, Await, Conversation, Setup, Greeting, Negotiation, Resync, Sending, Accepted,
         Between, Ending, Aborted
<1>2. /\ rx # <<>> /\ rx' = Tail(rx)
      /\ UNCHANGED <<tx, sent, bpc, hostBaud, bootBaud, flash, image>>
  BY DEF Burnt, Await, ReadByte, bootVars
<1>3. /\ sent > FullBlocks(image) /\ sent = BlockCount(image)
      /\ Len(flash) = sent /\ tx = <<>> /\ Agreed
  BY <1>1, <1>2 DEF Between
<1>4. CASE rx = <<ETX>>
  <2>1. bpc = "off" BY <1>1, <1>2, <1>4, DistinctReplies DEF Between
  <2>2. pc' = "sendR" /\ rx' = <<>> BY <1>2, <1>4 DEF Burnt, Await
  <2>3. Ending' BY <1>2, <1>3, <2>1, <2>2, Shapes DEF Ending, Agreed
  <2>4. QED BY <2>3 DEF Conversation
<1>5. CASE rx # <<ETX>>
  <2>1. \/ bpc = "burn" /\ rx = <<Text>>
        \/ bpc = "off"  /\ rx = <<Text, ETX>>
    BY <1>1, <1>2, <1>5 DEF Between
  <2>2. Head(rx) = Text BY <2>1
  <2>3. pc' = "burning" BY <2>2, DistinctReplies DEF Burnt, Await
  <2>4. \/ bpc = "burn" /\ rx' = <<>>
        \/ bpc = "off"  /\ rx' = <<ETX>>
    <3>1. Tail(<<Text>>) = <<>> /\ Tail(<<Text, ETX>>) = <<ETX>> OBVIOUS
    <3>2. QED BY <1>2, <2>1, <3>1
  <2>5. Between' BY <1>2, <1>3, <2>3, <2>4, Shapes DEF Between, Agreed
  <2>6. QED BY <2>5 DEF Conversation
<1>6. QED BY <1>4, <1>5

\* The two commands and the end of main() preserve the phases.
LEMMA EndConversation ==
    ASSUME NoZeroWrite, Types, Conversation, EraseRegistry \/ PowerOff \/ Finish
    PROVE  Conversation'
<1>1. Ending
  BY DEF EraseRegistry, PowerOff, SendCommand, Finish, Conversation, Setup, Greeting,
         Negotiation, Resync, Sending, Accepted, Between, Ending, Aborted
<1>2. /\ pc' \in {"sendO", "done", "exit"}
      /\ UNCHANGED <<rx, sent, bpc, hostBaud, bootBaud, flash, image>>
  BY DEF EraseRegistry, PowerOff, SendCommand, Finish, Write, Goto, Exit, bootVars
<1>3. Ending' BY <1>1, <1>2 DEF Ending, Agreed
<1>4. QED BY <1>3 DEF Conversation

-----------------------------------------------------------------------------
(* Steps of the bootloader and of the line.                                *)

\* Two bytes on the line.
LEMMA AppendSecond ==
    ASSUME NEW a \in Byte, NEW b \in Byte PROVE Append(<<a>>, b) = <<a, b>>
<1>1. <<a>> \in Seq(Byte) /\ <<a, b>> \in Seq(Byte) OBVIOUS
<1>2. Append(<<a>>, b) \in Seq(Byte) /\ Len(Append(<<a>>, b)) = 2
  BY <1>1, AppendProperties
<1>3. Append(<<a>>, b)[1] = a /\ Append(<<a>>, b)[2] = b BY <1>1, AppendProperties
<1>4. \A i \in 1..2 : Append(<<a>>, b)[i] = <<a, b>>[i] BY <1>3
<1>5. QED BY <1>1, <1>2, <1>4, SeqEqual

\* The bootloader's greeting preserves the phases.
LEMMA BootHelloConversation == ASSUME Types, Conversation, BootHello PROVE Conversation'
<1>1. Greeting
  BY DEF BootHello, BootSay, Conversation, Setup, Greeting, Negotiation, Resync, Sending,
         Accepted, Between, Ending, Aborted
<1>2. UNCHANGED <<pc, tx, sent, hostBaud, bootBaud, flash>>
  BY DEF BootHello, BootSay, hostVars
<1>3. CASE bpc = "hello"
  <2>1. bpc' = "bel" /\ rx' = Append(rx, STX) /\ rx = <<>> /\ pc = "helloStx"
    BY <1>1, <1>3 DEF BootHello, BootSay, Greeting
  <2>2. rx' = <<STX>> BY <2>1
  <2>3. Greeting' BY <1>1, <1>2, <2>1, <2>2 DEF Greeting, Fresh
  <2>4. QED BY <2>3 DEF Conversation
<1>4. CASE bpc = "bel"
  <2>1. bpc' = "baud" /\ rx' = Append(rx, BEL) BY <1>4 DEF BootHello, BootSay
  <2>2. \/ pc = "helloStx" /\ rx = <<STX>>
        \/ pc = "helloBel" /\ rx = <<>>
    BY <1>1, <1>4 DEF Greeting
  <2>3. \/ pc = "helloStx" /\ rx' = <<STX, BEL>>
        \/ pc = "helloBel" /\ rx' = <<BEL>>
    <3>1. CASE rx = <<STX>> BY <2>1, <2>2, <3>1, AppendSecond, ControlBytes
    <3>2. CASE pc = "helloBel" /\ rx = <<>> BY <2>1, <3>2
    <3>3. QED BY <2>2, <3>1, <3>2
  <2>4. Greeting' BY <1>1, <1>2, <2>1, <2>3 DEF Greeting, Fresh
  <2>5. QED BY <2>4 DEF Conversation
<1>5. QED BY <1>3, <1>4 DEF BootHello, BootSay

\* The bootloader's answer to the baud rate preserves the phases.
LEMMA BootBaudConversation == ASSUME Types, Conversation, BootBaud PROVE Conversation'
<1>1. tx \in Seq(Byte) BY DEF Types, LineType
<1>2. Negotiation /\ pc = "baudAck" /\ Len(tx) = 4 /\ rx = <<>>
  <2>1. bpc = "baud" /\ Len(tx) >= 4 /\ tx # <<>> BY <1>1 DEF BootBaud
  <2>2. Negotiation
    BY <2>1 DEF Conversation, Setup, Greeting, Negotiation, Resync, Sending, Accepted,
         Between, Ending, Aborted
  <2>3. Len(tx) \in Nat BY <1>1, LenProperties
  <2>4. ~ (Len(tx) <= 1) /\ ~ (Len(tx) <= 2) /\ ~ (Len(tx) <= 3)
    BY <2>1, <2>3, Lengths, Zenon
  <2>5. pc = "baudAck" /\ Len(tx) <= 4 /\ rx = <<>>
    BY <2>1, <2>2, <2>4, Zenon DEF Negotiation, Silent
  <2>6. 4 \in Nat OBVIOUS
  <2>7. QED BY <2>1, <2>2, <2>3, <2>5, <2>6, Lengths, Zenon
<1>3. /\ bpc' = "sync" /\ UNCHANGED <<pc, sent, hostBaud, flash>>
      /\ \/ rx' = Append(rx, ACK_OK) /\ bootBaud' = "fast"
         \/ rx' = Append(rx, ACK_NOK) /\ bootBaud' = bootBaud
  BY DEF BootBaud, hostVars
<1>4. tx' = <<>> BY <1>2, SubSeqEmpty DEF BootBaud
<1>5. \/ rx' = <<ACK_OK>> /\ bootBaud' = "fast"
      \/ rx' = <<ACK_NOK>> /\ bootBaud' = bootBaud
  BY <1>2, <1>3
<1>6. bootBaud = "slow" BY <1>2 DEF BootBaud, Negotiation
<1>7. Negotiation' BY <1>2, <1>3, <1>4, <1>5, <1>6 DEF Negotiation, Fresh
<1>8. QED BY <1>7 DEF Conversation

\* The bootloader's synchronisation preserves the phases.
LEMMA BootSyncConversation == ASSUME Types, Conversation, BootSync PROVE Conversation'
<1>1. bpc \in {"sync", "synced", "ready"} /\ (bpc = "sync" => pc = "syncStx")
  BY DEF BootSync, BootSay
<1>2. Resync
  BY <1>1 DEF Conversation, Setup, Greeting, Negotiation, Resync, Sending, Accepted, Between,
         Ending, Aborted
<1>3. UNCHANGED <<pc, sent, hostBaud, bootBaud, flash>>
  BY DEF BootSync, BootSay, hostVars
<1>4. CASE bpc = "sync"
  <2>1. bpc' = "synced" /\ rx' = Append(rx, STX) /\ tx' = tx BY <1>4 DEF BootSync, BootSay
  <2>2. pc = "syncStx" /\ tx = <<>> /\ rx = <<>> BY <1>2, <1>4 DEF Resync, Silent
  <2>3. rx' = <<STX>> BY <2>1, <2>2
  <2>4. Resync' BY <1>2, <1>3, <2>1, <2>2, <2>3 DEF Resync, Fresh, Agreed
  <2>5. QED BY <2>4 DEF Conversation
<1>5. CASE bpc = "synced"
  <2>1. bpc' = "ready" /\ tx # <<>> /\ tx' = Tail(tx) /\ rx' = rx
    BY <1>5 DEF BootSync, BootSay
  <2>2. pc = "readyStx" /\ Len(tx) <= 1 /\ rx = <<>> BY <1>2, <1>5, <2>1 DEF Resync, Silent
  <2>3. tx' = <<>>
    <3>1. tx \in Seq(Byte) BY DEF Types, LineType
    <3>2. tx' = SubSeq(tx, 2, Len(tx)) BY <2>1, <3>1, TailIsSubSeq
    <3>3. QED BY <2>2, <3>2, SubSeqEmpty
  <2>4. Resync' BY <1>2, <1>3, <2>1, <2>2, <2>3 DEF Resync, Fresh, Agreed, Silent
  <2>5. QED BY <2>4 DEF Conversation
<1>6. CASE bpc = "ready"
  <2>1. bpc' = "data" /\ rx' = Append(rx, STX) /\ tx' = tx BY <1>6 DEF BootSync, BootSay
  <2>2. pc = "readyStx" /\ tx = <<>> /\ rx = <<>> BY <1>2, <1>6 DEF Resync, Silent
  <2>3. rx' = <<STX>> BY <2>1, <2>2
  <2>4. Resync' BY <1>2, <1>3, <2>1, <2>2, <2>3 DEF Resync, Fresh, Agreed
  <2>5. QED BY <2>4 DEF Conversation
<1>7. QED BY <1>1, <1>4, <1>5, <1>6

\* The bootloader's receipt of a block preserves the phases.
LEMMA BootDataConversation == ASSUME Types, Conversation, BootData PROVE Conversation'
<1>1. tx \in Seq(Byte) /\ BlockSize \in Nat \ {0} BY BlockSizeAssumption DEF Types, LineType
<1>2. bpc = "data" /\ tx # <<>> /\ Len(tx) >= BlockSize BY <1>1 DEF BootData
<1>3. Sending /\ pc = "blockStx" /\ Len(tx) = BlockSize /\ rx = <<>>
  <2>1. Sending /\ pc = "blockStx" /\ Len(tx) <= BlockSize /\ rx = <<>>
    BY <1>2 DEF Conversation, Setup, Greeting, Negotiation, Resync, Sending, Accepted,
         Between, Ending, Aborted, Silent
  <2>2. Len(tx) \in Nat BY <1>1, LenProperties
  <2>3. QED BY <1>1, <1>2, <2>1, <2>2
<1>4. /\ bpc' = "mark" /\ rx' = Append(rx, STX) /\ tx' = SubSeq(tx, BlockSize + 1, Len(tx))
      /\ UNCHANGED <<pc, sent, hostBaud, bootBaud, flash, image>>
  BY DEF BootData, hostVars
<1>5. tx' = <<>> /\ rx' = <<STX>> BY <1>1, <1>3, <1>4, SubSeqEmpty
<1>6. Sending' BY <1>3, <1>4, <1>5 DEF Sending, Agreed
<1>7. QED BY <1>6 DEF Conversation

\* The bootloader's verdict on a block preserves the phases.
LEMMA BootVerifyConversation == ASSUME Types, Conversation, BootVerify PROVE Conversation'
<1>1. tx \in Seq(Byte) /\ flash \in Seq(Seq(Byte)) /\ buf \in Seq(Byte)
  BY DEF Types, LineType, BootType
<1>2. bpc = "mark" /\ Len(tx) >= 2 BY DEF BootVerify
<1>3. /\ Sending /\ pc = "blockAck" /\ Len(tx) = 2 /\ tx[1] = Mark /\ rx = <<>>
      /\ Len(flash) = sent
  <2>1. tx # <<>> BY <1>1, <1>2
  <2>2. Sending
    BY <1>2 DEF Conversation, Setup, Greeting, Negotiation, Resync, Sending, Accepted,
         Between, Ending, Aborted
  <2>3. Len(tx) \in Nat BY <1>1, LenProperties
  <2>4. ~ (Len(tx) <= 1) BY <1>2, <2>3
  <2>5. pc = "blockAck" /\ Len(tx) <= 2 /\ (Len(tx) = 2 => tx[1] = Mark) /\ rx = <<>>
    BY <1>2, <2>1, <2>2, <2>4, Zenon DEF Sending, Silent
  <2>6. 2 \in Nat OBVIOUS
  <2>7. Len(tx) = 2 BY <1>2, <2>3, <2>5, <2>6, Lengths, Zenon
  <2>8. Len(flash) = sent BY <2>2 DEF Sending
  <2>9. QED BY <2>2, <2>5, <2>7, <2>8, Zenon
<1>4. UNCHANGED <<pc, sent, hostBaud, bootBaud, image>> BY DEF BootVerify, hostVars
<1>5. tx' = <<>> BY <1>3, SubSeqEmpty DEF BootVerify
<1>6. IsFull' = IsFull BY <1>4 DEF IsFull
<1>7. CASE tx[2] = Checksum(Seed, buf)
  <2>1. /\ flash' = Append(flash, buf) /\ rx' = Append(rx, ACK_OK)
        /\ bpc' = IF tx[1] = ETX THEN "burn" ELSE "data"
    BY <1>7 DEF BootVerify
  <2>2. Len(flash') = sent + 1 /\ rx' = <<ACK_OK>> BY <1>1, <1>3, <2>1, AppendProperties
  <2>3. \/ IsFull /\ bpc' = "data"
        \/ ~IsFull /\ bpc' = "burn"
    BY <1>3, <2>1, DistinctReplies DEF Mark
  <2>4. Accepted'
    BY <1>3, <1>4, <1>5, <1>6, <2>2, <2>3 DEF Sending, Accepted, Agreed
  <2>5. QED BY <2>4 DEF Conversation
<1>8. CASE tx[2] # Checksum(Seed, buf)
  <2>1. flash' = flash /\ rx' = Append(rx, ACK_NOK) /\ bpc' = "data" BY <1>8 DEF BootVerify
  <2>2. rx' = <<ACK_NOK>> BY <1>3, <2>1
  <2>3. Sending' BY <1>3, <1>4, <1>5, <2>1, <2>2 DEF Sending, Agreed
  <2>4. QED BY <2>3 DEF Conversation
<1>9. QED BY <1>7, <1>8

\* Burning, and the text printed meanwhile, preserve the phases.
LEMMA BootBurnConversation ==
    ASSUME Types, Conversation, BootText \/ BootBurnt PROVE Conversation'
<1>1. bpc = "burn" BY DEF BootText, BootBurnt, BootSay
<1>2. Accepted \/ Between
  BY <1>1 DEF Conversation, Setup, Greeting, Negotiation, Resync, Sending, Accepted, Between,
         Ending, Aborted
<1>3. UNCHANGED <<pc, tx, sent, hostBaud, bootBaud, flash, image>>
  BY DEF BootText, BootBurnt, BootSay, hostVars
<1>4. IsFull' = IsFull BY <1>3 DEF IsFull
<1>5. CASE BootText
  <2>1. bpc' = "burn" /\ rx = <<>> /\ rx' = <<Text>> BY <1>5 DEF BootText, BootSay
  <2>2. Between' BY <1>1, <1>2, <1>3, <2>1 DEF Accepted, Between, Agreed
  <2>3. QED BY <2>2 DEF Conversation
<1>6. CASE BootBurnt
  <2>1. bpc' = "off" /\ rx' = Append(rx, ETX) BY <1>6 DEF BootBurnt, BootSay
  <2>2. CASE Accepted
    <3>1. rx = <<ACK_OK>> /\ ~IsFull BY <1>1, <2>2 DEF Accepted
    <3>2. rx' = <<ACK_OK, ETX>> BY <2>1, <3>1, AppendSecond, ControlBytes
    <3>3. Accepted' BY <1>3, <1>4, <2>1, <2>2, <3>1, <3>2 DEF Accepted, Agreed
    <3>4. QED BY <3>3 DEF Conversation
  <2>3. CASE Between
    <3>1. rx = <<>> \/ rx = <<Text>> BY <1>1, <2>3 DEF Between
    <3>2. rx' = <<ETX>> \/ rx' = <<Text, ETX>>
      <4>1. CASE rx = <<>> BY <2>1, <4>1
      <4>2. CASE rx = <<Text>> BY <2>1, <4>2, AppendSecond, ControlBytes
      <4>3. QED BY <3>1, <4>1, <4>2
    <3>3. Between' BY <1>1, <1>3, <2>1, <2>3, <3>2 DEF Between, Agreed
    <3>4. QED BY <3>3 DEF Conversation
  <2>4. QED BY <1>2, <2>2, <2>3
<1>7. QED BY <1>5, <1>6

\* A line error preserves the phases: it changes no mark and no length.
LEMMA LineErrorConversation == ASSUME Types, Conversation, LineError PROVE Conversation'
<1>1. tx \in Seq(Byte) BY DEF Types, LineType
<1>2. Sending \/ Accepted
  BY DEF LineError, Exposed, Conversation, Setup, Greeting, Negotiation, Resync, Sending,
         Accepted, Between, Ending, Aborted
<1>3. PICK i \in Strikable, b \in Bits : tx' = [tx EXCEPT ![i] = Xor(tx[i], {b})]
  BY DEF LineError
<1>4. i \in 1..Len(tx) /\ (bpc # "data" => i # 1) BY <1>1, <1>3 DEF Strikable
<1>5. tx # <<>> BY <1>4
<1>6. Sending /\ tx # <<>> /\ pc \in {"blockStx", "blockAck"} BY <1>2, <1>5
  DEF Accepted, LineError, Exposed
<1>7. Len(tx') = Len(tx) /\ (bpc # "data" => tx'[1] = tx[1])
  BY <1>1, <1>3, <1>4
<1>8. UNCHANGED <<pc, rx, sent, bpc, hostBaud, bootBaud, flash, image>>
  BY DEF LineError, hostVars, bootVars
<1>9. Mark' = Mark BY <1>8 DEF Mark, IsFull
<1>10. Sending' BY <1>6, <1>7, <1>8, <1>9 DEF Sending, Agreed, Silent
<1>11. QED BY <1>10 DEF Conversation

-----------------------------------------------------------------------------
(* The theorems about the conversation.                                    *)

\* The phases do not depend on anything but the variables.
LEMMA StutterConversation == ASSUME Conversation, UNCHANGED vars PROVE Conversation'
<1>1. UNCHANGED <<pc, tx, rx, sent, image, bpc, hostBaud, bootBaud, flash>>
  BY DEF vars, hostVars, bootVars
<1>2. Mark' = Mark /\ IsFull' = IsFull BY <1>1 DEF Mark, IsFull
<1>3. QED
  BY <1>1, <1>2 DEF Conversation, Setup, Greeting, Negotiation, Resync, Sending, Accepted,
         Between, Ending, Aborted, Silent, Agreed, Fresh

\* The phases are an inductive invariant, given the types.
LEMMA NextConversation ==
    ASSUME NoZeroWrite PROVE Types /\ Conversation /\ [Next]_vars => Conversation'
<1> SUFFICES ASSUME Types, Conversation, [Next]_vars PROVE Conversation' OBVIOUS
<1>1. CASE Host
  BY <1>1, StartConversation, HelloConversation, SendBaudConversation, BaudReplyConversation,
     SyncConversation, NextBlockConversation, SendDataConversation, DataReceivedConversation,
     SendMarkConversation, BlockReplyConversation, BurntConversation, EndConversation
     DEF Host
<1>2. CASE BootStep \/ BootText
  BY <1>2, BootHelloConversation, BootBaudConversation, BootSyncConversation,
     BootDataConversation, BootVerifyConversation, BootBurnConversation DEF BootStep
<1>3. CASE LineError BY <1>3, LineErrorConversation
<1>4. CASE UNCHANGED vars BY <1>4, StutterConversation
<1>5. QED BY <1>1, <1>2, <1>3, <1>4 DEF Next

\* serload and the bootloader are always at matching places of the protocol.
THEOREM ConversationHolds == ASSUME NoZeroWrite PROVE Spec => [](Types /\ Conversation)
BY InitTypes, NextTypes, InitConversation, NextConversation, PTL DEF Spec

\* Whatever the line does to the blocks, main()'s count and the bootloader's
\* differ by at most the block whose ACK_OK is on its way.
THEOREM BlocksStayInStep == ASSUME NoZeroWrite PROVE Spec => []BlocksInStep
<1>1. ASSUME Types, Conversation PROVE BlocksInStep
  <2>1. Fresh => Len(flash) = sent BY DEF Fresh
  <2>2. Len(flash) = sent \/ Len(flash) = sent + 1
    BY <1>1, <2>1, Zenon DEF Conversation, Setup, Greeting, Negotiation, Resync, Sending,
         Accepted, Between, Ending, Aborted
  <2>3. sent \in Nat /\ Len(flash) \in Nat BY <1>1, Shapes
  <2>4. QED BY <2>2, <2>3, Lengths, Zenon DEF BlocksInStep
<1>2. QED BY ConversationHolds, <1>1, PTL

\* "Update successfully finished!" means that the bootloader has accepted every
\* block and burnt the image.
THEOREM SuccessIsComplete == ASSUME NoZeroWrite PROVE Spec => []SuccessMeansComplete
<1>1. Types /\ Conversation => SuccessMeansComplete
  BY Shapes DEF Conversation, Setup, Greeting, Negotiation, Resync, Sending, Accepted, Between,
         Ending, Aborted, Fresh, Finished, SuccessMeansComplete
<1>2. QED BY ConversationHolds, <1>1, PTL

\* No byte travels to the SIMpad while the two ends have different baud rates,
\* whether or not the bootloader accepts the new rate.
THEOREM BaudsAgree == ASSUME NoZeroWrite PROVE Spec => []BaudAgreement
<1>1. Types /\ Conversation => BaudAgreement
  BY DEF Conversation, Setup, Greeting, Negotiation, Resync, Sending, Accepted, Between,
         Ending, Aborted, Agreed, Silent, BaudAgreement
<1>2. QED BY ConversationHolds, <1>1, PTL
=============================================================================
