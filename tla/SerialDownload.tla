--------------------------- MODULE SerialDownload ---------------------------
(***************************************************************************)
(* serload: downloading an image from the PC to the SIMpad's bootloader    *)
(* over a serial line (src/serload/main.cpp, serialdownload.cpp).          *)
(*                                                                         *)
(* The host is the serload process.  Every system call that another party  *)
(* can observe (a write, a one-byte read, a change of the baud rate) is a  *)
(* step of its own.  The bootloader is not part of the repository: its     *)
(* side of the protocol is what serload expects of it (external).  The     *)
(* line delivers bytes in order; it may flip one bit per attempt in the    *)
(* part of a block transfer that the checksum is there to protect.         *)
(*                                                                         *)
(* A byte is the set of its 1-bits, so that shifting and exclusive-or are  *)
(* set operations.                                                         *)
(***************************************************************************)
EXTENDS Integers, Sequences

CONSTANTS
    BlockSize,      \* bytes per block, 512 in the code
    Images,         \* the image files the user may name
    WriteOutcomes,  \* what write() on the O_NONBLOCK port may return
    MaxNoise        \* how many line errors may happen in a download

Bits == 0..7
Byte == SUBSET Bits
Outcomes == {"full", "short", "error", "zero"}

ASSUME BlockSizeAssumption == BlockSize \in Nat \ {0}
ASSUME ImagesAssumption == Images \subseteq Seq(Byte)
ASSUME OutcomesAssumption == WriteOutcomes \subseteq Outcomes
ASSUME NoiseAssumption == MaxNoise \in Nat

-----------------------------------------------------------------------------
(* Control characters of serialdownload.hpp.                               *)

STX     == {1}
ETX     == {0, 1}
BEL     == {0, 1, 2}
ACK_BD  == {0, 1, 3}
ACK_OK  == {1, 2}
ACK_NOK == {0, 1, 2, 3}
FILLER  == Bits

\* The characters waitForReply() returns; every other byte is only echoed.
Replies == {STX, ETX, BEL, ACK_OK, ACK_NOK}

\* The baud rate 115200 = 0x01c200 as the three bytes connectToSimpad() sends.
FastBaudRate == << {0}, {1, 6, 7}, {} >>

\* 'r' (erase registry), 'o' (power off), and a byte of progress text.
CharR == {1, 4, 5, 6}
CharO == {0, 1, 2, 3, 5, 6}
Text  == {1, 2, 3, 5}

-----------------------------------------------------------------------------
(* The checksum: check = (check << 1) ^ byte, in an unsigned char.         *)

Xor(a, b) == (a \ b) \cup (b \ a)

\* Mutant: the bit shifted out on the left comes back on the right.
RotateLeft(a) == {(i + 1) % 8 : i \in a}

ShiftLeft(a) == {i + 1 : i \in a}

\* Mutant: the result of the shift is not truncated.
Untruncated(a) == a

UnsignedChar(a) == a \cap Bits

\* Mutant: the bytes are or-ed.
CheckStepOr(c, byte) == UnsignedChar(ShiftLeft(c) \cup byte)

CheckStep(c, byte) == UnsignedChar(Xor(ShiftLeft(c), byte))

\* The checksum of the bytes of s, started with seed.
Checksum(seed, s) ==
    LET run[i \in 0..Len(s)] ==
            IF i = 0 THEN seed ELSE CheckStep(run[i - 1], s[i])
    IN  UnsignedChar(run[Len(s)])

Seed == Bits

-----------------------------------------------------------------------------
(* The image as sendBlock() sends it.                                      *)

FullBlocks(img) == Len(img) \div BlockSize
Remainder(img)  == Len(img) % BlockSize
BlockCount(img) == FullBlocks(img) + (IF Remainder(img) = 0 THEN 0 ELSE 1)

\* The n-th block, filled up with FILLER if it is incomplete.
Block(img, n) ==
    [j \in 1..BlockSize |->
        LET k == (n - 1) * BlockSize + j
        IN  IF k <= Len(img) THEN img[k] ELSE FILLER]

Blocks(img) == [n \in 1..BlockCount(img) |-> Block(img, n)]

-----------------------------------------------------------------------------
VARIABLES
    pc,         \* where the serload process is
    exitCode,   \* its exit status once pc = "exit", else -1
    image,      \* the loaded file
    sent,       \* numberOfBlocksSent, the remainder block included
    check,      \* sendBlock()'s running checksum
    hostBaud,   \* baud rate of the PC's port
    failed,     \* history: has a write() taken less than it was given?
    tx,         \* bytes on their way to the SIMpad
    rx,         \* bytes on their way to, or buffered at, the PC
    bpc,        \* where the bootloader is
    bootBaud,   \* baud rate of the bootloader's port
    buf,        \* the block the bootloader has received last
    flash,      \* the blocks the bootloader has accepted
    noise,      \* line errors so far
    hit         \* did a line error strike the current attempt?

hostVars == <<pc, exitCode, image, sent, check, hostBaud, failed>>
bootVars == <<bpc, bootBaud, buf, flash>>
noiseVars == <<noise, hit>>
vars == <<hostVars, tx, rx, bootVars, noiseVars>>

Init ==
    /\ pc = "args"  /\ exitCode = -1
    /\ image \in Images
    /\ sent = 0     /\ check = Seed
    /\ hostBaud = "slow" /\ failed = FALSE
    /\ tx = <<>>    /\ rx = <<>>
    /\ bpc = "hello" /\ bootBaud = "slow"
    /\ buf = <<>>   /\ flash = <<>>
    /\ noise = 0    /\ hit = FALSE

-----------------------------------------------------------------------------
(* main() up to the connection.                                            *)

Goto(next) == pc' = next /\ UNCHANGED exitCode
Exit(code) == pc' = "exit" /\ exitCode' = code

\* --help exits with 0, a wrong number of arguments with 1.
ParseArguments ==
    /\ pc = "args"
    /\ \/ Exit(0) \/ Exit(1)
       \/ Goto("open")
    /\ UNCHANGED <<image, sent, check, hostBaud, tx, rx, failed, bootVars, noiseVars>>

\* open(), tcgetattr() or tcsetattr() may fail; else the port is at 38400 baud.
OpenSerialPort ==
    /\ pc = "open"
    /\ \/ Exit(2) /\ UNCHANGED hostBaud
       \/ Goto("load") /\ hostBaud' = "slow"
    /\ UNCHANGED <<image, sent, check, tx, rx, failed, bootVars, noiseVars>>

\* fopen(), malloc() or fread() may fail; fread() of an empty file always does.
LoadFile ==
    /\ pc = "load"
    /\ \/ Exit(3)
       \/ image # <<>> /\ Goto("slow")
    /\ UNCHANGED <<image, sent, check, hostBaud, tx, rx, failed, bootVars, noiseVars>>

-----------------------------------------------------------------------------
(* The system calls the protocol is made of.                               *)

\* write(): all bytes, some of them, none with -1, or none with 0.  The code
\* takes only the value 0 for a failure.
Write(bytes, success, failure) ==
    \E o \in WriteOutcomes :
        /\ \/ o = "full"  /\ tx' = tx \o bytes
           \/ o = "short" /\ \E n \in 1..(Len(bytes) - 1) : tx' = tx \o SubSeq(bytes, 1, n)
           \/ o \in {"error", "zero"} /\ tx' = tx
        /\ failed' = (failed \/ o # "full")
        /\ IF o = "zero" THEN failure ELSE success

\* waitForReply() reads a byte; a byte that is no reply is echoed and forgotten.
ReadByte == rx # <<>> /\ rx' = Tail(rx)

\* while(waitForReply(1) != c);
Await(at, c, next) ==
    /\ pc = at
    /\ ReadByte
    /\ pc' = IF Head(rx) = c THEN next ELSE at
    /\ UNCHANGED <<exitCode, image, sent, check, hostBaud, tx, failed, bootVars, noiseVars>>

\* A write of connectToSimpad(); main() exits with 4 if it returns an error.
ConnectWrite(at, byte, next) ==
    /\ pc = at
    /\ Write(<<byte>>, Goto(next), Exit(4))
    /\ UNCHANGED <<image, sent, check, hostBaud, rx, bootVars, noiseVars>>

\* changeBaudRate(); tcgetattr() or tcsetattr() may fail.
ChangeBaudRate(at, baud, next) ==
    /\ pc = at
    /\ \/ Exit(4) /\ UNCHANGED hostBaud
       \/ Goto(next) /\ hostBaud' = baud
    /\ UNCHANGED <<image, sent, check, tx, rx, failed, bootVars, noiseVars>>

-----------------------------------------------------------------------------
(* connectToSimpad(115200).                                                *)

SlowBaud == ChangeBaudRate("slow", "slow", "helloStx")

Hello ==
    \/ Await("helloStx", STX, "helloBel")
    \/ Await("helloBel", BEL, "ackBd")

SendBaudRate ==
    \/ ConnectWrite("ackBd", ACK_BD, "baud2")
    \/ ConnectWrite("baud2", FastBaudRate[1], "baud1")
    \/ ConnectWrite("baud1", FastBaudRate[2], "baud0")
    \/ ConnectWrite("baud0", FastBaudRate[3], "baudAck")

\* Mutant: the host switches its baud rate whatever the bootloader answers.
BaudReplyUnchecked ==
    /\ pc = "baudAck"
    /\ ReadByte
    /\ pc' = IF Head(rx) \in Replies THEN "fast" ELSE "baudAck"
    /\ UNCHANGED <<exitCode, image, sent, check, hostBaud, tx, failed, bootVars, noiseVars>>

\* Any reply ends the wait; only ACK_OK changes the baud rate.
BaudReply ==
    /\ pc = "baudAck"
    /\ ReadByte
    /\ pc' = IF Head(rx) \notin Replies THEN "baudAck"
             ELSE IF Head(rx) = ACK_OK THEN "fast" ELSE "syncStx"
    /\ UNCHANGED <<exitCode, image, sent, check, hostBaud, tx, failed, bootVars, noiseVars>>

FastBaud == ChangeBaudRate("fast", "fast", "syncStx")

Synchronise ==
    \/ Await("syncStx", STX, "writeStx")
    \/ ConnectWrite("writeStx", STX, "readyStx")
    \/ Await("readyStx", STX, "main")

-----------------------------------------------------------------------------
(* main()'s loop over the blocks, and sendBlock().                         *)

\* Mutant: the pointer into the image is not advanced.
CurrentFirst == Block(image, 1)

\* The block that is being sent, and whether it is a complete one.
Current == Block(image, sent + 1)
IsFull  == sent < FullBlocks(image)

\* Call sendBlock() while there are blocks; then wait for the end of burning.
NextBlock ==
    /\ pc = "main"
    /\ IF sent < BlockCount(image)
       THEN pc' = "block" /\ check' = Seed
       ELSE pc' = "burning" /\ UNCHANGED check
    /\ UNCHANGED <<exitCode, image, sent, hostBaud, tx, rx, failed, bootVars, noiseVars>>

\* main() ignores what sendBlock() returns and goes on with the next block.
Return(ok) == Goto("main") /\ sent' = sent + 1

\* A write() in sendBlock(); a return value of 0 makes it return FALSE.
BlockWrite(bytes, next) ==
    Write(bytes, Goto(next) /\ UNCHANGED sent, Return(FALSE))

\* The whole block; a new attempt goes on with the checksum of the last one.
SendData ==
    /\ pc = "block"
    /\ BlockWrite(Current, "blockStx")
    /\ check' = Checksum(check, Current)
    /\ hit' = FALSE
    /\ UNCHANGED <<image, hostBaud, rx, bootVars, noise>>

DataReceived == Await("blockStx", STX, "mark")

\* Mutant: the last block is marked like the others.
SendMarkStx ==
    /\ pc = "mark"
    /\ BlockWrite(<<STX>>, "check")
    /\ UNCHANGED <<image, check, hostBaud, rx, bootVars, noiseVars>>

\* STX after a complete block, ETX after an incomplete one.
SendMark ==
    /\ pc = "mark"
    /\ BlockWrite(<<IF IsFull THEN STX ELSE ETX>>, "check")
    /\ UNCHANGED <<image, check, hostBaud, rx, bootVars, noiseVars>>

SendCheck ==
    /\ pc = "check"
    /\ BlockWrite(<<check>>, "blockAck")
    /\ UNCHANGED <<image, check, hostBaud, rx, bootVars, noiseVars>>

\* Mutant: ACK_NOK is taken for a confirmation, too.
BlockReplyAny ==
    /\ pc = "blockAck"
    /\ ReadByte
    /\ IF Head(rx) \in Replies THEN Return(TRUE) ELSE Goto(pc) /\ UNCHANGED sent
    /\ UNCHANGED <<image, check, hostBaud, tx, failed, bootVars, noiseVars>>

\* ACK_OK confirms the block; any other reply makes sendBlock() send it again.
BlockReply ==
    /\ pc = "blockAck"
    /\ ReadByte
    /\ IF Head(rx) = ACK_OK
       THEN Return(TRUE)
       ELSE /\ Goto(IF Head(rx) \in Replies THEN "block" ELSE "blockAck")
            /\ UNCHANGED sent
    /\ UNCHANGED <<image, check, hostBaud, tx, failed, bootVars, noiseVars>>

-----------------------------------------------------------------------------
(* waitForEndOfBurning(): the results of its writes are ignored.           *)

\* Mutant: any byte is taken for the end of burning.
BurntAny ==
    /\ pc = "burning"
    /\ ReadByte
    /\ Goto("sendR")
    /\ UNCHANGED <<image, sent, check, hostBaud, tx, failed, bootVars, noiseVars>>

Burnt == Await("burning", ETX, "sendR")

SendCommand(at, char, next) ==
    /\ pc = at
    /\ Write(<<char>>, Goto(next), Goto(next))
    /\ UNCHANGED <<image, sent, check, hostBaud, rx, bootVars, noiseVars>>

EraseRegistry == SendCommand("sendR", CharR, "sendO")
PowerOff      == SendCommand("sendO", CharO, "done")

\* "Update successfully finished!"
Finish ==
    /\ pc = "done"
    /\ Exit(0)
    /\ UNCHANGED <<image, sent, check, hostBaud, tx, rx, failed, bootVars, noiseVars>>

Host ==
    \/ ParseArguments \/ OpenSerialPort \/ LoadFile
    \/ SlowBaud \/ Hello \/ SendBaudRate \/ BaudReply \/ FastBaud \/ Synchronise
    \/ NextBlock \/ SendData \/ DataReceived \/ SendMark \/ SendCheck \/ BlockReply
    \/ Burnt \/ EraseRegistry \/ PowerOff \/ Finish

-----------------------------------------------------------------------------
(* The bootloader (external): the counterpart that serload talks to.       *)

BootSay(at, byte, next) ==
    /\ bpc = at
    /\ bpc' = next
    /\ rx' = Append(rx, byte)
    /\ UNCHANGED <<hostVars, tx, bootBaud, buf, flash, noiseVars>>

\* After RESET the bootloader announces itself.  Until then the host's port is
\* not open, and what the bootloader says is lost.
BootHello ==
    \/ pc = "helloStx" /\ BootSay("hello", STX, "bel")
    \/ BootSay("bel", BEL, "baud")

\* It reads ACK_BD and the three bytes of the rate, answers at the old rate, and
\* changes to the new one if it supports it.
BootBaud ==
    /\ bpc = "baud"
    /\ Len(tx) >= 4
    /\ tx' = SubSeq(tx, 5, Len(tx))
    /\ bpc' = "sync"
    /\ \/ rx' = Append(rx, ACK_OK)  /\ bootBaud' = "fast"
       \/ rx' = Append(rx, ACK_NOK) /\ UNCHANGED bootBaud
    /\ UNCHANGED <<hostVars, buf, flash, noiseVars>>

\* It waits long enough for the host to have changed its rate, too.
BootSync ==
    \/ pc = "syncStx" /\ BootSay("sync", STX, "synced")
    \/ /\ bpc = "synced"
       /\ tx # <<>>
       /\ tx' = Tail(tx)
       /\ bpc' = "ready"
       /\ UNCHANGED <<hostVars, rx, bootBaud, buf, flash, noiseVars>>
    \/ BootSay("ready", STX, "data")

\* A whole block has arrived.
BootData ==
    /\ bpc = "data"
    /\ Len(tx) >= BlockSize
    /\ buf' = SubSeq(tx, 1, BlockSize)
    /\ tx' = SubSeq(tx, BlockSize + 1, Len(tx))
    /\ rx' = Append(rx, STX)
    /\ bpc' = "mark"
    /\ UNCHANGED <<hostVars, bootBaud, flash, noiseVars>>

\* The mark and the checksum: accept the block, or ask for it again.
BootVerify ==
    /\ bpc = "mark"
    /\ Len(tx) >= 2
    /\ tx' = SubSeq(tx, 3, Len(tx))
    /\ IF tx[2] = Checksum(Seed, buf)
       THEN /\ flash' = Append(flash, buf)
            /\ rx' = Append(rx, ACK_OK)
            /\ bpc' = IF tx[1] = ETX THEN "burn" ELSE "data"
       ELSE /\ rx' = Append(rx, ACK_NOK)
            /\ bpc' = "data"
            /\ UNCHANGED flash
    /\ UNCHANGED <<hostVars, bootBaud, buf, noiseVars>>

\* The bootloader prints text while it burns, and ends with ETX.
BootText  == rx = <<>> /\ BootSay("burn", Text, "burn")
BootBurnt == BootSay("burn", ETX, "off")

BootStep == BootHello \/ BootBaud \/ BootSync \/ BootData \/ BootVerify \/ BootBurnt

-----------------------------------------------------------------------------
(* The line (external): a bit of a block, or of its checksum, is flipped.  *)

Exposed == \/ bpc = "data" /\ pc = "blockStx"
           \/ bpc = "mark" /\ pc = "blockAck"

\* The bytes a line error may strike: all of a block, but never the mark.
Strikable == IF bpc = "data" THEN 1..Len(tx) ELSE 2..Len(tx)

LineError ==
    /\ Exposed
    /\ noise < MaxNoise /\ ~hit
    /\ \E i \in Strikable, b \in Bits : tx' = [tx EXCEPT ![i] = Xor(@, {b})]
    /\ noise' = noise + 1
    /\ hit' = TRUE
    /\ UNCHANGED <<hostVars, rx, bootVars>>

Next == Host \/ BootStep \/ BootText \/ LineError

Spec == Init /\ [][Next]_vars

\* The serload process is scheduled, the user presses RESET when asked to, and
\* the bootloader goes on with its side and some time has burnt the image.
FairSpec == Spec /\ WF_vars(Host) /\ WF_vars(BootStep)

-----------------------------------------------------------------------------
(* Properties.                                                             *)

HostPlaces == {"args", "open", "load", "slow", "helloStx", "helloBel", "ackBd",
               "baud2", "baud1", "baud0", "baudAck", "fast", "syncStx",
               "writeStx", "readyStx", "main", "block", "blockStx", "mark",
               "check", "blockAck", "burning", "sendR", "sendO", "done", "exit"}
BootPlaces == {"hello", "bel", "baud", "sync", "synced", "ready", "data",
               "mark", "burn", "off"}
Bauds == {"slow", "fast"}

\* The types of serload's variables and of the line.
TypeOK ==
    /\ pc \in HostPlaces /\ bpc \in BootPlaces
    /\ exitCode \in -1..4
    /\ image \in Images
    /\ sent \in Nat /\ noise \in Nat /\ hit \in BOOLEAN
    /\ check \in Byte
    /\ hostBaud \in Bauds /\ bootBaud \in Bauds /\ failed \in BOOLEAN
    /\ tx \in Seq(Byte) /\ rx \in Seq(Byte) /\ buf \in Seq(Byte)
    /\ flash \in Seq(Seq(Byte))

\* Host and bootloader agree on the number of blocks: the bootloader is never
\* behind main()'s count, and ahead of it only by the block whose ACK_OK is
\* still on the line.
BlocksInStep == sent <= Len(flash) /\ Len(flash) <= sent + 1

\* sendBlock() never resets check between two attempts.  The value it sends is
\* the checksum of the block all the same: what earlier attempts left in check
\* has been shifted out.
CheckIsFresh ==
    pc \in {"blockStx", "mark", "check", "blockAck"}
        => check = Checksum(Seed, Current)

\* The bits of a byte that its checksum still holds k bytes later.
Held(k) == {b \in Bits : b + k \in Bits}

\* Two blocks agree in all those bits.
SameTail(a, b) ==
    \A k \in Bits : a[BlockSize - k] \cap Held(k) = b[BlockSize - k] \cap Held(k)

\* With at most one flipped bit per attempt, an accepted block agrees with the
\* image in all the bits the checksum holds: all of the last byte, all but the
\* top bit of the byte before it, and so on.  (Nothing protects the others.)
TailIntact == \A n \in 1..Len(flash) : SameTail(flash[n], Block(image, n))

\* "Update successfully finished!" is printed only if the bootloader has all
\* the blocks, has burnt them and has no reply left that serload ignored.
Finished == pc \in {"sendR", "sendO", "done"} \/ (pc = "exit" /\ sent > 0)
SuccessMeansComplete ==
    Finished => /\ Len(flash) = BlockCount(image)
                /\ bpc = "off"
                /\ rx = <<>>

\* Whenever bytes travel to the SIMpad, both ends use the same baud rate.
BaudAgreement == tx # <<>> => hostBaud = bootBaud

\* serload comes to an end, unless a write() took less than it was given.
Completes == <>(pc = "exit" \/ failed)

-----------------------------------------------------------------------------
(* The protocol implements the transfer of the padded blocks.              *)

Status == IF pc # "exit" THEN "running"
          ELSE IF exitCode = 0 /\ sent > 0 THEN "success" ELSE "aborted"

\* The blocks the bootloader holds; where line errors happened, up to the bits
\* that no checksum protects.
Received ==
    [n \in DOMAIN flash |->
        IF noise > 0 /\ SameTail(flash[n], Block(image, n)) THEN Block(image, n) ELSE flash[n]]

Transfer == INSTANCE ImageTransfer
                WITH payload <- Blocks(image), delivered <- Received, status <- Status

\* A download delivers the padded blocks of the image once each and in order,
\* whatever write() takes and however often a block is sent again; and reports
\* success only for the whole image.
ImplementsTransfer == Transfer!Spec
=============================================================================
