-------------------------- MODULE MCSerialDownload --------------------------
(* Instances of SerialDownload for TLC: blocks of 9 bytes, one more than   *)
(* the checksum remembers.                                                 *)
EXTENDS SerialDownload

\* A byte that differs from its neighbours and from FILLER.
MCByte(i) == {b \in Bits : (i \div (b + 1)) % 2 = 1}

MCImage(size) == [i \in 1..size |-> MCByte(i)]

\* A short file, and one with two full blocks and a remainder.
MCImages == {MCImage(n) : n \in {0, 3, 20}}

\* An empty file, and one full block and a remainder.
MCNoisyImages == {MCImage(0), MCImage(13)}

\* A file of exactly two blocks.
MCWholeImages == {MCImage(18)}
=============================================================================
