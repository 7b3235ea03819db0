----------------------------- MODULE MCSwitches ------------------------------
(* Instances of Switches for TLC: a switch at the codec and the power      *)
(* switch.                                                                 *)
EXTENDS Switches, TLC

CONSTANTS c1, c2, c3, r1, r2

MCTwoCells   == {c1, c2}
MCCells      == {c1, c2, c3}
MCOneReader  == {r1}
MCTwoReaders == {r1, r2}
=============================================================================
