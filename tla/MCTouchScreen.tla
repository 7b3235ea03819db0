--------------------------- MODULE MCTouchScreen ----------------------------
(* Instances of TouchScreen for TLC: two processes that open the device.   *)
EXTENDS TouchScreen, TLC

CONSTANTS u1, u2

MCUsers == {u1, u2}
Symmetry == Permutations(MCUsers)
=============================================================================
