--------------------------- MODULE MCSocketServices --------------------------
(* Instances of SocketServices for TLC.                                    *)
EXTENDS SocketServices

CONSTANTS u1, u2

MCOneUser  == {u1}
MCTwoUsers == {u1, u2}
=============================================================================
