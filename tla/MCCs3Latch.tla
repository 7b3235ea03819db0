----------------------------- MODULE MCCs3Latch -----------------------------
(* Instances of Cs3Latch for TLC.                                          *)
EXTENDS Cs3Latch

\* Everything off; and 5 V at the socket with the LED off.
MCProcValues == {{}, {"VCC_5V_EN", "EN0", "RS232_ON"}}
=============================================================================
