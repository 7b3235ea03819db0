--------------------------- MODULE ImageTransfer ----------------------------
(***************************************************************************)
(* What a download promises, whatever the protocol: the blocks of the      *)
(* payload reach the device once each and in order; success is reported    *)
(* only when all of them are there, and a download that is given up has    *)
(* left the device untouched.                                              *)
(***************************************************************************)
EXTENDS Naturals, Sequences

VARIABLES
    payload,    \* the blocks to deliver; never changes
    delivered,  \* the blocks the device holds
    status      \* "running", "success" or "aborted"

vars == <<payload, delivered, status>>

Init == delivered = <<>> /\ status = "running"

Deliver ==
    /\ status = "running"
    /\ Len(delivered) < Len(payload)
    /\ delivered' = Append(delivered, payload[Len(delivered) + 1])
    /\ UNCHANGED <<payload, status>>

Succeed ==
    /\ status = "running"
    /\ delivered = payload
    /\ status' = "success"
    /\ UNCHANGED <<payload, delivered>>

Abort ==
    /\ status = "running"
    /\ delivered = <<>>
    /\ status' = "aborted"
    /\ UNCHANGED <<payload, delivered>>

Next == Deliver \/ Succeed \/ Abort

Spec == Init /\ [][Next]_vars
=============================================================================
