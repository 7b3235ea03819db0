--------------------------- MODULE MCTouchEvents -----------------------------
(* Instances of TouchEvents for TLC.                                       *)
EXTENDS TouchEvents, TLC

CONSTANTS r1, r2

MCReaders == {r1, r2}

\* One reader with a buffer that may be paged out; two with buffers that are not.
MCUsages == {[users |-> {r1}, faults |-> TRUE], [users |-> {r1, r2}, faults |-> FALSE]}
MCAlone  == {[users |-> {r1}, faults |-> FALSE]}
=============================================================================
