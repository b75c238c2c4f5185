------------------------------ MODULE MCKVLease ------------------------------
(* KVLease for TLC: two processes, one of which may stall.                 *)
EXTENDS KVLease

CONSTANTS p1, p2

MCProcs == {p1, p2}
MCStallers == {p2}
MCRestarts == [p \in MCProcs |-> IF p = p1 THEN 1 ELSE 0]
=============================================================================
