---------------------------- MODULE MCShardClaims ----------------------------
(* ShardClaims for TLC: two processes over two units, which both score      *)
(* higher for the first slot, so that the even share decides, and one unit  *)
(* outside the configuration.                                               *)
EXTENDS ShardClaims, TLC

CONSTANTS p1, p2, u1, u2, x1

MCProcs == {p1, p2}
MCConfigured == {u1, u2}
MCExtras == {x1}
MCScore == [u \in {u1, u2, x1} |-> CASE u = u1 -> <<4, 1>> [] u = u2 -> <<3, 2>> [] OTHER -> <<5, 6>>]
MCRows == {1, 2}
MCUnitOf == [r \in {1, 2} |-> u2]
Alike == Permutations(MCProcs)
=============================================================================
