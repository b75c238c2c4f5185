------------------------------ MODULE MCBackoff ------------------------------
(***************************************************************************)
(* Instances of Backoff for TLC: two tenants' loops on one pool.           *)
(***************************************************************************)
EXTENDS Backoff, TLC

CONSTANTS l1, l2, t1, t2, r1, r2

\* Tables of two names, and one name under both tenants.
MCTwoTables == l1 :> t1 @@ l2 :> t2
MCOneTable == l1 :> t1 @@ l2 :> t1

\* A window the first opens may outlast the second's cap.
MCCap == l1 :> 4 @@ l2 :> 2

MCLoopOf == r1 :> l1 @@ r2 :> l2
=============================================================================
