-------------------------------- MODULE Lease --------------------------------
(***************************************************************************)
(* What a coordinator promises of one lease (internal/coord/coord.go):     *)
(* a process takes it only while no live term has it, each term's token is *)
(* larger than those of the terms before it, and a term ends by itself or  *)
(* by being resigned.                                                      *)
(*                                                                         *)
(* "A holder that stalls past the lease duration can overlap its           *)
(* successor" (Term.Token): Stallers are the processes that may stall.     *)
(* The promise to the others does not depend on them, and a staller's term *)
(* is told from its successor's by its token.                              *)
(***************************************************************************)
EXTENDS Integers

CONSTANTS Procs,    \* processes
          Stallers  \* those that may stop running for a while

VARIABLES term,  \* process -> the token of its live term, 0 for none
          used   \* the tokens of every term so far

lvars == <<term, used>>

Init == term = [p \in Procs |-> 0] /\ used = {}

\* TryAcquire returns a term with a token never used before.  Nobody else
\* holds the lease, or only a staller does, whose token is then smaller; a
\* staller that is handed a term it has slept through has the smaller token
\* itself.
Acquire(p) ==
    LET token == term'[p]
    IN /\ term[p] = 0
       /\ token \in Nat \ (used \cup {0})
       /\ \A q \in Procs :
            \/ term[q] = 0
            \/ q \in Stallers /\ term[q] < token
            \/ p \in Stallers /\ token < term[q]
       /\ p \in Stallers \/ \A t \in used : t < token
       /\ term' = [term EXCEPT ![p] = token]
       /\ used' = used \cup {token}

\* Done closes: resigned, closed, lost, or the process died.
End(p) ==
    /\ term[p] # 0
    /\ term' = [term EXCEPT ![p] = 0]
    /\ UNCHANGED used

Next == \E p \in Procs : Acquire(p) \/ End(p)

Spec == Init /\ [][Next]_lvars
=============================================================================
