-------------------------- MODULE ShardClaimsProofs --------------------------
(***************************************************************************)
(* Proofs about ShardClaims, for every set of processes, units, rows and   *)
(* scores, any orphanWait and any number of faults:                        *)
(*   - TypeCorrect: the type invariant;                                    *)
(*   - RowsStay: a row in a process's hands is nobody else's, and comes    *)
(*     back to it only through a reset sent before it was delivered;       *)
(*   - OneWriterOnly: no two processes have unsettled rows of one unit;    *)
(*   - MembersAgree: once every process has ticked since the members last  *)
(*     changed, each unit is consumed by one of them, and none has more    *)
(*     of the configured ones than an even share, rounded up.              *)
(* The first three leave open what assignUnits computes: they hold what-   *)
(* ever the processes believe they own, so they cover disagreeing views of *)
(* the members.  MembersAgree needs what it computes (AssignUnitsIs), and  *)
(* its cardinalities are counted over finite sets, by a smallest           *)
(* counterexample among the subsets of one, never by induction.            *)
(***************************************************************************)
EXTENDS ShardClaims, TLAPS, FiniteSetTheorems

ClaimRecs == [loop : Loops, slot : {0} \cup Slots, lost : BOOLEAN, live : SUBSET Slots,
              prev : {Never} \cup SUBSET Slots, ticked : {0} \cup Slots,
              todo : SUBSET Units, asking : SUBSET Units, owned : SUBSET Units, draining : SUBSET Units, unpinning : SUBSET Units,
              orphaned : [Units -> 0..(OrphanTicks + 1)]]

-----------------------------------------------------------------------------
(* Type correctness.                                                       *)

\* The lowest of some free slots is one of them.
LEMMA LowestSlot ==
    ASSUME NEW S, S \subseteq Slots, S # {}
    PROVE  (CHOOSE k \in S : \A l \in S : k <= l) \in S
<1>0. S \subseteq Nat
  BY DEF Slots
<1> DEFINE R == OpToRel(<, Nat)
<1>1. \E x \in S : \A y \in S : ~ (<<y, x>> \in R)
  <2>1. IsWellFoundedOn(R, Nat)
    BY NatLessThanWellFounded
  <2> HIDE DEF R
  <2> QED BY <1>0, <2>1, WFMin
<1>2. PICK x \in S : \A y \in S : ~ (<<y, x>> \in R)
  BY <1>1
<1>3. \A y \in S : ~(y < x)
  BY <1>0, <1>2 DEF OpToRel
<1>4. \A y \in S : x <= y
  BY <1>0, <1>3
<1> QED BY <1>4

\* A claimLoop not started.
LEMMA FreshType == Fresh \in ClaimRecs /\ \A l \in Loops : [Fresh EXCEPT !.loop = l] \in ClaimRecs
<1>1. OrphanTicks \in Nat
  BY ClaimsAssumption
<1>2. [u \in Units |-> 0] \in [Units -> 0..(OrphanTicks + 1)]
  BY <1>1
<1> HIDE DEF Units, Slots
<1> QED BY <1>2 DEF Fresh, ClaimRecs, Loops, Never

\* Initial states are well typed.
LEMMA TypeInit == Init => TypeOK
<1> SUFFICES ASSUME Init PROVE TypeOK
  OBVIOUS
<1>1. proc \in [Procs -> ClaimRecs]
  BY FreshType DEF Init, Loops
<1>2. faults \in 0..MaxFaults
  BY ClaimsAssumption DEF Init
<1> QED BY <1>1, <1>2 DEF Init, TypeOK, ClaimRecs

\* What each step of a claimLoop makes of it is a claimLoop.
LEMMA JoinType ==
    ASSUME TypeOK, NEW p \in Procs, Join(p) \/ JoinFails(p)
    PROVE  /\ proc' \in [Procs -> ClaimRecs]
           /\ entry' \in [Slots -> {"free", "live", "stale"}] /\ fresh' \in [Slots -> SUBSET Procs]
<1> DEFINE open == OpenSlots(p)
           j == CHOOSE k \in open : \A l \in open : k <= l
<1>1. open \subseteq Slots
  BY DEF OpenSlots
<1>2. open # {} => j \in Slots
  BY <1>1, LowestSlot
<1>3. proc \in [Procs -> ClaimRecs] /\ proc[p] \in ClaimRecs
      /\ entry \in [Slots -> {"free", "live", "stale"}] /\ fresh \in [Slots -> SUBSET Procs]
  BY DEF TypeOK, ClaimRecs
<1> HIDE DEF j, open, Slots, Units
<1>4. CASE proc' = [proc EXCEPT ![p] = [proc[p] EXCEPT !.loop = "reading"]]
           /\ UNCHANGED <<entry, fresh>>
  BY <1>3, <1>4 DEF ClaimRecs, Loops
<1>5. CASE /\ open # {}
           /\ proc' = [proc EXCEPT ![p] = [proc[p] EXCEPT !.loop = "reading", !.slot = j, !.lost = FALSE]]
           /\ entry' = [entry EXCEPT ![j] = "live"] /\ fresh' = [fresh EXCEPT ![j] = {}]
  <2>1. [proc[p] EXCEPT !.loop = "reading", !.slot = j, !.lost = FALSE] \in ClaimRecs
    BY <1>2, <1>3, <1>5 DEF ClaimRecs, Loops
  <2> QED BY <1>2, <1>3, <1>5, <2>1
<1>6. CASE /\ proc' = [proc EXCEPT ![p] = [proc[p] EXCEPT !.loop = "reading", !.slot = 0, !.lost = FALSE]]
           /\ \/ UNCHANGED <<entry, fresh>>
              \/ /\ open # {}
                 /\ entry' = [entry EXCEPT ![j] = "stale"] /\ fresh' = [fresh EXCEPT ![j] = Procs \ {p}]
  <2>1. [proc[p] EXCEPT !.loop = "reading", !.slot = 0, !.lost = FALSE] \in ClaimRecs
    BY <1>3 DEF ClaimRecs, Loops
  <2> QED BY <1>2, <1>3, <1>6, <2>1
<1> QED BY <1>4, <1>5, <1>6 DEF Join, JoinFails, Set, open, j

\* Reading the members and giving units up leaves a claimLoop.
LEMMA ReadMembersType ==
    ASSUME TypeOK, NEW p \in Procs, ReadMembers(p)
    PROVE  proc' \in [Procs -> ClaimRecs]
<1> DEFINE c == proc[p]
           live == LiveSlots(p)
           targets == Targets(c.slot, live)
           rest == GivenUp(c, targets)
<1>1. proc \in [Procs -> ClaimRecs] /\ c \in ClaimRecs
  BY DEF TypeOK, ClaimRecs
<1>2. live \subseteq Slots /\ targets \subseteq Units
  BY DEF LiveSlots, Targets
<1>3. proc' = [proc EXCEPT ![p] = [rest EXCEPT !.loop = "taking", !.live = live, !.ticked = c.slot,
                                       !.todo = targets \ (c.owned \cup c.draining \cup c.unpinning)]]
  BY DEF ReadMembers, Set
<1>4. rest \in ClaimRecs
  <2>1. 0 \in 0..(OrphanTicks + 1)
    BY ClaimsAssumption
  <2> HIDE DEF c, live, targets, Slots, Units
  <2>2. rest = [c EXCEPT !.owned = c.owned \cap targets,
                         !.draining = c.draining \cup (c.owned \ targets),
                         !.orphaned = [u \in Units |-> IF u \in targets THEN c.orphaned[u] ELSE 0]]
    BY DEF GivenUp
  <2>3. [u \in Units |-> IF u \in targets THEN c.orphaned[u] ELSE 0] \in [Units -> 0..(OrphanTicks + 1)]
    BY <1>1, <2>1 DEF ClaimRecs
  <2> QED BY <1>1, <1>2, <2>2, <2>3 DEF ClaimRecs
<1> HIDE DEF c, live, targets, rest, Slots, Units
<1>5. [rest EXCEPT !.loop = "taking", !.live = live, !.ticked = c.slot,
                   !.todo = targets \ (c.owned \cup c.draining \cup c.unpinning)] \in ClaimRecs
  <2>1. c.slot \in {0} \cup Slots
    BY <1>1 DEF ClaimRecs
  <2> QED BY <1>2, <1>4, <2>1 DEF ClaimRecs, Loops
<1> QED BY <1>1, <1>3, <1>5

\* How long a unit has waited for its reset is bounded by orphanWait.
LEMMA WaitedType ==
    ASSUME TypeOK, NEW p \in Procs, NEW u \in Units
    PROVE  Waited(proc[p], u) \in 0..(OrphanTicks + 1)
<1>1. proc[p].orphaned[u] \in 0..(OrphanTicks + 1)
  BY DEF TypeOK
<1> QED BY <1>1, ClaimsAssumption DEF Waited

\* Binding a unit leaves a claimLoop.
LEMMA OpenedType ==
    ASSUME TypeOK, NEW p \in Procs, NEW u \in Units
    PROVE  Opened(proc[p], u) \in ClaimRecs
<1>1. proc[p] \in ClaimRecs
  BY DEF TypeOK, ClaimRecs
<1>2. 0 \in 0..(OrphanTicks + 1)
  BY ClaimsAssumption
<1> HIDE DEF Units, Slots
<1> QED BY <1>1, <1>2 DEF Opened, ClaimRecs

\* Taking a unit, failing to, or resetting it leaves a claimLoop.
LEMMA TakeType ==
    ASSUME TypeOK, NEW p \in Procs, NEW u \in Units,
           Take(p, u) \/ ResetLands(p, u) \/ ResetFails(p, u) \/ BindFails(p, u)
    PROVE  proc' \in [Procs -> ClaimRecs]
<1> DEFINE c == proc[p]
           waited == Waited(c, u)
<1>1. proc \in [Procs -> ClaimRecs] /\ c \in ClaimRecs
  BY DEF TypeOK, ClaimRecs
<1>2. \/ proc' = [proc EXCEPT ![p] = Opened(c, u)]
      \/ /\ waited \in 1..OrphanTicks
         /\ proc' = [proc EXCEPT ![p] = [c EXCEPT !.todo = @ \ {u}, !.orphaned[u] = waited + 1]]
      \/ proc' = [proc EXCEPT ![p] = [c EXCEPT !.asking = {u}, !.orphaned[u] = waited]]
      \/ proc' = [proc EXCEPT ![p] = [c EXCEPT !.todo = @ \ {u}, !.orphaned[u] = 0]]
      \/ proc' = proc
  BY DEF Take, ResetLands, ResetFails, BindFails, Set, KeepWaiting
<1>3. Opened(c, u) \in ClaimRecs
  BY OpenedType
<1>4. OrphanTicks \in Nat
  BY ClaimsAssumption
<1>5. waited \in 0..(OrphanTicks + 1)
  BY WaitedType
<1> HIDE DEF c, waited, Units, Slots
<1>6. \A n \in 0..(OrphanTicks + 1) :
          /\ [c EXCEPT !.todo = @ \ {u}, !.orphaned[u] = n] \in ClaimRecs
          /\ [c EXCEPT !.asking = {u}, !.orphaned[u] = n] \in ClaimRecs
  BY <1>1 DEF ClaimRecs
<1>7. waited \in 1..OrphanTicks => waited + 1 \in 0..(OrphanTicks + 1)
  BY <1>4
<1>8. 0 \in 0..(OrphanTicks + 1)
  BY <1>4
<1> QED BY <1>1, <1>2, <1>3, <1>5, <1>6, <1>7, <1>8

\* The steps that change one claimLoop and, at most, its membership lease.
LEMMA LoopType ==
    ASSUME TypeOK, NEW p \in Procs,
           \/ LoseMember(p) \/ ReadFails(p) \/ EndTick(p) \/ Halt(p) \/ Stop(p) \/ Stopped(p)
           \/ Crash(p) \/ Start(p) \/ \E u \in Units : Release(p, u) \/ Unpin(p, u)
    PROVE  /\ proc' \in [Procs -> ClaimRecs]
           /\ entry' \in [Slots -> {"free", "live", "stale"}] /\ fresh' \in [Slots -> SUBSET Procs]
<1>1. /\ proc \in [Procs -> ClaimRecs] /\ proc[p] \in ClaimRecs
      /\ proc[p].slot # 0 => proc[p].slot \in Slots
      /\ entry \in [Slots -> {"free", "live", "stale"}] /\ fresh \in [Slots -> SUBSET Procs]
  BY DEF TypeOK, ClaimRecs
<1> HIDE DEF Slots, Units
<1>2. CASE LoseMember(p)
  <2>1. [proc[p] EXCEPT !.lost = TRUE] \in ClaimRecs
    BY <1>1 DEF ClaimRecs
  <2> QED BY <1>1, <1>2, <2>1 DEF LoseMember, Set
<1>3. CASE ReadFails(p)
  <2>1. [proc[p] EXCEPT !.loop = "idle"] \in ClaimRecs
    BY <1>1 DEF ClaimRecs, Loops
  <2> QED BY <1>1, <1>3, <2>1 DEF ReadFails, Set
<1>4. CASE EndTick(p)
  <2>1. [proc[p] EXCEPT !.loop = "idle", !.prev = proc[p].live] \in ClaimRecs
    BY <1>1 DEF ClaimRecs, Loops
  <2> QED BY <1>1, <1>4, <2>1 DEF EndTick, Set
<1>5. CASE Halt(p)
  <2>1. [proc[p] EXCEPT !.loop = "halted"] \in ClaimRecs
    BY <1>1 DEF ClaimRecs, Loops
  <2> QED BY <1>1, <1>5, <2>1 DEF Halt, Set
<1>6. CASE Stop(p)
  <2>1. [proc[p] EXCEPT !.loop = "releasing", !.draining = @ \cup proc[p].owned, !.owned = {}] \in ClaimRecs
    BY <1>1 DEF ClaimRecs, Loops
  <2> QED BY <1>1, <1>6, <2>1 DEF Stop, Set
<1>7. CASE Stopped(p)
  <2>1. [Fresh EXCEPT !.loop = "stopped"] \in ClaimRecs
    BY FreshType DEF Loops
  <2>2. proc' = [proc EXCEPT ![p] = [Fresh EXCEPT !.loop = "stopped"]]
    BY <1>7 DEF Stopped, Set
  <2>3. \/ UNCHANGED <<entry, fresh>>
        \/ /\ proc[p].slot # 0 /\ entry' = [entry EXCEPT ![proc[p].slot] = "free"]
           /\ fresh' = [fresh EXCEPT ![proc[p].slot] = {}]
    BY <1>7 DEF Stopped
  <2> QED BY <1>1, <2>1, <2>2, <2>3
<1>8. CASE Crash(p)
  <2>1. [Fresh EXCEPT !.loop = "down"] \in ClaimRecs
    BY FreshType DEF Loops
  <2>2. proc' = [proc EXCEPT ![p] = [Fresh EXCEPT !.loop = "down"]]
    BY <1>8 DEF Crash, Set
  <2>3. \/ UNCHANGED <<entry, fresh>>
        \/ /\ proc[p].slot # 0 /\ entry' = [entry EXCEPT ![proc[p].slot] = "stale"]
           /\ fresh' = [fresh EXCEPT ![proc[p].slot] = Procs]
    BY <1>8 DEF Crash
  <2> QED BY <1>1, <2>1, <2>2, <2>3
<1>9. CASE Start(p)
  <2>1. proc' = [proc EXCEPT ![p] = Fresh] /\ entry' = entry
        /\ fresh' = [j \in Slots |-> IF entry[j] = "stale" THEN fresh[j] \cup {p} ELSE fresh[j]]
    BY <1>9 DEF Start, Set
  <2> QED BY <1>1, <2>1, FreshType
<1>10. CASE \E u \in Units : Release(p, u) \/ Unpin(p, u)
  <2>1. PICK u \in Units : Release(p, u) \/ Unpin(p, u)
    BY <1>10
  <2>2. \A x \in SUBSET Units : \A y \in SUBSET Units :
            [proc[p] EXCEPT !.draining = x, !.unpinning = y] \in ClaimRecs
    BY <1>1 DEF ClaimRecs
  <2>3. \A y \in SUBSET Units : [proc[p] EXCEPT !.unpinning = y] \in ClaimRecs
    BY <1>1 DEF ClaimRecs
  <2>4. /\ proc[p].draining \in SUBSET Units /\ proc[p].unpinning \in SUBSET Units
    BY <1>1 DEF ClaimRecs
  <2>5. CASE Release(p, u)
    <3>1. /\ proc' = [proc EXCEPT ![p] = [proc[p] EXCEPT !.draining = proc[p].draining \ {u},
                        !.unpinning = IF pin[u] = p THEN proc[p].unpinning \cup {u} ELSE proc[p].unpinning]]
          /\ UNCHANGED <<entry, fresh>>
      BY <2>5 DEF Release, Set
    <3>2. /\ proc[p].draining \ {u} \in SUBSET Units
          /\ (IF pin[u] = p THEN proc[p].unpinning \cup {u} ELSE proc[p].unpinning) \in SUBSET Units
      BY <2>4
    <3> QED BY <1>1, <2>2, <3>1, <3>2
  <2>6. CASE Unpin(p, u)
    <3>1. /\ proc' = [proc EXCEPT ![p] = [proc[p] EXCEPT !.unpinning = proc[p].unpinning \ {u}]]
          /\ UNCHANGED <<entry, fresh>>
      BY <2>6 DEF Unpin, Set
    <3>2. proc[p].unpinning \ {u} \in SUBSET Units
      BY <2>4
    <3> QED BY <1>1, <2>3, <3>1, <3>2
  <2> QED BY <2>1, <2>5, <2>6
<1> QED BY <1>2, <1>3, <1>4, <1>5, <1>6, <1>7, <1>8, <1>9, <1>10

\* What the broker keeps of units and rows keeps its types.
LEMMA BrokerType ==
    ASSUME TypeOK, [Next]_vars
    PROVE  /\ pin' \in [Units -> Procs \cup {Nobody}] /\ active' \in [Units -> BOOLEAN]
           /\ status' \in [Rows -> {"ready", "out", "acked"}]
           /\ resets' \subseteq Procs \X Units
           /\ overdue' \subseteq Rows /\ moved' \subseteq Units /\ raced' \subseteq Rows
           /\ hand' \in [Procs -> SUBSET Rows] /\ faults' \in 0..MaxFaults
<1> DEFINE BrokerOK ==
               /\ pin \in [Units -> Procs \cup {Nobody}] /\ active \in [Units -> BOOLEAN]
               /\ status \in [Rows -> {"ready", "out", "acked"}]
               /\ resets \subseteq Procs \X Units
               /\ overdue \subseteq Rows /\ moved \subseteq Units /\ raced \subseteq Rows
               /\ hand \in [Procs -> SUBSET Rows] /\ faults \in 0..MaxFaults
<1>0. BrokerOK /\ MaxFaults \in Nat /\ \A r \in Rows : UnitOf[r] \in Units
  BY ClaimsAssumption DEF TypeOK
<1> SUFFICES BrokerOK'
  OBVIOUS
<1> HIDE DEF Units, Slots
<1>1. ASSUME UNCHANGED <<pin, active, status, resets, overdue, moved, raced, hand>>,
             faults' = faults \/ (faults < MaxFaults /\ faults' = faults + 1)
      PROVE  BrokerOK'
  BY <1>0, <1>1
<1>2. ASSUME NEW p \in Procs, Loop(p) \/ LoseMember(p) \/ JoinFails(p) \/ ReadFails(p) PROVE BrokerOK'
  <2>1. CASE Loop(p) /\ ~ \E u \in Units : Take(p, u)
    BY <1>1, <2>1 DEF Loop, Join, ReadMembers, EndTick, broker
  <2>2. CASE \E u \in Units : Take(p, u)
    BY <1>0, <2>2 DEF Take
  <2>3. CASE LoseMember(p) \/ JoinFails(p) \/ ReadFails(p)
    BY <1>1, <2>3 DEF LoseMember, JoinFails, ReadFails, broker, Fault
  <2> QED BY <1>2, <2>1, <2>2, <2>3
<1>3. ASSUME NEW p \in Procs, Halt(p) \/ Stop(p) \/ Start(p) PROVE BrokerOK'
  BY <1>1, <1>3 DEF Halt, Stop, Start, broker, Fault
<1>4. ASSUME NEW p \in Procs, Stopped(p) \/ Crash(p) PROVE BrokerOK'
  BY <1>0, <1>4 DEF Stopped, Crash, broker, Fault
<1>5. ASSUME NEW p \in Procs, NEW j \in Slots, Expire(p, j) PROVE BrokerOK'
  BY <1>1, <1>5 DEF Expire, broker
<1>6. ASSUME NEW p \in Procs, NEW u \in Units,
             BindFails(p, u) \/ ResetFails(p, u) \/ Release(p, u)
      PROVE  BrokerOK'
  BY <1>1, <1>6 DEF BindFails, ResetFails, Release, broker, Fault
<1>7. ASSUME NEW p \in Procs, NEW u \in Units, Unpin(p, u) \/ ResetLands(p, u) PROVE BrokerOK'
  BY <1>0, <1>7 DEF Unpin, ResetLands
<1>8. ASSUME NEW p \in Procs, NEW r \in Rows, Deliver(p, r) PROVE BrokerOK'
  BY <1>0, <1>8 DEF Deliver
<1>9. ASSUME NEW p \in Procs, NEW r \in Rows, Settle(p, r) \/ Nak(p, r) PROVE BrokerOK'
  <2>1. CASE Settle(p, r)
    <3>1. /\ active' = [active EXCEPT ![UnitOf[r]] = TRUE]
          /\ status' = [status EXCEPT ![r] = "acked"] \/ status' = status
          /\ hand' = [hand EXCEPT ![p] = hand[p] \ {r}]
          /\ UNCHANGED <<pin, resets, overdue, moved, raced, faults>>
      BY <2>1 DEF Settle
    <3> QED BY <1>0, <3>1
  <2>2. CASE Nak(p, r)
    BY <1>0, <2>2 DEF Nak, Fault
  <2> QED BY <1>9, <2>1, <2>2
<1>10. ASSUME NEW r \in Rows, Redeliver(r) \/ TurnOverdue(r) \/ TurnLate(r) PROVE BrokerOK'
  BY <1>0, <1>10 DEF Redeliver, TurnOverdue, TurnLate, Fault
<1>11. ASSUME NEW u \in Units, PinLapses(u) \/ LeaderMoves(u) \/ Quiet(u) PROVE BrokerOK'
  <2>1. CASE PinLapses(u) \/ LeaderMoves(u)
    BY <1>0, <2>1 DEF PinLapses, LeaderMoves, Fault
  <2>2. CASE Quiet(u)
    <3>1. active' = [active EXCEPT ![u] = FALSE]
          /\ UNCHANGED <<pin, status, resets, overdue, moved, raced, hand, faults>>
      BY <2>2 DEF Quiet
    <3> QED BY <1>0, <3>1
  <2> QED BY <1>11, <2>1, <2>2
<1>12. ASSUME UNCHANGED vars PROVE BrokerOK'
  BY <1>1, <1>12 DEF vars, broker
<1> HIDE DEF BrokerOK
<1> QED BY <1>2, <1>3, <1>4, <1>5, <1>6, <1>7, <1>8, <1>9, <1>10, <1>11, <1>12 DEF Next

\* Every step keeps the types.
LEMMA TypeNext == TypeOK /\ [Next]_vars => TypeOK'
<1> SUFFICES ASSUME TypeOK, [Next]_vars PROVE TypeOK'
  OBVIOUS
<1> DEFINE LoopsOK == /\ proc \in [Procs -> ClaimRecs]
                      /\ entry \in [Slots -> {"free", "live", "stale"}]
                      /\ fresh \in [Slots -> SUBSET Procs]
<1>0. LoopsOK
  BY DEF TypeOK, ClaimRecs
<1>1. LoopsOK'
  <2>1. ASSUME NEW p \in Procs, Loop(p) PROVE LoopsOK'
    <3>1. CASE Join(p)
      BY <3>1, JoinType
    <3>2. CASE ReadMembers(p)
      BY <1>0, <3>2, ReadMembersType DEF ReadMembers
    <3>3. CASE EndTick(p)
      BY <3>3, LoopType
    <3>4. ASSUME NEW u \in Units, Take(p, u) PROVE LoopsOK'
      BY <1>0, <3>4, TakeType DEF Take
    <3> QED BY <2>1, <3>1, <3>2, <3>3, <3>4 DEF Loop
  <2>2. ASSUME NEW p \in Procs,
               \/ LoseMember(p) \/ JoinFails(p) \/ ReadFails(p) \/ Halt(p) \/ Stop(p) \/ Stopped(p)
               \/ Crash(p) \/ Start(p)
        PROVE  LoopsOK'
    BY <2>2, LoopType, JoinType
  <2>3. ASSUME NEW p \in Procs, NEW j \in Slots, Expire(p, j) PROVE LoopsOK'
    BY <1>0, <2>3 DEF Expire
  <2>4. ASSUME NEW p \in Procs, NEW u \in Units, BindFails(p, u) \/ ResetLands(p, u) \/ ResetFails(p, u)
        PROVE  LoopsOK'
    BY <1>0, <2>4, TakeType DEF BindFails, ResetLands, ResetFails
  <2>5. ASSUME NEW p \in Procs, NEW u \in Units, Release(p, u) \/ Unpin(p, u) PROVE LoopsOK'
    BY <2>5, LoopType
  <2>6. ASSUME UNCHANGED <<proc, entry, fresh>> PROVE LoopsOK'
    BY <1>0, <2>6
  <2>7. ASSUME NEW p \in Procs, NEW r \in Rows, Deliver(p, r) \/ Settle(p, r) \/ Nak(p, r)
        PROVE  LoopsOK'
    BY <2>6, <2>7 DEF Deliver, Settle, Nak
  <2>8. ASSUME NEW r \in Rows, Redeliver(r) \/ TurnOverdue(r) \/ TurnLate(r) PROVE LoopsOK'
    BY <2>6, <2>8 DEF Redeliver, TurnOverdue, TurnLate
  <2>9. ASSUME NEW u \in Units, PinLapses(u) \/ LeaderMoves(u) \/ Quiet(u) PROVE LoopsOK'
    BY <2>6, <2>9 DEF PinLapses, LeaderMoves, Quiet
  <2>10. ASSUME UNCHANGED vars PROVE LoopsOK'
    BY <2>6, <2>10 DEF vars
  <2> HIDE DEF LoopsOK
  <2> QED BY <2>1, <2>2, <2>3, <2>4, <2>5, <2>7, <2>8, <2>9, <2>10 DEF Next
<1> QED BY <1>1, BrokerType DEF TypeOK, ClaimRecs

\* Type correctness: the leases, every process's claimLoop and the broker's
\* pins and rows keep their types.
THEOREM TypeCorrect == Spec => []TypeOK
BY TypeInit, TypeNext, PTL DEF Spec

-----------------------------------------------------------------------------
(* Whose a row is.  RowsStayMine is not inductive: that the broker gives a *)
(* row to one process is because the unit's pin is that process's, and the *)
(* pin stays because the unit is claimed until its rows have settled, and  *)
(* a release unpins only what its own process had pinned.                  *)

\* A row in hand belongs to a unit still claimed, and not yet let go.
ClaimedInv ==
    \A p \in Procs : \A r \in hand[p] \ overdue : UnitOf[r] \in proc[p].owned \cup proc[p].draining

\* ... whose pin the process has.
PinnedInv ==
    \A p \in Procs : \A r \in hand[p] \ overdue : UnitOf[r] \notin moved =>
        pin[UnitOf[r]] = p /\ (status[r] = "out" \/ r \in raced)

\* A unit is in one stage of its claim, and only a tick that is to take it
\* waits for its reset.
Apart(c) ==
    /\ c.asking \subseteq c.todo /\ (c.asking # {} => c.loop = "taking")
    /\ c.owned \cap (c.draining \cup c.unpinning) = {}
    /\ c.draining \cap c.unpinning = {}
    /\ c.todo \cap (c.owned \cup c.draining \cup c.unpinning) = {}

ApartInv == \A p \in Procs : Apart(proc[p])

\* A release that has asked who has the pin, and has not yet unpinned.
UnpinInv ==
    \A p \in Procs : \A u \in proc[p].unpinning :
        /\ u \notin moved => pin[u] = p
        /\ hand[p] \cap RowsOf(u) \subseteq overdue

\* While a reset is on its way, the rows of its unit that are in someone's
\* hands were delivered after the check that let it go.
RaceInv ==
    \A p \in Procs, u \in Units : <<p, u>> \in resets /\ u \notin moved =>
        \A q \in Procs : hand[q] \cap RowsOf(u) \subseteq overdue \cup raced

\* A process that is not running claims nothing.
DownInv == \A p \in Procs : ~Up(p) => proc[p].owned \cup proc[p].draining = {}

PinInv == ClaimedInv /\ PinnedInv /\ ApartInv /\ UnpinInv /\ RaceInv /\ DownInv

\* Nobody claims or holds anything initially.
LEMMA PinInit == Init => PinInv
<1> SUFFICES ASSUME Init PROVE PinInv
  OBVIOUS
<1>1. \A p \in Procs : /\ hand[p] = {} /\ proc[p].owned = {} /\ proc[p].draining = {}
                       /\ proc[p].unpinning = {} /\ proc[p].todo = {} /\ proc[p].asking = {}
  BY DEF Init, Fresh
<1>2. resets = {}
  BY DEF Init
<1> QED BY <1>1, <1>2 DEF PinInv, ClaimedInv, PinnedInv, ApartInv, Apart, UnpinInv, RaceInv, DownInv

\* Steps of one process that leave the broker alone: what it claims it still
\* claims or drains, and it begins no unpin.
LEMMA LoopFrame ==
    ASSUME TypeOK, PinInv, NEW p \in Procs, UNCHANGED <<pin, status, resets, overdue, moved, raced, hand>>,
           \A q \in Procs \ {p} : proc'[q] = proc[q],
           Apart(proc'[p]),
           \A u \in proc[p].owned \cup proc[p].draining : u \in proc'[p].owned \cup proc'[p].draining,
           \A u \in proc'[p].unpinning : u \in proc[p].unpinning,
           proc'[p].loop \notin {"stopped", "down"}
    PROVE  PinInv'
<1>1. ClaimedInv'
  BY DEF PinInv, ClaimedInv
<1>2. PinnedInv'
  BY DEF PinInv, PinnedInv
<1>3. ApartInv'
  BY DEF PinInv, ApartInv, Apart
<1>4. UnpinInv'
  <2>1. \A q \in Procs : \A u \in proc'[q].unpinning : u \in proc[q].unpinning
    OBVIOUS
  <2> QED BY <2>1 DEF PinInv, UnpinInv, RowsOf
<1>5. DownInv'
  BY DEF PinInv, DownInv, Up
<1>6. RaceInv'
  BY DEF PinInv, RaceInv, RowsOf
<1> QED BY <1>1, <1>2, <1>3, <1>4, <1>5, <1>6 DEF PinInv

\* A process's claimLoop is a record of its fields.
LEMMA ProcIs ==
    ASSUME TypeOK, NEW p \in Procs
    PROVE  proc[p] \in ClaimRecs
BY DEF TypeOK, ClaimRecs

\* Joining, losing the membership, and the ends of a tick change no claim.
LEMMA TickPin ==
    ASSUME TypeOK, PinInv, NEW p \in Procs,
           Join(p) \/ JoinFails(p) \/ LoseMember(p) \/ ReadFails(p) \/ EndTick(p) \/ Halt(p)
    PROVE  PinInv'
<1>1. UNCHANGED <<pin, status, resets, overdue, moved, raced, hand>>
  BY DEF Join, JoinFails, LoseMember, ReadFails, EndTick, Halt, broker
<1>2. /\ \A q \in Procs \ {p} : proc'[q] = proc[q]
      /\ proc'[p].owned = proc[p].owned /\ proc'[p].draining = proc[p].draining
      /\ proc'[p].unpinning = proc[p].unpinning /\ proc'[p].todo = proc[p].todo
      /\ proc'[p].asking = proc[p].asking /\ proc'[p].loop \notin {"stopped", "down"}
      /\ proc'[p].loop = proc[p].loop \/ proc[p].loop # "taking" \/ proc[p].todo = {}
  <2>1. proc[p] \in ClaimRecs /\ proc \in [Procs -> ClaimRecs]
    BY ProcIs DEF TypeOK, ClaimRecs
  <2> HIDE DEF Slots, Units
  <2>2. CASE Join(p) \/ JoinFails(p)
    <3> DEFINE open == OpenSlots(p)
               j == CHOOSE k \in open : \A l \in open : k <= l
    <3> HIDE DEF j, open
    <3>0. proc[p].loop = "idle"
      BY <2>2 DEF Join, JoinFails
    <3>1. CASE proc' = [proc EXCEPT ![p] = [proc[p] EXCEPT !.loop = "reading"]]
      BY <2>1, <3>0, <3>1 DEF ClaimRecs
    <3>2. CASE proc' = [proc EXCEPT ![p] = [proc[p] EXCEPT !.loop = "reading", !.slot = j, !.lost = FALSE]]
      BY <2>1, <3>0, <3>2 DEF ClaimRecs
    <3>3. CASE proc' = [proc EXCEPT ![p] = [proc[p] EXCEPT !.loop = "reading", !.slot = 0, !.lost = FALSE]]
      BY <2>1, <3>0, <3>3 DEF ClaimRecs
    <3> QED BY <2>2, <3>1, <3>2, <3>3 DEF Join, JoinFails, Set, open, j
  <2>3. CASE LoseMember(p)
    <3>1. proc' = [proc EXCEPT ![p] = [proc[p] EXCEPT !.lost = TRUE]] /\ Up(p)
      BY <2>3 DEF LoseMember, Set
    <3> QED BY <2>1, <3>1 DEF ClaimRecs, Up
  <2>4. CASE ReadFails(p)
    BY <2>1, <2>4 DEF ReadFails, Set, ClaimRecs
  <2>5. CASE EndTick(p)
    BY <2>1, <2>5 DEF EndTick, Set, ClaimRecs
  <2>6. CASE Halt(p)
    BY <2>1, <2>6 DEF Halt, Set, ClaimRecs
  <2> QED BY <2>2, <2>3, <2>4, <2>5, <2>6
<1>3. Apart(proc'[p])
  <2>1. Apart(proc[p])
    BY DEF PinInv, ApartInv
  <2>2. proc'[p].asking # {} => proc'[p].loop = "taking"
    BY <1>2, <2>1 DEF Apart
  <2> QED BY <1>2, <2>1, <2>2 DEF Apart
<1> QED BY <1>1, <1>2, <1>3, LoopFrame

\* giveUp only moves units from owned to draining.
LEMMA ReadMembersPin ==
    ASSUME TypeOK, PinInv, NEW p \in Procs, ReadMembers(p)
    PROVE  PinInv'
<1> DEFINE c == proc[p]
           targets == Targets(c.slot, LiveSlots(p))
<1>1. UNCHANGED <<pin, status, resets, overdue, moved, raced, hand>>
  BY DEF ReadMembers, broker
<1>2. /\ \A q \in Procs \ {p} : proc'[q] = proc[q]
      /\ proc'[p].owned = c.owned \cap targets
      /\ proc'[p].draining = c.draining \cup (c.owned \ targets)
      /\ proc'[p].unpinning = c.unpinning /\ proc'[p].asking = c.asking
      /\ proc'[p].todo = targets \ (c.owned \cup c.draining \cup c.unpinning)
      /\ proc'[p].loop = "taking"
  <2>1. c \in ClaimRecs /\ proc \in [Procs -> ClaimRecs]
    BY ProcIs DEF TypeOK, ClaimRecs
  <2>2. PICK live, slot, orphaned, todo :
            /\ proc' = [proc EXCEPT ![p] =
                   [[c EXCEPT !.owned = c.owned \cap targets,
                              !.draining = c.draining \cup (c.owned \ targets),
                              !.orphaned = orphaned]
                       EXCEPT !.loop = "taking", !.live = live, !.ticked = slot, !.todo = todo]]
            /\ todo = targets \ (c.owned \cup c.draining \cup c.unpinning)
    BY DEF ReadMembers, GivenUp, Set
  <2> HIDE DEF Slots, Units, targets, c
  <2> QED BY <2>1, <2>2 DEF ClaimRecs, c
<1> HIDE DEF targets
<1>3. Apart(proc'[p])
  <2>1. Apart(c) /\ c.loop = "reading"
    BY DEF PinInv, ApartInv, ReadMembers
  <2>2. c.asking = {}
    BY <2>1 DEF Apart
  <2> QED BY <1>2, <2>1, <2>2 DEF Apart
<1>4. \A u \in c.owned \cup c.draining : u \in proc'[p].owned \cup proc'[p].draining
  BY <1>2
<1> QED BY <1>1, <1>2, <1>3, <1>4, LoopFrame

\* What taking a unit, failing to, or resetting it does to the claims: none of
\* them changes, or the process begins to wait for the reset, or the unit,
\* which it was to take, is taken or left.
LEMMA TakeFacts ==
    ASSUME TypeOK, PinInv, NEW p \in Procs, NEW u \in Units,
           Take(p, u) \/ ResetLands(p, u) \/ ResetFails(p, u) \/ BindFails(p, u)
    PROVE  /\ \A q \in Procs \ {p} : proc'[q] = proc[q]
           /\ \/ proc'[p] = proc[p]
              \/ /\ u \in proc[p].todo /\ proc[p].loop = "taking"
                 /\ proc'[p].loop = "taking"
                 /\ proc'[p].draining = proc[p].draining /\ proc'[p].unpinning = proc[p].unpinning
                 /\ \/ /\ proc'[p].owned = proc[p].owned /\ proc'[p].todo = proc[p].todo
                       /\ proc'[p].asking = {u}
                    \/ /\ proc'[p].owned \in {proc[p].owned, proc[p].owned \cup {u}}
                       /\ proc'[p].todo = proc[p].todo \ {u} /\ proc'[p].asking = {}
           /\ UNCHANGED <<pin, overdue, moved, raced, hand>>
<1>1. /\ UNCHANGED <<pin, overdue, moved, raced, hand>>
      /\ \/ Set(p, Opened(proc[p], u))
         \/ Set(p, [proc[p] EXCEPT !.asking = {u}, !.orphaned[u] = Waited(proc[p], u)])
         \/ /\ proc[p].asking = {}
            /\ \/ Set(p, [proc[p] EXCEPT !.todo = @ \ {u}, !.orphaned[u] = Waited(proc[p], u) + 1])
               \/ Set(p, [proc[p] EXCEPT !.todo = @ \ {u}, !.orphaned[u] = 0])
         \/ proc' = proc
  BY DEF Take, ResetLands, ResetFails, BindFails, broker
<1>2. proc[p] \in ClaimRecs /\ Apart(proc[p])
  BY ProcIs DEF PinInv, ApartInv
<1>3. proc' = proc \/ (u \in proc[p].todo /\ proc[p].loop = "taking")
  BY <1>2 DEF Take, ResetLands, ResetFails, BindFails, Apart
<1>4. CASE Set(p, Opened(proc[p], u))
  <2>1. proc'[p] = Opened(proc[p], u) /\ \A q \in Procs \ {p} : proc'[q] = proc[q]
    BY <1>4 DEF Set, TypeOK
  <2>2. /\ proc'[p].owned = proc[p].owned \cup {u} /\ proc'[p].todo = proc[p].todo \ {u}
        /\ proc'[p].asking = {} /\ proc'[p].loop = proc[p].loop
        /\ proc'[p].draining = proc[p].draining /\ proc'[p].unpinning = proc[p].unpinning
    BY <1>2, <2>1 DEF Opened, ClaimRecs
  <2> QED BY <1>1, <1>3, <2>1, <2>2
<1>5. CASE Set(p, [proc[p] EXCEPT !.asking = {u}, !.orphaned[u] = Waited(proc[p], u)])
  <2>1. /\ proc'[p] = [proc[p] EXCEPT !.asking = {u}, !.orphaned[u] = Waited(proc[p], u)]
        /\ \A q \in Procs \ {p} : proc'[q] = proc[q]
    BY <1>5 DEF Set, TypeOK
  <2>2. /\ proc'[p].owned = proc[p].owned /\ proc'[p].todo = proc[p].todo
        /\ proc'[p].asking = {u} /\ proc'[p].loop = proc[p].loop
        /\ proc'[p].draining = proc[p].draining /\ proc'[p].unpinning = proc[p].unpinning
    BY <1>2, <2>1 DEF ClaimRecs
  <2> QED BY <1>1, <1>3, <2>1, <2>2
<1>6. ASSUME NEW n, proc[p].asking = {}, Set(p, [proc[p] EXCEPT !.todo = @ \ {u}, !.orphaned[u] = n])
      PROVE  /\ \A q \in Procs \ {p} : proc'[q] = proc[q]
             /\ proc'[p].owned = proc[p].owned /\ proc'[p].todo = proc[p].todo \ {u}
             /\ proc'[p].asking = {} /\ proc'[p].loop = proc[p].loop
             /\ proc'[p].draining = proc[p].draining /\ proc'[p].unpinning = proc[p].unpinning
  <2>1. /\ proc'[p] = [proc[p] EXCEPT !.todo = @ \ {u}, !.orphaned[u] = n]
        /\ \A q \in Procs \ {p} : proc'[q] = proc[q]
    BY <1>6 DEF Set, TypeOK
  <2> QED BY <1>2, <1>6, <2>1 DEF ClaimRecs
<1>7. CASE proc' = proc
  BY <1>1, <1>7
<1> QED BY <1>1, <1>3, <1>4, <1>5, <1>6, <1>7

\* A reset is sent of a unit nobody has pinned, so with no row in hand, and
\* brings back what was delivered since.
LEMMA TakePin ==
    ASSUME TypeOK, PinInv, NEW p \in Procs, NEW u \in Units,
           Take(p, u) \/ ResetLands(p, u) \/ ResetFails(p, u) \/ BindFails(p, u)
    PROVE  PinInv'
<1>1. /\ \A q \in Procs \ {p} : proc'[q] = proc[q]
      /\ \/ proc'[p] = proc[p]
         \/ /\ u \in proc[p].todo /\ proc[p].loop = "taking"
            /\ proc'[p].loop = "taking"
            /\ proc'[p].draining = proc[p].draining /\ proc'[p].unpinning = proc[p].unpinning
            /\ \/ /\ proc'[p].owned = proc[p].owned /\ proc'[p].todo = proc[p].todo
                  /\ proc'[p].asking = {u}
               \/ /\ proc'[p].owned \in {proc[p].owned, proc[p].owned \cup {u}}
                  /\ proc'[p].todo = proc[p].todo \ {u} /\ proc'[p].asking = {}
      /\ UNCHANGED <<pin, overdue, moved, raced, hand>>
  BY TakeFacts
<1>2. Apart(proc'[p])
  <2>1. Apart(proc[p])
    BY DEF PinInv, ApartInv
  <2> QED BY <1>1, <2>1 DEF Apart
<1>3. ClaimedInv'
  BY <1>1 DEF PinInv, ClaimedInv
<1>4. PinnedInv'
  <2>1. CASE status' = status
    BY <1>1, <2>1 DEF PinInv, PinnedInv
  <2>2. CASE ResetLands(p, u)
    <3> SUFFICES ASSUME NEW q \in Procs, NEW r \in hand[q] \ overdue, UnitOf[r] \notin moved
                 PROVE  pin[UnitOf[r]] = q /\ (status'[r] = "out" \/ r \in raced)
      BY <1>1 DEF PinnedInv
    <3>1. pin[UnitOf[r]] = q /\ (status[r] = "out" \/ r \in raced) /\ r \in Rows
      BY DEF PinInv, PinnedInv, TypeOK
    <3>2. r \in RowsOf(u) => r \in raced
      BY <2>2 DEF PinInv, RaceInv, ResetLands, RowsOf
    <3>3. r \notin RowsOf(u) => status'[r] = status[r]
      BY <2>2, <3>1 DEF ResetLands, Outstanding
    <3> QED BY <3>1, <3>2, <3>3
  <2> QED BY <2>1, <2>2 DEF Take, ResetFails, BindFails, broker
<1>5. ApartInv'
  BY <1>1, <1>2 DEF PinInv, ApartInv
<1>6. UnpinInv'
  BY <1>1 DEF PinInv, UnpinInv, RowsOf
<1>7. DownInv'
  BY <1>1 DEF PinInv, DownInv, Up
<1>8. RaceInv'
  <2>1. CASE resets' \subseteq resets
    BY <1>1, <2>1 DEF PinInv, RaceInv, RowsOf
  <2>2. CASE pin[u] = Nobody /\ resets' = resets \cup {<<p, u>>}
    <3> SUFFICES ASSUME NEW q \in Procs, NEW v \in Units, <<q, v>> \in resets', v \notin moved,
                        NEW x \in Procs, NEW r \in hand[x] \cap RowsOf(v), r \notin overdue
                 PROVE  r \in raced
      BY <1>1 DEF RaceInv, RowsOf
    <3>1. CASE <<q, v>> \in resets
      BY <3>1 DEF PinInv, RaceInv
    <3>2. CASE v = u
      <4>1. UnitOf[r] = u /\ UnitOf[r] \notin moved
        BY <3>2 DEF RowsOf
      <4>2. pin[u] = x
        BY <4>1 DEF PinInv, PinnedInv
      <4> QED BY <2>2, <4>2, ClaimsAssumption
    <3> QED BY <2>2, <3>1, <3>2
  <2> QED BY <2>1, <2>2 DEF Take, ResetLands, ResetFails, BindFails, UnitHeld, broker
<1> QED BY <1>3, <1>4, <1>5, <1>6, <1>7, <1>8 DEF PinInv

\* Stop gives up every unit, and drains it.
LEMMA StopPin ==
    ASSUME TypeOK, PinInv, NEW p \in Procs, Stop(p)
    PROVE  PinInv'
<1>1. UNCHANGED <<pin, status, resets, overdue, moved, raced, hand>>
  BY DEF Stop, broker
<1>2. /\ \A q \in Procs \ {p} : proc'[q] = proc[q]
      /\ proc'[p].owned = {} /\ proc'[p].draining = proc[p].draining \cup proc[p].owned
      /\ proc'[p].unpinning = proc[p].unpinning /\ proc'[p].todo = proc[p].todo
      /\ proc'[p].asking = proc[p].asking
      /\ proc'[p].loop = "releasing"
  <2>1. proc[p] \in ClaimRecs /\ proc \in [Procs -> ClaimRecs]
    BY ProcIs DEF TypeOK, ClaimRecs
  <2>2. proc' = [proc EXCEPT ![p] = [proc[p] EXCEPT !.loop = "releasing",
                     !.draining = proc[p].draining \cup proc[p].owned, !.owned = {}]]
    BY DEF Stop, Set
  <2> HIDE DEF Slots, Units
  <2> QED BY <2>1, <2>2 DEF ClaimRecs
<1>3. Apart(proc'[p])
  <2>1. Apart(proc[p]) /\ proc[p].loop = "halted"
    BY DEF PinInv, ApartInv, Stop
  <2>2. proc[p].asking = {}
    BY <2>1 DEF Apart
  <2> QED BY <1>2, <2>1, <2>2 DEF Apart
<1> QED BY <1>1, <1>2, <1>3, LoopFrame

\* A process that starts had no rows it still claimed.
LEMMA StartPin ==
    ASSUME TypeOK, PinInv, NEW p \in Procs, Start(p)
    PROVE  PinInv'
<1>1. UNCHANGED <<pin, status, resets, overdue, moved, raced, hand>>
  BY DEF Start, broker
<1>2. /\ \A q \in Procs \ {p} : proc'[q] = proc[q]
      /\ proc'[p] = Fresh
  BY DEF Start, Set, TypeOK
<1>3. proc[p].owned \cup proc[p].draining = {}
  BY DEF PinInv, DownInv, Start
<1>4. Apart(proc'[p]) /\ proc'[p].unpinning = {} /\ proc'[p].loop = "idle"
  BY <1>2 DEF Apart, Fresh
<1> QED BY <1>1, <1>2, <1>3, <1>4, LoopFrame

\* A process that ends has nothing in hand.
LEMMA EndPin ==
    ASSUME TypeOK, PinInv, NEW p \in Procs, Stopped(p) \/ Crash(p)
    PROVE  PinInv'
<1>1. /\ UNCHANGED <<pin, status, resets, overdue, moved, raced>>
      /\ \A q \in Procs \ {p} : hand'[q] = hand[q] /\ proc'[q] = proc[q]
      /\ hand'[p] = {}
      /\ proc'[p] = [Fresh EXCEPT !.loop = "stopped"] \/ proc'[p] = [Fresh EXCEPT !.loop = "down"]
  BY DEF Stopped, Crash, Set, broker, TypeOK
<1>2. /\ proc'[p].owned = {} /\ proc'[p].draining = {} /\ proc'[p].unpinning = {}
      /\ proc'[p].todo = {} /\ proc'[p].asking = {}
  BY <1>1 DEF Fresh
<1>3. ClaimedInv'
  BY <1>1 DEF PinInv, ClaimedInv
<1>4. PinnedInv'
  BY <1>1 DEF PinInv, PinnedInv
<1>5. ApartInv'
  BY <1>1, <1>2 DEF PinInv, ApartInv, Apart
<1>6. UnpinInv'
  BY <1>1, <1>2 DEF PinInv, UnpinInv, RowsOf
<1>7. DownInv'
  BY <1>1, <1>2 DEF PinInv, DownInv, Up
<1>8. RaceInv'
  BY <1>1 DEF PinInv, RaceInv, RowsOf
<1> QED BY <1>3, <1>4, <1>5, <1>6, <1>7, <1>8 DEF PinInv

\* A release begins once the unit's rows have settled or outlived mq.ack_wait,
\* and goes on to unpin only what the process has pinned.
LEMMA ReleasePin ==
    ASSUME TypeOK, PinInv, NEW p \in Procs, NEW u \in Units, Release(p, u)
    PROVE  PinInv'
<1>1. /\ UNCHANGED <<pin, status, resets, overdue, moved, raced, hand>>
      /\ u \in proc[p].draining /\ hand[p] \cap RowsOf(u) \subseteq overdue
  BY DEF Release, Drained, broker
<1>2. /\ \A q \in Procs \ {p} : proc'[q] = proc[q]
      /\ proc'[p].draining = proc[p].draining \ {u}
      /\ proc'[p].unpinning = IF pin[u] = p THEN proc[p].unpinning \cup {u} ELSE proc[p].unpinning
      /\ proc'[p].owned = proc[p].owned /\ proc'[p].todo = proc[p].todo
      /\ proc'[p].loop = proc[p].loop /\ proc'[p].asking = proc[p].asking
  <2>1. proc[p] \in ClaimRecs /\ proc \in [Procs -> ClaimRecs]
    BY ProcIs DEF TypeOK, ClaimRecs
  <2>2. proc' = [proc EXCEPT ![p] = [proc[p] EXCEPT !.draining = proc[p].draining \ {u},
                     !.unpinning = IF pin[u] = p THEN proc[p].unpinning \cup {u} ELSE proc[p].unpinning]]
    BY DEF Release, Set
  <2> HIDE DEF Slots, Units
  <2> QED BY <2>1, <2>2 DEF ClaimRecs
<1>3. ClaimedInv'
  <2> SUFFICES ASSUME NEW q \in Procs, NEW r \in hand[q] \ overdue
               PROVE  UnitOf[r] \in proc'[q].owned \cup proc'[q].draining
    BY <1>1 DEF ClaimedInv
  <2>1. UnitOf[r] \in proc[q].owned \cup proc[q].draining /\ r \in Rows
    BY DEF PinInv, ClaimedInv, TypeOK
  <2>2. CASE q = p
    <3>1. UnitOf[r] # u
      BY <1>1, <2>1, <2>2 DEF RowsOf
    <3> QED BY <1>2, <2>1, <2>2, <3>1
  <2> QED BY <1>2, <2>1, <2>2
<1>4. PinnedInv'
  BY <1>1 DEF PinInv, PinnedInv
<1>5. ApartInv'
  <2>1. Apart(proc'[p])
    BY <1>1, <1>2 DEF PinInv, ApartInv, Apart
  <2> QED BY <1>2, <2>1 DEF PinInv, ApartInv
<1>6. UnpinInv'
  <2>1. \A q \in Procs : \A v \in proc'[q].unpinning :
            v \in proc[q].unpinning \/ (q = p /\ v = u /\ pin[u] = p)
    BY <1>2
  <2> QED BY <1>1, <2>1 DEF PinInv, UnpinInv, RowsOf
<1>7. DownInv'
  BY <1>1, <1>2 DEF PinInv, DownInv, Up
<1>8. RaceInv'
  BY <1>1 DEF PinInv, RaceInv, RowsOf
<1> QED BY <1>3, <1>4, <1>5, <1>6, <1>7, <1>8 DEF PinInv

\* An unpin takes the pin of no other process with rows in hand, though it
\* names no pin id.
LEMMA UnpinPin ==
    ASSUME TypeOK, PinInv, NEW p \in Procs, NEW u \in Units, Unpin(p, u)
    PROVE  PinInv'
<1>1. /\ UNCHANGED <<status, resets, overdue, moved, raced, hand>>
      /\ u \in proc[p].unpinning
      /\ pin'[u] = Nobody /\ \A v \in Units \ {u} : pin'[v] = pin[v]
  BY DEF Unpin, TypeOK
<1>2. /\ \A q \in Procs \ {p} : proc'[q] = proc[q]
      /\ proc'[p].unpinning = proc[p].unpinning \ {u}
      /\ proc'[p].draining = proc[p].draining
      /\ proc'[p].owned = proc[p].owned /\ proc'[p].todo = proc[p].todo
      /\ proc'[p].loop = proc[p].loop /\ proc'[p].asking = proc[p].asking
  <2>1. proc[p] \in ClaimRecs /\ proc \in [Procs -> ClaimRecs]
    BY ProcIs DEF TypeOK, ClaimRecs
  <2>2. proc' = [proc EXCEPT ![p] = [proc[p] EXCEPT !.unpinning = proc[p].unpinning \ {u}]]
    BY DEF Unpin, Set
  <2> HIDE DEF Slots, Units
  <2> QED BY <2>1, <2>2 DEF ClaimRecs
<1>3. /\ u \notin moved => pin[u] = p
      /\ hand[p] \cap RowsOf(u) \subseteq overdue
  BY <1>1 DEF PinInv, UnpinInv
<1>4. ClaimedInv'
  BY <1>1, <1>2 DEF PinInv, ClaimedInv
<1>5. PinnedInv'
  <2> SUFFICES ASSUME NEW q \in Procs, NEW r \in hand[q] \ overdue, UnitOf[r] \notin moved
               PROVE  pin'[UnitOf[r]] = q /\ (status[r] = "out" \/ r \in raced)
    BY <1>1 DEF PinnedInv
  <2>1. pin[UnitOf[r]] = q /\ (status[r] = "out" \/ r \in raced) /\ r \in Rows /\ UnitOf[r] \in Units
    BY ClaimsAssumption DEF PinInv, PinnedInv, TypeOK
  <2>2. UnitOf[r] # u
    BY <1>3, <2>1 DEF RowsOf
  <2> QED BY <1>1, <2>1, <2>2
<1>6. ApartInv'
  <2>1. Apart(proc'[p])
    BY <1>2 DEF PinInv, ApartInv, Apart
  <2> QED BY <1>2, <2>1 DEF PinInv, ApartInv
<1>7. UnpinInv'
  <2> SUFFICES ASSUME NEW q \in Procs, NEW v \in proc'[q].unpinning
               PROVE  /\ v \notin moved => pin'[v] = q
                      /\ hand[q] \cap RowsOf(v) \subseteq overdue
    BY <1>1 DEF UnpinInv, RowsOf
  <2>1. v \in proc[q].unpinning /\ ~(q = p /\ v = u) /\ v \in Units
    BY <1>2 DEF TypeOK
  <2>2. /\ v \notin moved => pin[v] = q
        /\ hand[q] \cap RowsOf(v) \subseteq overdue
    BY <2>1 DEF PinInv, UnpinInv
  <2> QED BY <1>1, <1>3, <2>1, <2>2
<1>8. DownInv'
  BY <1>2 DEF PinInv, DownInv, Up
<1>9. RaceInv'
  BY <1>1 DEF PinInv, RaceInv, RowsOf
<1> QED BY <1>4, <1>5, <1>6, <1>7, <1>8, <1>9 DEF PinInv

\* The broker delivers to the process it has pinned, so no other has a row of
\* the unit that it counts as delivered.
LEMMA DeliverPin ==
    ASSUME TypeOK, PinInv, NEW p \in Procs, NEW r \in Rows, Deliver(p, r)
    PROVE  PinInv'
<1> DEFINE u == UnitOf[r]
<1>1. /\ UNCHANGED <<proc, resets, overdue, moved>>
      /\ u \in proc[p].owned /\ pin[u] \in {p, Nobody} /\ status[r] = "ready"
      /\ u \in Units
  BY ClaimsAssumption DEF Deliver, Pulls
<1>2. /\ pin'[u] = p /\ \A v \in Units \ {u} : pin'[v] = pin[v]
      /\ status'[r] = "out" /\ \A x \in Rows \ {r} : status'[x] = status[x]
      /\ hand'[p] = hand[p] \cup {r} /\ \A q \in Procs \ {p} : hand'[q] = hand[q]
      /\ raced \subseteq raced' /\ ((\E q \in Procs : <<q, u>> \in resets) => r \in raced')
  BY <1>1 DEF Deliver, TypeOK
<1> HIDE DEF u
<1>3. \A v \in Units : \A q \in Procs : pin[v] = q => pin'[v] = q
  BY <1>1, <1>2, ClaimsAssumption
<1>4. ClaimedInv'
  BY <1>1, <1>2 DEF PinInv, ClaimedInv, u
<1>5. PinnedInv'
  <2> SUFFICES ASSUME NEW q \in Procs, NEW x \in hand'[q] \ overdue, UnitOf[x] \notin moved
               PROVE  pin'[UnitOf[x]] = q /\ (status'[x] = "out" \/ x \in raced')
    BY <1>1 DEF PinnedInv
  <2>1. CASE x \in hand[q]
    <3>1. x \in Rows /\ UnitOf[x] \in Units
      BY <2>1, ClaimsAssumption DEF TypeOK
    <3>2. pin[UnitOf[x]] = q /\ (status[x] = "out" \/ x \in raced)
      BY <2>1 DEF PinInv, PinnedInv
    <3> QED BY <1>2, <1>3, <3>1, <3>2
  <2>2. CASE x \notin hand[q]
    BY <1>2, <2>2 DEF u
  <2> QED BY <2>1, <2>2
<1>6. ApartInv' /\ DownInv'
  BY <1>1 DEF PinInv, ApartInv, DownInv, Up
<1>7. UnpinInv'
  <2> SUFFICES ASSUME NEW q \in Procs, NEW v \in proc[q].unpinning
               PROVE  /\ v \notin moved => pin'[v] = q
                      /\ hand'[q] \cap RowsOf(v) \subseteq overdue
    BY <1>1 DEF UnpinInv, RowsOf
  <2>1. /\ v \notin moved => pin[v] = q
        /\ hand[q] \cap RowsOf(v) \subseteq overdue /\ v \in Units
    BY DEF PinInv, UnpinInv, TypeOK
  <2>2. q = p => v # u
    BY <1>1 DEF PinInv, ApartInv, Apart
  <2>3. hand'[q] \cap RowsOf(v) \subseteq overdue
    BY <1>2, <2>1, <2>2 DEF RowsOf, u
  <2> QED BY <1>3, <2>1, <2>3
<1>8. RaceInv'
  <2> SUFFICES ASSUME NEW o \in Procs, NEW v \in Units, <<o, v>> \in resets, v \notin moved,
                      NEW q \in Procs, NEW x \in hand'[q] \cap RowsOf(v)
               PROVE  x \in overdue \cup raced'
    BY <1>1 DEF RaceInv, RowsOf
  <2>1. CASE x \in hand[q]
    BY <1>2, <2>1 DEF PinInv, RaceInv
  <2>2. CASE x \notin hand[q]
    <3>1. x = r /\ v = u
      BY <1>2, <2>2 DEF RowsOf, u
    <3> QED BY <1>2, <3>1
  <2> QED BY <2>1, <2>2
<1> QED BY <1>4, <1>5, <1>6, <1>7, <1>8 DEF PinInv

\* A row that settles was in no other hand, but for units the broker moved.
LEMMA SettlePin ==
    ASSUME TypeOK, PinInv, NEW p \in Procs, NEW r \in Rows, Settle(p, r) \/ Nak(p, r)
    PROVE  PinInv'
<1>1. /\ UNCHANGED <<proc, pin, resets, overdue, moved, raced>>
      /\ r \in hand[p]
      /\ \A x \in Rows \ {r} : status'[x] = status[x]
      /\ hand'[p] = hand[p] \ {r} /\ \A q \in Procs \ {p} : hand'[q] = hand[q]
  BY DEF Settle, Nak, TypeOK
<1>2. \A q \in Procs : \A x \in hand'[q] : x \in hand[q]
  BY <1>1
<1>3. ClaimedInv'
  BY <1>1, <1>2 DEF PinInv, ClaimedInv
<1>4. PinnedInv'
  <2> SUFFICES ASSUME NEW q \in Procs, NEW x \in hand'[q] \ overdue, UnitOf[x] \notin moved
               PROVE  pin[UnitOf[x]] = q /\ (status'[x] = "out" \/ x \in raced')
    BY <1>1 DEF PinnedInv
  <2>1. x \in hand[q] /\ x \in Rows
    BY <1>2 DEF TypeOK
  <2>2. pin[UnitOf[x]] = q /\ (status[x] = "out" \/ x \in raced)
    BY <2>1 DEF PinInv, PinnedInv
  <2>3. x # r
    BY <1>1, <2>1, <2>2 DEF PinInv, PinnedInv
  <2> QED BY <1>1, <2>1, <2>2, <2>3
<1>5. ApartInv' /\ DownInv'
  BY <1>1 DEF PinInv, ApartInv, DownInv, Up
<1>6. UnpinInv'
  BY <1>1, <1>2 DEF PinInv, UnpinInv, RowsOf
<1>7. RaceInv'
  BY <1>1, <1>2 DEF PinInv, RaceInv, RowsOf
<1> QED BY <1>3, <1>4, <1>5, <1>6, <1>7 DEF PinInv

\* The durable's ack_wait passes for a row nobody living has or an overdue
\* one; mq.ack_wait makes one overdue.
LEMMA AckWaitPin ==
    ASSUME TypeOK, PinInv, NEW r \in Rows, Redeliver(r) \/ TurnOverdue(r) \/ TurnLate(r)
    PROVE  PinInv'
<1>1. /\ UNCHANGED <<proc, pin, resets, moved, raced, hand>>
      /\ \A x \in Rows \ {r} : status'[x] = status[x]
      /\ \A x \in overdue : x \in overdue'
      /\ \A p \in Procs : r \in hand[p] => r \in overdue'
  BY DEF Redeliver, TurnOverdue, TurnLate, TypeOK
<1>2. \A p \in Procs : \A x \in hand[p] \ overdue' :
          x \in hand[p] \ overdue /\ x \in Rows /\ status'[x] = status[x]
  BY <1>1 DEF TypeOK
<1>3. ClaimedInv'
  BY <1>1, <1>2 DEF PinInv, ClaimedInv
<1>4. PinnedInv'
  BY <1>1, <1>2 DEF PinInv, PinnedInv
<1>5. ApartInv' /\ DownInv'
  BY <1>1 DEF PinInv, ApartInv, DownInv, Up
<1>6. UnpinInv'
  BY <1>1 DEF PinInv, UnpinInv, RowsOf
<1>7. RaceInv'
  BY <1>1 DEF PinInv, RaceInv, RowsOf
<1> QED BY <1>3, <1>4, <1>5, <1>6, <1>7 DEF PinInv

\* A pin lapses when its process has let the unit go, or the broker moves it.
LEMMA BrokerPin ==
    ASSUME TypeOK, PinInv, NEW u \in Units, PinLapses(u) \/ LeaderMoves(u)
    PROVE  PinInv'
<1>1. /\ UNCHANGED <<proc, status, resets, overdue, raced, hand>>
      /\ \A v \in Units \ {u} : pin'[v] = pin[v]
      /\ \A v \in moved : v \in moved'
      /\ u \in moved' \/ u \notin Claims(pin[u])
  BY DEF PinLapses, LeaderMoves, TypeOK
<1>2. ClaimedInv'
  BY <1>1 DEF PinInv, ClaimedInv
<1>3. PinnedInv'
  <2> SUFFICES ASSUME NEW q \in Procs, NEW r \in hand[q] \ overdue, UnitOf[r] \notin moved'
               PROVE  pin'[UnitOf[r]] = q /\ (status[r] = "out" \/ r \in raced)
    BY <1>1 DEF PinnedInv
  <2>1. /\ pin[UnitOf[r]] = q /\ (status[r] = "out" \/ r \in raced)
        /\ UnitOf[r] \in proc[q].owned \cup proc[q].draining
        /\ UnitOf[r] \in Units
    BY <1>1, ClaimsAssumption DEF PinInv, PinnedInv, ClaimedInv, TypeOK
  <2>2. UnitOf[r] # u
    BY <1>1, <2>1 DEF Claims
  <2> QED BY <1>1, <2>1, <2>2
<1>4. UnpinInv'
  <2> SUFFICES ASSUME NEW q \in Procs, NEW v \in proc[q].unpinning, v \notin moved'
               PROVE  pin'[v] = q
    BY <1>1 DEF PinInv, UnpinInv, RowsOf
  <2>1. pin[v] = q /\ v \in Units
    BY <1>1 DEF PinInv, UnpinInv, TypeOK
  <2>2. v # u
    BY <1>1, <2>1 DEF Claims
  <2> QED BY <1>1, <2>1, <2>2
<1>5. ApartInv' /\ DownInv'
  BY <1>1 DEF PinInv, ApartInv, DownInv, Up
<1>6. RaceInv'
  BY <1>1 DEF PinInv, RaceInv, RowsOf
<1> QED BY <1>2, <1>3, <1>4, <1>5, <1>6 DEF PinInv

\* Every step keeps the pin invariant.
LEMMA PinNext == TypeOK /\ PinInv /\ [Next]_vars => PinInv'
<1> SUFFICES ASSUME TypeOK, PinInv, [Next]_vars PROVE PinInv'
  OBVIOUS
<1>1. ASSUME NEW p \in Procs, Loop(p) PROVE PinInv'
  BY <1>1, TickPin, ReadMembersPin, TakePin DEF Loop
<1>2. ASSUME NEW p \in Procs,
             \/ LoseMember(p) \/ JoinFails(p) \/ ReadFails(p) \/ Halt(p) \/ Stop(p) \/ Stopped(p)
             \/ Crash(p) \/ Start(p)
      PROVE  PinInv'
  BY <1>2, TickPin, StopPin, EndPin, StartPin
<1>3. ASSUME NEW p \in Procs, NEW u \in Units,
             BindFails(p, u) \/ ResetLands(p, u) \/ ResetFails(p, u) \/ Release(p, u) \/ Unpin(p, u)
      PROVE  PinInv'
  BY <1>3, TakePin, ReleasePin, UnpinPin
<1>4. ASSUME NEW p \in Procs, NEW r \in Rows, Deliver(p, r) \/ Settle(p, r) \/ Nak(p, r)
      PROVE  PinInv'
  BY <1>4, DeliverPin, SettlePin
<1>5. ASSUME NEW r \in Rows, Redeliver(r) \/ TurnOverdue(r) \/ TurnLate(r) PROVE PinInv'
  BY <1>5, AckWaitPin
<1>6. ASSUME NEW u \in Units, PinLapses(u) \/ LeaderMoves(u) PROVE PinInv'
  BY <1>6, BrokerPin
<1>7. ASSUME UNCHANGED <<proc, pin, status, resets, overdue, moved, raced, hand>> PROVE PinInv'
  BY <1>7 DEF PinInv, ClaimedInv, PinnedInv, ApartInv, UnpinInv, RaceInv, DownInv, Up, RowsOf
<1>8. ASSUME NEW u \in Units, Quiet(u) PROVE PinInv'
  BY <1>7, <1>8 DEF Quiet
<1>9. ASSUME NEW p \in Procs, NEW j \in Slots, Expire(p, j) PROVE PinInv'
  BY <1>7, <1>9 DEF Expire, broker
<1>10. ASSUME UNCHANGED vars PROVE PinInv'
  BY <1>7, <1>10 DEF vars, broker
<1> QED BY <1>1, <1>2, <1>3, <1>4, <1>5, <1>6, <1>8, <1>9, <1>10 DEF Next

\* Every reachable state is well typed and keeps the pin invariant.
LEMMA PinAlways == Spec => [](TypeOK /\ PinInv)
<1>1. TypeOK /\ PinInv /\ [Next]_vars => (TypeOK /\ PinInv)'
  BY TypeNext, PinNext
<1>2. Init => TypeOK /\ PinInv
  BY TypeInit, PinInit
<1> QED BY <1>1, <1>2, PTL DEF Spec

\* A row in a process's hands is nobody else's and not up for delivery, until
\* it has been there for mq.ack_wait or the broker moves the durable: whatever
\* the members each process sees, releases that name no pin id, crashes and
\* resets of orphaned units, however long a reset is on its way after its
\* check, never give it to another process.  A reset sent before the row was
\* delivered may put it up again, for delivery to the process that has it.
THEOREM RowsStay == Spec => []RowsStayMine
<1>1. TypeOK /\ PinInv => RowsStayMine
  BY DEF PinInv, PinnedInv, RowsStayMine
<1> QED BY <1>1, PinAlways, PTL

\* The rows of a unit are written by one process at a time across a handover,
\* so they reach ClickHouse in order, unless the broker moved the durable or a
\* row outlived mq.ack_wait, the bound of a handover, in a process's hands:
\* the durable's own ack_wait may be longer, and nothing here takes it not to
\* be.
THEOREM OneWriterOnly == Spec => []OneWriter
<1>1. TypeOK /\ PinInv => OneWriter
  BY DEF PinInv, PinnedInv, OneWriter
<1> QED BY <1>1, PinAlways, PTL

-----------------------------------------------------------------------------
(* What assignUnits computes.  The model defines it by the rule each unit  *)
(* follows; that there is such an assignment, and one only need know the   *)
(* rule to have the share respected, is proved over the units in the order *)
(* they are taken.                                                         *)

\* Among subsets of a finite set one has no other below it.
LEMMA LeastSubset ==
    ASSUME NEW S, IsFiniteSet(S), NEW D \in SUBSET SUBSET S, D # {}
    PROVE  \E X \in D : \A Y \in D : Y \subseteq X => Y = X
<1> DEFINE R == StrictSubsetOrdering(S)
<1>1. D \subseteq FiniteSubsetsOf(S)
  BY FS_Subset DEF FiniteSubsetsOf
<1>2. \E X \in D : \A Y \in D : ~(<<Y, X>> \in R)
  <2>1. IsWellFoundedOn(R, FiniteSubsetsOf(S))
    BY FS_StrictSubsetOrderingWellFounded
  <2> HIDE DEF R
  <2> QED BY <1>1, <2>1, WFMin
<1>3. PICK X \in D : \A Y \in D : ~(<<Y, X>> \in R)
  BY <1>2
<1>4. ASSUME NEW Y \in D, Y \subseteq X PROVE Y = X
  BY <1>3, <1>4 DEF StrictSubsetOrdering
<1> QED BY <1>4

\* A function to numbers has a greatest value on a finite set.
LEMMA Greatest ==
    ASSUME NEW S, IsFiniteSet(S), S # {}, NEW f, \A x \in S : f[x] \in Nat
    PROVE  \E x \in S : \A y \in S : f[x] >= f[y]
<1> DEFINE above(x) == {y \in S : f[y] >= f[x]}
           D == {above(x) : x \in S}
<1>1. PICK X \in D : \A Y \in D : Y \subseteq X => Y = X
  <2>1. D \in SUBSET SUBSET S /\ D # {}
    OBVIOUS
  <2> HIDE DEF D
  <2> QED BY <2>1, LeastSubset
<1>2. PICK x \in S : X = above(x)
  OBVIOUS
<1>3. ASSUME NEW y \in S PROVE f[x] >= f[y]
  <2>1. f[x] \in Nat /\ f[y] \in Nat /\ \A z \in S : f[z] \in Nat
    OBVIOUS
  <2>2. CASE f[y] > f[x]
    <3>1. above(y) \subseteq above(x)
      BY <2>1, <2>2
    <3>2. above(y) = above(x)
      BY <1>1, <1>2, <3>1
    <3>3. x \in above(x)
      BY <2>1
    <3> QED BY <2>1, <2>2, <3>2, <3>3
  <2> QED BY <2>1, <2>2
<1> QED BY <1>3

\* ... and a least one.
LEMMA Least ==
    ASSUME NEW S, IsFiniteSet(S), S # {}, NEW f, \A x \in S : f[x] \in Nat
    PROVE  \E x \in S : \A y \in S : f[x] <= f[y]
<1> DEFINE below(x) == {y \in S : f[y] <= f[x]}
           D == {below(x) : x \in S}
<1>1. PICK X \in D : \A Y \in D : Y \subseteq X => Y = X
  <2>1. D \in SUBSET SUBSET S /\ D # {}
    OBVIOUS
  <2> HIDE DEF D
  <2> QED BY <2>1, LeastSubset
<1>2. PICK x \in S : X = below(x)
  OBVIOUS
<1>3. ASSUME NEW y \in S PROVE f[x] <= f[y]
  <2>1. f[x] \in Nat /\ f[y] \in Nat /\ \A z \in S : f[z] \in Nat
    OBVIOUS
  <2>2. CASE f[y] < f[x]
    <3>1. below(y) \subseteq below(x)
      BY <2>1, <2>2
    <3>2. below(y) = below(x)
      BY <1>1, <1>2, <3>1
    <3>3. x \in below(x)
      BY <2>1
    <3> QED BY <2>1, <2>2, <3>2, <3>3
  <2> QED BY <2>1, <2>2
<1> QED BY <1>3

\* The slots, the units and what is configured of them are finite.
LEMMA Finite ==
    /\ IsFiniteSet(Configured) /\ IsFiniteSet(Extras) /\ IsFiniteSet(Slots) /\ Slots \subseteq Nat \ {0}
    /\ Cardinality(Configured) \in Nat
<1>1. IsFiniteSet(Configured) /\ IsFiniteSet(Extras)
  BY ClaimsAssumption, FS_Subset DEF Units
<1>2. Cardinality(Configured) \in Nat /\ MaxMembers \in Nat
  BY <1>1, FS_CardinalityType, ClaimsAssumption
<1>3. \A n \in Nat : IsFiniteSet(1..n) /\ 1..n \subseteq Nat \ {0}
  BY FS_Interval
<1> QED BY <1>1, <1>2, <1>3 DEF Slots

\* Best is the highest score of a unit among some slots.
LEMMA BestIs ==
    ASSUME NEW u \in Units, NEW S, S \subseteq Slots, S # {}
    PROVE  Best(u, S) \in S /\ \A t \in S : Score[u][Best(u, S)] >= Score[u][t]
<1>1. IsFiniteSet(S)
  BY Finite, FS_Subset
<1>2. \A x \in S : Score[u][x] \in Nat
  BY ClaimsAssumption
<1> DEFINE f == Score[u]
<1>3. \E x \in S : \A y \in S : f[x] >= f[y]
  <2> HIDE DEF f
  <2>1. \A x \in S : f[x] \in Nat
    BY <1>2 DEF f
  <2> QED BY <1>1, <2>1, Greatest
<1> QED BY <1>3 DEF Best

\* As many of a set as n for each member of another are at least n times it.
LEMMA Shared ==
    ASSUME NEW V, IsFiniteSet(V), NEW T, IsFiniteSet(T), NEW a, NEW n \in Nat,
           \A s \in T : Cardinality({v \in V : a[v] = s}) >= n
    PROVE  Cardinality(V) >= n * Cardinality(T)
<1> DEFINE Of(R) == {v \in V : a[v] \in R}
           Bad == {R \in SUBSET T : ~(Cardinality(Of(R)) >= n * Cardinality(R))}
<1>0. \A W \in SUBSET V : IsFiniteSet(W) /\ Cardinality(W) \in Nat
  BY FS_Subset, FS_CardinalityType
<1>1. Bad = {}
  <2> SUFFICES ASSUME Bad # {} PROVE FALSE
    OBVIOUS
  <2>1. PICK R \in Bad : \A Q \in Bad : Q \subseteq R => Q = R
    <3>1. Bad \in SUBSET SUBSET T
      OBVIOUS
    <3> HIDE DEF Bad
    <3> QED BY <3>1, LeastSubset
  <2>2. IsFiniteSet(R) /\ Cardinality(R) \in Nat
    BY <2>1, FS_Subset, FS_CardinalityType
  <2>3. R # {}
    <3>1. Cardinality({}) = 0
      BY FS_EmptySet
    <3>2. Cardinality(Of({})) >= n * 0
      BY <1>0
    <3> QED BY <2>1, <3>1, <3>2
  <2>4. PICK s \in R : TRUE
    BY <2>3
  <2> DEFINE Q == R \ {s}
             Vs == {v \in V : a[v] = s}
  <2>5. Q \in SUBSET T /\ Q # R /\ Q \subseteq R
    BY <2>1, <2>4
  <2>6. Cardinality(Of(Q)) >= n * Cardinality(Q)
    BY <2>1, <2>5
  <2>7. IsFiniteSet(Q) /\ Cardinality(Q) = Cardinality(R) - 1
    BY <2>2, <2>4, FS_RemoveElement
  <2>8. Of(R) = Of(Q) \cup Vs /\ Of(Q) \cap Vs = {}
    BY <2>4
  <2>9. Cardinality(Of(R)) = Cardinality(Of(Q)) + Cardinality(Vs)
    <3>1. IsFiniteSet(Of(Q)) /\ IsFiniteSet(Vs) /\ Cardinality(Of(Q)) \in Nat /\ Cardinality(Vs) \in Nat
      BY <1>0
    <3>2. Cardinality({}) = 0
      BY FS_EmptySet
    <3> HIDE DEF Of, Vs, Q
    <3>3. Cardinality(Of(Q) \cup Vs) = Cardinality(Of(Q)) + Cardinality(Vs) - Cardinality(Of(Q) \cap Vs)
      BY <3>1, FS_Union
    <3> QED BY <2>8, <3>1, <3>2, <3>3
  <2>10. Cardinality(Vs) >= n
    BY <2>1
  <2>11. /\ Cardinality(Of(Q)) \in Nat /\ Cardinality(Vs) \in Nat /\ Cardinality(Of(R)) \in Nat
         /\ Cardinality(R) >= 1
    <3>1. Cardinality(R) # 0
      BY <2>2, <2>3, FS_EmptySet
    <3> QED BY <1>0, <2>2, <3>1
  <2>12. ~(Cardinality(Of(R)) >= n * Cardinality(R))
    BY <2>1
  <2> HIDE DEF Of, Vs, Q, Bad
  <2> DEFINE k == Cardinality(R)
             x == Cardinality(Of(R))
             y == Cardinality(Of(Q))
             z == Cardinality(Vs)
  <2>13. k \in Nat /\ x \in Nat /\ y \in Nat /\ z \in Nat /\ y >= n * (k - 1) /\ z >= n /\ x = y + z /\ ~(x >= n * k)
    BY <2>2, <2>6, <2>7, <2>9, <2>10, <2>11, <2>12
  <2> HIDE DEF k, x, y, z
  <2>14. n * k = n * (k - 1) + n
    BY <2>13
  <2>15. n * k \in Nat /\ n * (k - 1) \in Int
    BY <2>13
  <2> QED BY <2>13, <2>14, <2>15
<1>2. Of(T) \subseteq V /\ Cardinality(Of(T)) >= n * Cardinality(T)
  BY <1>1
<1>3. Cardinality(Of(T)) <= Cardinality(V)
  BY <1>2, FS_Subset
<1>4. Cardinality(T) \in Nat /\ Cardinality(V) \in Nat /\ Cardinality(Of(T)) \in Nat
  BY <1>0, FS_CardinalityType
<1>5. n * Cardinality(T) \in Nat
  BY <1>4
<1> QED BY <1>2, <1>3, <1>4, <1>5

\* The cap times the slots is as many as the units, and less than a slot's worth more.
LEMMA CapIs ==
    ASSUME NEW units \in SUBSET Units, NEW slots \in SUBSET Slots, slots # {}
    PROVE  /\ Cap(units, slots) \in Nat /\ Cardinality(units) \in Nat /\ Cardinality(slots) \in Nat \ {0}
           /\ Cap(units, slots) * Cardinality(slots) >= Cardinality(units)
           /\ Cap(units, slots) * Cardinality(slots) < Cardinality(units) + Cardinality(slots)
<1>1. IsFiniteSet(units) /\ IsFiniteSet(slots)
  BY Finite, FS_Subset, ClaimsAssumption
<1>2. Cardinality(units) \in Nat /\ Cardinality(slots) \in Nat \ {0}
  BY <1>1, FS_CardinalityType, FS_EmptySet
<1> DEFINE x == Cardinality(units)
           m == Cardinality(slots)
<1>3. x \in Nat /\ m \in Nat \ {0}
  BY <1>2
<1> HIDE DEF x, m
<1>4. /\ ((x + m - 1) \div m) \in Nat /\ ((x + m - 1) \div m) * m >= x
  BY <1>3
<1>5. ((x + m - 1) \div m) * m < x + m
  BY <1>3
<1> QED BY <1>3, <1>4, <1>5 DEF Cap, x, m

\* Before orders the units: by a number, that no two of them share.
LEMMA InOrder ==
    ASSUME NEW slots \in SUBSET Slots, slots # {}
    PROVE  /\ \A u \in Units : Score[u][Best(u, slots)] \in Nat /\ ~Before(u, u, slots)
           /\ \A u, v \in Units : u # v => Score[u][Best(u, slots)] # Score[v][Best(v, slots)]
<1>1. \A u \in Units : Best(u, slots) \in Slots
  BY BestIs
<1>2. \A u \in Units : Score[u][Best(u, slots)] \in Nat
  BY <1>1, ClaimsAssumption
<1>3. \A u, v \in Units : u # v => Score[u][Best(u, slots)] # Score[v][Best(v, slots)]
  BY <1>1, ClaimsAssumption
<1> QED BY <1>2, <1>3 DEF Before

\* When a unit's turn comes a slot is under the cap, however those before it went.
LEMMA RoomThere ==
    ASSUME NEW units \in SUBSET Units, NEW slots \in SUBSET Slots, slots # {}, NEW given, NEW u \in units
    PROVE  Room(given, u, units, slots) # {}
<1> SUFFICES ASSUME Room(given, u, units, slots) = {} PROVE FALSE
  OBVIOUS
<1> DEFINE B == {v \in units : Before(v, u, slots)}
           n == Cap(units, slots)
<1>1. IsFiniteSet(units) /\ IsFiniteSet(slots)
  BY Finite, FS_Subset, ClaimsAssumption
<1>2. B \in SUBSET units /\ B # units
  BY InOrder
<1>3. IsFiniteSet(B) /\ Cardinality(B) < Cardinality(units)
  <2>1. IsFiniteSet(B) /\ Cardinality(B) <= Cardinality(units) /\ Cardinality(B) # Cardinality(units)
    <3> HIDE DEF B
    <3> QED BY <1>1, <1>2, FS_Subset
  <2> QED BY <1>1, <2>1, FS_CardinalityType
<1>4. n \in Nat /\ n * Cardinality(slots) >= Cardinality(units) /\ Cardinality(slots) \in Nat /\ Cardinality(units) \in Nat
  BY CapIs
<1>5. \A s \in slots : Cardinality({v \in B : given[v] = s}) >= n
  <2> SUFFICES ASSUME NEW s \in slots PROVE Cardinality({v \in B : given[v] = s}) >= n
    OBVIOUS
  <2> DEFINE L == {v \in units : Before(v, u, slots) /\ given[v] = s}
  <2>1. {v \in B : given[v] = s} = L
    OBVIOUS
  <2>2. ~(Cardinality(L) < n)
    BY DEF Room
  <2>3. Cardinality(L) \in Nat
    <3>1. L \in SUBSET units
      OBVIOUS
    <3> HIDE DEF L
    <3> QED BY <1>1, <3>1, FS_Subset, FS_CardinalityType
  <2> HIDE DEF L, n, B
  <2> QED BY <1>4, <2>1, <2>2, <2>3
<1> HIDE DEF B, n
<1>6. Cardinality(B) >= n * Cardinality(slots)
  BY <1>1, <1>3, <1>4, <1>5, Shared
<1>7. Cardinality(B) \in Nat /\ n * Cardinality(slots) \in Nat
  BY <1>3, <1>4, FS_CardinalityType
<1> QED BY <1>3, <1>4, <1>6, <1>7

\* There is an assignment by the rule: it is extended unit by unit, best score first.
LEMMA RuleFollowed ==
    ASSUME NEW units \in SUBSET Units, NEW slots \in SUBSET Slots, slots # {}
    PROVE  \E given \in [units -> slots] : \A u \in units : given[u] = Best(u, Room(given, u, units, slots))
<1> DEFINE Rule(g, P) == \A u \in P : g[u] = Best(u, Room(g, u, units, slots))
           Down(P) == \A u \in P : \A v \in units : Before(v, u, slots) => v \in P
           D == {Q \in SUBSET units : Down(units \ Q) /\ \E g \in [units -> slots] : Rule(g, units \ Q)}
<1>1. IsFiniteSet(units)
  BY FS_Subset, ClaimsAssumption
<1>2. D # {}
  <2>1. PICK s \in slots : TRUE
    OBVIOUS
  <2>2. [u \in units |-> s] \in [units -> slots]
    OBVIOUS
  <2>3. units \in D
    BY <2>2
  <2> QED BY <2>3
<1>3. PICK X \in D : \A Y \in D : Y \subseteq X => Y = X
  <2>1. D \in SUBSET SUBSET units
    OBVIOUS
  <2> HIDE DEF D
  <2> QED BY <1>1, <1>2, <2>1, LeastSubset
<1>4. X \in SUBSET units /\ Down(units \ X)
  BY <1>3
<1>5. PICK g \in [units -> slots] : Rule(g, units \ X)
  BY <1>3
<1>6. ASSUME X # {} PROVE FALSE
  <2> DEFINE f == [v \in units |-> Score[v][Best(v, slots)]]
  <2>1. \A v \in units : f[v] \in Nat
    BY InOrder
  <2>2. PICK u \in X : \A v \in X : f[u] >= f[v]
    <3>1. IsFiniteSet(X) /\ \A v \in X : f[v] \in Nat
      BY <1>1, <1>4, <2>1, FS_Subset
    <3> HIDE DEF f
    <3> QED BY <1>6, <3>1, Greatest
  <2>3. \A v \in units : Before(v, u, slots) => v \in units \ X
    <3>1. \A v \in X : ~Before(v, u, slots)
      <4> SUFFICES ASSUME NEW v \in X PROVE ~(f[v] > f[u])
        BY <1>4 DEF Before
      <4>1. f[u] \in Nat /\ f[v] \in Nat /\ f[u] >= f[v]
        BY <1>4, <2>1, <2>2
      <4> HIDE DEF f
      <4> QED BY <4>1
    <3> QED BY <3>1
  <2> DEFINE s == Best(u, Room(g, u, units, slots))
             h == [g EXCEPT ![u] = s]
             Y == X \ {u}
  <2>4. u \in units /\ u \in Units
    BY <1>4, <2>2
  <2>5. s \in slots
    <3>1. Room(g, u, units, slots) # {}
      BY <2>4, RoomThere
    <3>2. Room(g, u, units, slots) \subseteq slots
      BY DEF Room
    <3>3. Room(g, u, units, slots) \subseteq Slots
      BY <3>2
    <3> HIDE DEF s
    <3>4. s \in Room(g, u, units, slots)
      BY <2>4, <3>1, <3>3, BestIs DEF s
    <3> QED BY <3>2, <3>4
  <2>6. h \in [units -> slots] /\ h[u] = s /\ \A v \in units \ {u} : h[v] = g[v]
    BY <2>4, <2>5
  <2>7. \A w \in (units \ X) \cup {u} : ~Before(u, w, slots)
    <3>1. ~Before(u, u, slots)
      BY <2>4, InOrder
    <3>2. \A w \in units \ X : ~Before(u, w, slots)
      BY <1>4, <2>2, <2>4
    <3> QED BY <3>1, <3>2
  <2>8. ASSUME NEW w \in (units \ X) \cup {u} PROVE Room(h, w, units, slots) = Room(g, w, units, slots)
    <3>1. \A v \in units : Before(v, w, slots) => h[v] = g[v]
      BY <2>6, <2>7
    <3>2. \A t \in slots : {v \in units : Before(v, w, slots) /\ h[v] = t} = {v \in units : Before(v, w, slots) /\ g[v] = t}
      BY <3>1
    <3> QED BY <3>2 DEF Room
  <2>9. Rule(h, (units \ X) \cup {u})
    <3> SUFFICES ASSUME NEW w \in (units \ X) \cup {u} PROVE h[w] = Best(w, Room(h, w, units, slots))
      OBVIOUS
    <3>1. CASE w = u
      <4>1. Room(h, w, units, slots) = Room(g, u, units, slots)
        BY <2>8, <3>1
      <4> QED BY <2>6, <3>1, <4>1
    <3>2. CASE w # u
      <4>1. h[w] = g[w] /\ g[w] = Best(w, Room(g, w, units, slots))
        BY <1>5, <2>6, <3>2
      <4> QED BY <2>8, <4>1
    <3> QED BY <3>1, <3>2
  <2>10. units \ Y = (units \ X) \cup {u}
    BY <1>4, <2>2
  <2>11. Down(units \ Y)
    BY <1>4, <2>3, <2>10
  <2>12. Y \in SUBSET units /\ Y \subseteq X /\ Y # X
    BY <1>4, <2>2
  <2>13. \E k \in [units -> slots] : Rule(k, units \ Y)
    BY <2>6, <2>9, <2>10
  <2>14. Y \in D
    BY <2>11, <2>12, <2>13
  <2> QED BY <1>3, <2>12, <2>14
<1>7. units \ X = units
  BY <1>6
<1> QED BY <1>5, <1>7

\* assignUnits: every unit has a live slot, and no slot more than the cap.
LEMMA AssignUnitsIs ==
    ASSUME NEW units \in SUBSET Units, NEW slots \in SUBSET Slots, slots # {}
    PROVE  /\ AssignUnits(units, slots) \in [units -> slots]
           /\ \A s \in slots : Cardinality({u \in units : AssignUnits(units, slots)[u] = s}) <= Cap(units, slots)
<1> DEFINE A == AssignUnits(units, slots)
<1>1. A \in [units -> slots] /\ \A u \in units : A[u] = Best(u, Room(A, u, units, slots))
  BY RuleFollowed DEF AssignUnits
<1>2. IsFiniteSet(units) /\ Cap(units, slots) \in Nat
  BY FS_Subset, ClaimsAssumption, CapIs
<1> HIDE DEF A
<1>3. ASSUME NEW s \in slots PROVE Cardinality({u \in units : A[u] = s}) <= Cap(units, slots)
  <2> DEFINE L == {u \in units : A[u] = s}
             f == [v \in units |-> Score[v][Best(v, slots)]]
  <2>1. \A v \in units : f[v] \in Nat
    BY InOrder
  <2>2. IsFiniteSet(L)
    BY <1>2, FS_Subset
  <2>3. CASE L = {}
    BY <1>2, <2>3, FS_EmptySet
  <2>4. CASE L # {}
    <3>1. PICK u \in L : \A v \in L : f[u] <= f[v]
      <4>1. \A v \in L : f[v] \in Nat
        BY <2>1
      <4> HIDE DEF f, L
      <4> QED BY <2>2, <2>4, <4>1, Least
    <3> DEFINE P == {v \in units : Before(v, u, slots) /\ A[v] = s}
    <3>2. u \in units /\ u \in Units /\ A[u] = s
      BY <3>1
    <3>3. s \in Room(A, u, units, slots)
      <4> DEFINE R == Room(A, u, units, slots)
      <4>1. R # {}
        BY <3>2, RoomThere
      <4>2. R \subseteq Slots
        BY DEF Room
      <4>3. A[u] = Best(u, R)
        BY <1>1, <3>2
      <4> HIDE DEF R
      <4> QED BY <3>2, <4>1, <4>2, <4>3, BestIs DEF R
    <3>4. Cardinality(P) < Cap(units, slots)
      BY <3>3 DEF Room
    <3>5. \A v \in L : v # u => v \in P
      <4> SUFFICES ASSUME NEW v \in L, v # u PROVE f[v] > f[u]
        BY <3>2 DEF Before
      <4>1. f[v] \in Nat /\ f[u] \in Nat /\ f[u] <= f[v] /\ f[u] # f[v]
        BY <2>1, <3>1, <3>2, InOrder
      <4> HIDE DEF f
      <4> QED BY <4>1
    <3>6. u \notin P
      BY <3>2, InOrder
    <3>7. L = P \cup {u}
      BY <3>2, <3>5
    <3>8. IsFiniteSet(P)
      BY <1>2, FS_Subset
    <3> HIDE DEF L, P, f
    <3>9. Cardinality(L) = Cardinality(P) + 1 /\ Cardinality(P) \in Nat
      BY <3>6, <3>7, <3>8, FS_AddElement, FS_CardinalityType
    <3> QED BY <1>2, <3>4, <3>9 DEF L
  <2> QED BY <2>3, <2>4
<1> QED BY <1>1, <1>3 DEF A

\* Owner gives every unit a live slot, and no slot more of the configured ones
\* than the cap.
LEMMA OwnerIs ==
    ASSUME NEW live \in SUBSET Slots, live # {}
    PROVE  /\ \A u \in Units : Owner[live][u] \in live
           /\ \A s \in live : Cardinality({u \in Configured : Owner[live][u] = s}) <= Cap(Configured, live)
<1> DEFINE own == AssignUnits(Configured, live)
           extra == AssignUnits(Extras, live)
<1>1. /\ own \in [Configured -> live] /\ extra \in [Extras -> live]
      /\ \A s \in live : Cardinality({u \in Configured : own[u] = s}) <= Cap(Configured, live)
  BY AssignUnitsIs DEF Units
<1>2. Owner[live] = [u \in DOMAIN own \cup DOMAIN extra |-> IF u \in DOMAIN own THEN own[u] ELSE extra[u]]
  BY DEF Owner
<1> HIDE DEF own, extra
<1>3. \A u \in Units : Owner[live][u] = IF u \in Configured THEN own[u] ELSE extra[u]
  BY <1>1, <1>2 DEF Units
<1>4. \A u \in Units : Owner[live][u] \in live
  BY <1>1, <1>3 DEF Units
<1>5. ASSUME NEW s \in live PROVE {u \in Configured : Owner[live][u] = s} = {u \in Configured : own[u] = s}
  BY <1>3 DEF Units
<1> QED BY <1>1, <1>4, <1>5

-----------------------------------------------------------------------------
(* Who is a member, and what it takes.  Agreement is not inductive: a slot *)
(* is one process's because the lease it holds is live, and a process owns *)
(* what its last full tick worked out for the slot it had then.            *)

Member(p) == Up(p) /\ proc[p].slot # 0 /\ ~proc[p].lost

\* A member's lease is live, and no other's.
LiveInv == \A p \in Procs : Member(p) => entry[proc[p].slot] = "live"
LoneInv == \A p, q \in Procs : Member(p) /\ Member(q) /\ proc[p].slot = proc[q].slot => p = q

\* What a process owns, or is about to take, was assigned to it.
Assigned(c) ==
    /\ c.loop \in {"idle", "reading"} => c.owned \subseteq (IF c.prev = Never THEN {} ELSE Targets(c.ticked, c.prev))
    /\ c.loop = "taking" => c.ticked = c.slot /\ c.owned \cup c.todo \subseteq Targets(c.slot, c.live)

AssignedInv == \A p \in Procs : Assigned(proc[p])

MemberInv == LiveInv /\ LoneInv /\ AssignedInv

\* No process runs at first.
LEMMA MemberInit == Init => MemberInv
<1> SUFFICES ASSUME Init PROVE MemberInv
  OBVIOUS
<1>1. \A p \in Procs : proc[p].loop = "down"
  BY DEF Init, Fresh
<1> QED BY <1>1 DEF MemberInv, LiveInv, LoneInv, AssignedInv, Assigned, Member, Up

\* A step of one process leaves what the others own assigned to them.
LEMMA AssignedFrame ==
    ASSUME AssignedInv, NEW p \in Procs, \A q \in Procs \ {p} : proc'[q] = proc[q], Assigned(proc'[p])
    PROVE  AssignedInv'
BY DEF AssignedInv, Assigned, Targets

\* A step of one process that makes it no new member, and takes no other's lease.
LEMMA MemberFrame ==
    ASSUME MemberInv, NEW p \in Procs, \A q \in Procs \ {p} : proc'[q] = proc[q], Assigned(proc'[p]),
           proc'[p].loop \notin {"stopped", "down"} /\ proc'[p].slot # 0 /\ ~proc'[p].lost =>
               Member(p) /\ proc'[p].slot = proc[p].slot /\ entry'[proc[p].slot] = entry[proc[p].slot],
           \A q \in Procs \ {p} : Member(q) => entry'[proc[q].slot] = entry[proc[q].slot]
    PROVE  MemberInv'
<1>1. \A q \in Procs : Member(q)' => Member(q) /\ proc'[q].slot = proc[q].slot /\ entry'[proc[q].slot] = entry[proc[q].slot]
  BY DEF Member, Up
<1>2. LiveInv' /\ LoneInv'
  BY <1>1 DEF MemberInv, LiveInv, LoneInv
<1>3. AssignedInv'
  BY AssignedFrame DEF MemberInv
<1> QED BY <1>2, <1>3 DEF MemberInv

\* What a process's own step makes of its claimLoop.
LEMMA SetIs ==
    ASSUME TypeOK, NEW p \in Procs, NEW c, Set(p, c)
    PROVE  proc'[p] = c /\ \A q \in Procs \ {p} : proc'[q] = proc[q]
BY DEF Set, TypeOK

\* Joining, or failing to: the lease taken was live for nobody.
LEMMA JoinMember ==
    ASSUME TypeOK, MemberInv, NEW p \in Procs, Join(p) \/ JoinFails(p)
    PROVE  MemberInv'
<1> DEFINE open == OpenSlots(p)
           j == CHOOSE k \in open : \A l \in open : k <= l
<1>1. open \subseteq Slots
  BY DEF OpenSlots
<1>2. open # {} => j \in open
  BY <1>1, LowestSlot
<1>3. proc[p] \in ClaimRecs /\ Assigned(proc[p]) /\ proc[p].loop = "idle"
  BY ProcIs DEF Join, JoinFails, MemberInv, AssignedInv
<1>4. \/ /\ proc[p].slot # 0 /\ ~proc[p].lost
         /\ Set(p, [proc[p] EXCEPT !.loop = "reading"]) /\ entry' = entry
      \/ /\ open # {} /\ Set(p, [proc[p] EXCEPT !.loop = "reading", !.slot = j, !.lost = FALSE])
         /\ entry' = [entry EXCEPT ![j] = "live"]
      \/ /\ Set(p, [proc[p] EXCEPT !.loop = "reading", !.slot = 0, !.lost = FALSE])
         /\ entry' = entry \/ (open # {} /\ entry' = [entry EXCEPT ![j] = "stale"])
  BY DEF Join, JoinFails
<1> HIDE DEF j, open
<1>5. CASE /\ proc[p].slot # 0 /\ ~proc[p].lost
           /\ Set(p, [proc[p] EXCEPT !.loop = "reading"]) /\ entry' = entry
  <2>1. proc'[p] = [proc[p] EXCEPT !.loop = "reading"] /\ \A q \in Procs \ {p} : proc'[q] = proc[q]
    BY <1>5, SetIs
  <2>2. /\ proc'[p].slot = proc[p].slot /\ proc'[p].lost = proc[p].lost /\ proc'[p].loop = "reading"
        /\ proc'[p].owned = proc[p].owned /\ proc'[p].prev = proc[p].prev /\ proc'[p].ticked = proc[p].ticked
    BY <1>3, <2>1 DEF ClaimRecs
  <2>3. Assigned(proc'[p])
    BY <1>3, <2>2 DEF Assigned
  <2>4. Member(p)
    BY <1>3, <1>5 DEF Member, Up
  <2> QED BY <1>5, <2>1, <2>2, <2>3, <2>4, MemberFrame
<1>6. CASE /\ Set(p, [proc[p] EXCEPT !.loop = "reading", !.slot = 0, !.lost = FALSE])
           /\ entry' = entry \/ (open # {} /\ entry' = [entry EXCEPT ![j] = "stale"])
  <2>1. /\ proc'[p] = [proc[p] EXCEPT !.loop = "reading", !.slot = 0, !.lost = FALSE]
        /\ \A q \in Procs \ {p} : proc'[q] = proc[q]
    BY <1>6, SetIs
  <2>2. /\ proc'[p].slot = 0 /\ proc'[p].loop = "reading"
        /\ proc'[p].owned = proc[p].owned /\ proc'[p].prev = proc[p].prev /\ proc'[p].ticked = proc[p].ticked
    BY <1>3, <2>1 DEF ClaimRecs
  <2>3. Assigned(proc'[p])
    BY <1>3, <2>2 DEF Assigned
  <2>4. \A q \in Procs : Member(q) => entry'[proc[q].slot] = entry[proc[q].slot]
    <3>1. open # {} => entry[j] # "live"
      BY <1>1, <1>2 DEF open, OpenSlots, LiveSlots, Held
    <3>2. ASSUME NEW q \in Procs, Member(q) PROVE entry'[proc[q].slot] = entry[proc[q].slot]
      <4>1. entry[proc[q].slot] = "live"
        BY <3>2 DEF MemberInv, LiveInv
      <4>2. CASE entry' = entry
        BY <4>2
      <4>3. CASE open # {} /\ entry' = [entry EXCEPT ![j] = "stale"]
        <5>1. proc[q].slot # j
          BY <3>1, <4>1, <4>3
        <5>2. entry \in [Slots -> {"free", "live", "stale"}]
          BY DEF TypeOK
        <5> QED BY <4>3, <5>1, <5>2
      <4> QED BY <1>6, <4>2, <4>3
    <3> QED BY <3>2
  <2> QED BY <2>1, <2>2, <2>3, <2>4, MemberFrame
<1>7. CASE /\ open # {} /\ Set(p, [proc[p] EXCEPT !.loop = "reading", !.slot = j, !.lost = FALSE])
           /\ entry' = [entry EXCEPT ![j] = "live"]
  <2>1. /\ proc'[p] = [proc[p] EXCEPT !.loop = "reading", !.slot = j, !.lost = FALSE]
        /\ \A q \in Procs \ {p} : proc'[q] = proc[q]
    BY <1>7, SetIs
  <2>2. /\ proc'[p].slot = j /\ proc'[p].loop = "reading"
        /\ proc'[p].owned = proc[p].owned /\ proc'[p].prev = proc[p].prev /\ proc'[p].ticked = proc[p].ticked
    BY <1>3, <2>1 DEF ClaimRecs
  <2>3. Assigned(proc'[p])
    BY <1>3, <2>2 DEF Assigned
  <2>4. entry[j] # "live" /\ j \in Slots
    BY <1>1, <1>2, <1>7 DEF open, OpenSlots, LiveSlots, Held
  <2>5. entry' = [entry EXCEPT ![j] = "live"] /\ DOMAIN entry = Slots
    BY <1>7 DEF TypeOK
  <2>6. \A q \in Procs \ {p} : Member(q)' => Member(q) /\ proc'[q].slot = proc[q].slot /\ proc[q].slot # j
    <3>1. \A q \in Procs \ {p} : Member(q)' => Member(q) /\ proc'[q].slot = proc[q].slot
      BY <2>1 DEF Member, Up
    <3> QED BY <2>4, <3>1 DEF MemberInv, LiveInv
  <2>7. \A q \in Procs : Member(q) => proc[q].slot \in Slots
    BY DEF Member, TypeOK
  <2>8. LiveInv'
    <3> SUFFICES ASSUME NEW q \in Procs, Member(q)' PROVE entry'[proc'[q].slot] = "live"
      BY DEF LiveInv
    <3>1. CASE q = p
      BY <2>2, <2>4, <2>5, <3>1
    <3>2. CASE q # p
      <4>1. Member(q) /\ proc'[q].slot = proc[q].slot /\ proc[q].slot # j /\ entry[proc[q].slot] = "live"
        BY <2>6, <3>2 DEF MemberInv, LiveInv
      <4> QED BY <2>5, <2>7, <4>1
    <3> QED BY <3>1, <3>2
  <2>9. LoneInv'
    <3> SUFFICES ASSUME NEW q \in Procs, NEW r \in Procs, Member(q)', Member(r)', proc'[q].slot = proc'[r].slot, q # r
                 PROVE  FALSE
      BY DEF LoneInv
    <3>1. CASE q # p /\ r # p
      BY <2>6, <3>1 DEF MemberInv, LoneInv
    <3>2. CASE q = p
      BY <2>2, <2>6, <3>2
    <3>3. CASE r = p
      BY <2>2, <2>6, <3>3
    <3> QED BY <3>1, <3>2, <3>3
  <2>10. AssignedInv'
    BY <2>1, <2>3, AssignedFrame DEF MemberInv
  <2> QED BY <2>8, <2>9, <2>10 DEF MemberInv
<1> QED BY <1>4, <1>5, <1>6, <1>7

\* A member that loses its lease, or gives it back, leaves those of the others.
LEMMA LeaveMember ==
    ASSUME TypeOK, MemberInv, NEW p \in Procs, LoseMember(p) \/ Stopped(p) \/ Crash(p)
    PROVE  MemberInv'
<1>1. proc[p] \in ClaimRecs /\ Assigned(proc[p])
  BY ProcIs DEF MemberInv, AssignedInv
<1>2. entry' = entry \/ \E e : entry' = [entry EXCEPT ![proc[p].slot] = e] /\ Member(p)
  <2>1. CASE LoseMember(p)
    BY <2>1 DEF LoseMember, Member
  <2>2. CASE Stopped(p)
    BY <2>2 DEF Stopped, Member, Up
  <2>3. CASE Crash(p)
    BY <2>3 DEF Crash, Member
  <2> QED BY <2>1, <2>2, <2>3
<1>3. ASSUME NEW q \in Procs \ {p}, Member(q) PROVE entry'[proc[q].slot] = entry[proc[q].slot]
  <2>1. proc[q].slot \in Slots /\ DOMAIN entry = Slots
    BY <1>3 DEF Member, TypeOK
  <2>2. Member(p) => proc[q].slot # proc[p].slot
    BY <1>3 DEF MemberInv, LoneInv
  <2> QED BY <1>2, <2>1, <2>2
<1>4. /\ \A q \in Procs \ {p} : proc'[q] = proc[q]
      /\ \/ proc'[p] = [proc[p] EXCEPT !.lost = TRUE]
         \/ proc'[p] = [Fresh EXCEPT !.loop = "stopped"]
         \/ proc'[p] = [Fresh EXCEPT !.loop = "down"]
  BY SetIs DEF LoseMember, Stopped, Crash
<1>5. Assigned(proc'[p]) /\ (proc'[p].lost \/ proc'[p].slot = 0)
  <2>1. CASE proc'[p] = [proc[p] EXCEPT !.lost = TRUE]
    <3>1. /\ proc'[p].loop = proc[p].loop /\ proc'[p].slot = proc[p].slot /\ proc'[p].lost = TRUE
          /\ proc'[p].owned = proc[p].owned /\ proc'[p].prev = proc[p].prev /\ proc'[p].ticked = proc[p].ticked
          /\ proc'[p].todo = proc[p].todo /\ proc'[p].live = proc[p].live
      BY <1>1, <2>1 DEF ClaimRecs
    <3> QED BY <1>1, <3>1 DEF Assigned
  <2>2. CASE proc'[p] = [Fresh EXCEPT !.loop = "stopped"]
    BY <2>2 DEF Fresh, Assigned
  <2>3. CASE proc'[p] = [Fresh EXCEPT !.loop = "down"]
    BY <2>3 DEF Fresh, Assigned
  <2> QED BY <1>4, <2>1, <2>2, <2>3
<1> QED BY <1>3, <1>4, <1>5, MemberFrame

\* Reading the members: what is owned and what is to be taken is of the slot's targets.
LEMMA ReadMembersMember ==
    ASSUME TypeOK, MemberInv, NEW p \in Procs, ReadMembers(p)
    PROVE  MemberInv'
<1> DEFINE c == proc[p]
           live == LiveSlots(p)
           targets == Targets(c.slot, live)
<1>1. c \in ClaimRecs /\ c.loop = "reading" /\ entry' = entry
  BY ProcIs DEF ReadMembers
<1>2. PICK orphaned, todo :
          /\ Set(p, [[c EXCEPT !.owned = c.owned \cap targets,
                               !.draining = c.draining \cup (c.owned \ targets),
                               !.orphaned = orphaned]
                         EXCEPT !.loop = "taking", !.live = live, !.ticked = c.slot, !.todo = todo])
          /\ todo \subseteq targets
  BY DEF ReadMembers, GivenUp
<1>3. /\ proc'[p] = [[c EXCEPT !.owned = c.owned \cap targets,
                               !.draining = c.draining \cup (c.owned \ targets),
                               !.orphaned = orphaned]
                         EXCEPT !.loop = "taking", !.live = live, !.ticked = c.slot, !.todo = todo]
      /\ \A q \in Procs \ {p} : proc'[q] = proc[q]
  BY <1>2, SetIs
<1> HIDE DEF live, targets
<1>4. /\ proc'[p].loop = "taking" /\ proc'[p].slot = c.slot /\ proc'[p].lost = c.lost
      /\ proc'[p].ticked = c.slot /\ proc'[p].live = live /\ proc'[p].todo = todo
      /\ proc'[p].owned = c.owned \cap targets
  BY <1>1, <1>3 DEF ClaimRecs
<1>5. Assigned(proc'[p])
  BY <1>2, <1>4 DEF Assigned, targets
<1>6. ~proc'[p].lost /\ proc'[p].slot # 0 => Member(p)
  BY <1>1, <1>4 DEF Member, Up
<1> QED BY <1>1, <1>3, <1>4, <1>5, <1>6, MemberFrame

\* A tick that ends has taken what it was assigned; one whose read failed has taken nothing.
LEMMA TickMember ==
    ASSUME TypeOK, MemberInv, NEW p \in Procs, ReadFails(p) \/ EndTick(p) \/ Halt(p)
    PROVE  MemberInv'
<1>1. proc[p] \in ClaimRecs /\ Assigned(proc[p]) /\ entry' = entry /\ Up(p)
  BY ProcIs DEF MemberInv, AssignedInv, ReadFails, EndTick, Halt, Up
<1>2. CASE ReadFails(p)
  <2>1. proc'[p] = [proc[p] EXCEPT !.loop = "idle"] /\ \A q \in Procs \ {p} : proc'[q] = proc[q]
    BY <1>2, SetIs DEF ReadFails
  <2>2. /\ proc'[p].slot = proc[p].slot /\ proc'[p].lost = proc[p].lost /\ proc'[p].loop = "idle"
        /\ proc'[p].owned = proc[p].owned /\ proc'[p].prev = proc[p].prev /\ proc'[p].ticked = proc[p].ticked
    BY <1>1, <2>1 DEF ClaimRecs
  <2>3. Assigned(proc'[p])
    BY <1>1, <1>2, <2>2 DEF Assigned, ReadFails
  <2> QED BY <1>1, <2>1, <2>2, <2>3, MemberFrame DEF Member
<1>3. CASE EndTick(p)
  <2>1. /\ proc'[p] = [proc[p] EXCEPT !.loop = "idle", !.prev = proc[p].live]
        /\ \A q \in Procs \ {p} : proc'[q] = proc[q]
    BY <1>3, SetIs DEF EndTick
  <2>2. /\ proc'[p].slot = proc[p].slot /\ proc'[p].lost = proc[p].lost /\ proc'[p].loop = "idle"
        /\ proc'[p].owned = proc[p].owned /\ proc'[p].prev = proc[p].live /\ proc'[p].ticked = proc[p].ticked
    BY <1>1, <2>1 DEF ClaimRecs
  <2>3. proc[p].live # Never
    BY <1>1, Finite DEF ClaimRecs, Never
  <2>4. Assigned(proc'[p])
    BY <1>1, <1>3, <2>2, <2>3 DEF Assigned, EndTick
  <2> QED BY <1>1, <2>1, <2>2, <2>4, MemberFrame DEF Member
<1>4. CASE Halt(p)
  <2>1. proc'[p] = [proc[p] EXCEPT !.loop = "halted"] /\ \A q \in Procs \ {p} : proc'[q] = proc[q]
    BY <1>4, SetIs DEF Halt
  <2>2. proc'[p].slot = proc[p].slot /\ proc'[p].lost = proc[p].lost /\ proc'[p].loop = "halted"
    BY <1>1, <2>1 DEF ClaimRecs
  <2>3. Assigned(proc'[p])
    BY <2>2 DEF Assigned
  <2> QED BY <1>1, <2>1, <2>2, <2>3, MemberFrame DEF Member
<1> QED BY <1>2, <1>3, <1>4

\* A unit taken was one to take.
LEMMA TakeMember ==
    ASSUME TypeOK, PinInv, MemberInv, NEW p \in Procs, NEW u \in Units,
           Take(p, u) \/ ResetLands(p, u) \/ ResetFails(p, u) \/ BindFails(p, u)
    PROVE  MemberInv'
<1>1. Assigned(proc[p]) /\ entry' = entry
  BY DEF MemberInv, AssignedInv, Take, ResetLands, ResetFails, BindFails
<1>2. /\ \A q \in Procs \ {p} : proc'[q] = proc[q]
      /\ \/ proc'[p] = proc[p]
         \/ /\ u \in proc[p].todo /\ proc[p].loop = "taking" /\ proc'[p].loop = "taking"
            /\ proc'[p].owned \cup proc'[p].todo \subseteq proc[p].owned \cup proc[p].todo
  BY TakeFacts
<1>3. /\ proc'[p].slot = proc[p].slot /\ proc'[p].lost = proc[p].lost
      /\ proc'[p].ticked = proc[p].ticked /\ proc'[p].live = proc[p].live
  <2>1. proc[p] \in ClaimRecs
    BY ProcIs
  <2>2. \/ Set(p, [proc[p] EXCEPT !.todo = @ \ {u}, !.asking = {}, !.owned = @ \cup {u}, !.orphaned[u] = 0])
        \/ \E n : Set(p, [proc[p] EXCEPT !.asking = {u}, !.orphaned[u] = n])
        \/ \E n : Set(p, [proc[p] EXCEPT !.todo = @ \ {u}, !.orphaned[u] = n])
        \/ proc' = proc
    BY DEF Take, ResetLands, ResetFails, BindFails, Opened
  <2>3. CASE Set(p, [proc[p] EXCEPT !.todo = @ \ {u}, !.asking = {}, !.owned = @ \cup {u}, !.orphaned[u] = 0])
    <3>1. proc'[p] = [proc[p] EXCEPT !.todo = @ \ {u}, !.asking = {}, !.owned = @ \cup {u}, !.orphaned[u] = 0]
      BY <2>3, SetIs
    <3> QED BY <2>1, <3>1 DEF ClaimRecs
  <2>4. ASSUME NEW n, \/ Set(p, [proc[p] EXCEPT !.asking = {u}, !.orphaned[u] = n])
                      \/ Set(p, [proc[p] EXCEPT !.todo = @ \ {u}, !.orphaned[u] = n])
        PROVE  /\ proc'[p].slot = proc[p].slot /\ proc'[p].lost = proc[p].lost
               /\ proc'[p].ticked = proc[p].ticked /\ proc'[p].live = proc[p].live
    <3>1. \/ proc'[p] = [proc[p] EXCEPT !.asking = {u}, !.orphaned[u] = n]
          \/ proc'[p] = [proc[p] EXCEPT !.todo = @ \ {u}, !.orphaned[u] = n]
      BY <2>4, SetIs
    <3> QED BY <2>1, <3>1 DEF ClaimRecs
  <2> QED BY <2>2, <2>3, <2>4
<1>4. Assigned(proc'[p])
  BY <1>1, <1>2, <1>3 DEF Assigned
<1>5. proc'[p].loop \notin {"stopped", "down"} => Up(p)
  BY <1>2 DEF Up
<1> QED BY <1>1, <1>2, <1>3, <1>4, <1>5, MemberFrame DEF Member

\* Units given up, and a process that starts or stops, change no membership.
LEMMA ReleaseMember ==
    ASSUME TypeOK, MemberInv, NEW p \in Procs,
           Stop(p) \/ Start(p) \/ \E u \in Units : Release(p, u) \/ Unpin(p, u)
    PROVE  MemberInv'
<1>1. proc[p] \in ClaimRecs /\ Assigned(proc[p]) /\ entry' = entry
  BY ProcIs DEF MemberInv, AssignedInv, Stop, Start, Release, Unpin
<1>2. CASE Start(p)
  <2>1. proc'[p] = Fresh /\ \A q \in Procs \ {p} : proc'[q] = proc[q]
    BY <1>2, SetIs DEF Start
  <2>2. Assigned(proc'[p]) /\ proc'[p].slot = 0
    BY <2>1 DEF Assigned, Fresh
  <2> QED BY <1>1, <2>1, <2>2, MemberFrame
<1>3. CASE Stop(p)
  <2>1. /\ proc'[p] = [proc[p] EXCEPT !.loop = "releasing", !.draining = @ \cup proc[p].owned, !.owned = {}]
        /\ \A q \in Procs \ {p} : proc'[q] = proc[q]
    BY <1>3, SetIs DEF Stop
  <2>2. proc'[p].slot = proc[p].slot /\ proc'[p].lost = proc[p].lost /\ proc'[p].loop = "releasing"
    BY <1>1, <2>1 DEF ClaimRecs
  <2>3. Assigned(proc'[p]) /\ Up(p)
    BY <1>3, <2>2 DEF Assigned, Stop, Up
  <2> QED BY <1>1, <2>1, <2>2, <2>3, MemberFrame DEF Member
<1>4. ASSUME NEW u \in Units, Release(p, u) \/ Unpin(p, u) PROVE MemberInv'
  <2>1. PICK draining, unpinning : Set(p, [proc[p] EXCEPT !.draining = draining, !.unpinning = unpinning])
    <3>1. CASE Release(p, u)
      BY <3>1 DEF Release
    <3>2. CASE Unpin(p, u)
      <4>1. [proc[p] EXCEPT !.unpinning = @ \ {u}]
            = [proc[p] EXCEPT !.draining = proc[p].draining, !.unpinning = @ \ {u}]
        BY <1>1 DEF ClaimRecs
      <4> QED BY <3>2, <4>1 DEF Unpin
    <3> QED BY <1>4, <3>1, <3>2
  <2>2. /\ proc'[p] = [proc[p] EXCEPT !.draining = draining, !.unpinning = unpinning]
        /\ \A q \in Procs \ {p} : proc'[q] = proc[q]
    BY <2>1, SetIs
  <2>3. /\ proc'[p].slot = proc[p].slot /\ proc'[p].lost = proc[p].lost /\ proc'[p].loop = proc[p].loop
        /\ proc'[p].owned = proc[p].owned /\ proc'[p].todo = proc[p].todo /\ proc'[p].ticked = proc[p].ticked
        /\ proc'[p].live = proc[p].live /\ proc'[p].prev = proc[p].prev
    BY <1>1, <2>2 DEF ClaimRecs
  <2>4. Assigned(proc'[p])
    BY <1>1, <2>3 DEF Assigned
  <2> QED BY <1>1, <2>2, <2>3, <2>4, MemberFrame DEF Member, Up
<1> QED BY <1>2, <1>3, <1>4

\* Every step keeps the members and what they own.
LEMMA MemberNext == TypeOK /\ PinInv /\ MemberInv /\ [Next]_vars => MemberInv'
<1> SUFFICES ASSUME TypeOK, PinInv, MemberInv, [Next]_vars PROVE MemberInv'
  OBVIOUS
<1>1. ASSUME NEW p \in Procs, Loop(p) PROVE MemberInv'
  BY <1>1, JoinMember, ReadMembersMember, TickMember, TakeMember DEF Loop
<1>2. ASSUME NEW p \in Procs,
             \/ LoseMember(p) \/ JoinFails(p) \/ ReadFails(p) \/ Halt(p) \/ Stop(p) \/ Stopped(p)
             \/ Crash(p) \/ Start(p)
      PROVE  MemberInv'
  BY <1>2, JoinMember, LeaveMember, TickMember, ReleaseMember
<1>3. ASSUME NEW p \in Procs, NEW u \in Units,
             BindFails(p, u) \/ ResetLands(p, u) \/ ResetFails(p, u) \/ Release(p, u) \/ Unpin(p, u)
      PROVE  MemberInv'
  BY <1>3, TakeMember, ReleaseMember
<1>4. ASSUME UNCHANGED <<entry, proc>> PROVE MemberInv'
  BY <1>4 DEF MemberInv, LiveInv, LoneInv, AssignedInv, Member, Up, Assigned, Targets
<1>5. ASSUME NEW p \in Procs, NEW r \in Rows, Deliver(p, r) \/ Settle(p, r) \/ Nak(p, r)
      PROVE  MemberInv'
  BY <1>4, <1>5 DEF Deliver, Settle, Nak
<1>6. ASSUME NEW r \in Rows, Redeliver(r) \/ TurnOverdue(r) \/ TurnLate(r) PROVE MemberInv'
  BY <1>4, <1>6 DEF Redeliver, TurnOverdue, TurnLate
<1>7. ASSUME NEW u \in Units, PinLapses(u) \/ LeaderMoves(u) \/ Quiet(u) PROVE MemberInv'
  BY <1>4, <1>7 DEF PinLapses, LeaderMoves, Quiet
<1>8. ASSUME NEW p \in Procs, NEW j \in Slots, Expire(p, j) PROVE MemberInv'
  BY <1>4, <1>8 DEF Expire
<1>9. ASSUME UNCHANGED vars PROVE MemberInv'
  BY <1>4, <1>9 DEF vars
<1> QED BY <1>1, <1>2, <1>3, <1>5, <1>6, <1>7, <1>8, <1>9 DEF Next

LEMMA MemberAlways == Spec => [](TypeOK /\ PinInv /\ MemberInv)
<1>1. TypeOK /\ PinInv /\ MemberInv /\ [Next]_vars => (TypeOK /\ PinInv /\ MemberInv)'
  BY TypeNext, PinNext, MemberNext
<1>2. Init => TypeOK /\ PinInv /\ MemberInv
  BY TypeInit, PinInit, MemberInit
<1> QED BY <1>1, <1>2, PTL DEF Spec

\* Once settled, a process owns the units its slot owns.
LEMMA SettledOwns ==
    ASSUME TypeOK, PinInv, MemberInv, Settled
    PROVE  LET up == {p \in Procs : Up(p)}
               slots == {proc[p].slot : p \in up}
           IN /\ slots \in SUBSET Slots /\ slots # {}
              /\ \A p, q \in up : proc[p].slot = proc[q].slot => p = q
              /\ \A p \in up : proc[p].owned = {u \in Units : Owner[slots][u] = proc[p].slot}
              /\ \A p \in Procs \ up : proc[p].owned = {}
<1> DEFINE up == {p \in Procs : Up(p)}
           slots == {proc[p].slot : p \in up}
<1>1. slots \in SUBSET Slots /\ slots # {} /\ slots # Never /\ \A p \in up : proc[p].slot \in slots
  BY Finite DEF Settled, Never
<1> HIDE DEF slots
<1>2. ASSUME NEW p \in up
      PROVE  /\ Member(p) /\ proc[p].loop = "idle" /\ proc[p].prev = slots /\ proc[p].ticked = proc[p].slot
             /\ Targets(proc[p].slot, slots) \subseteq proc[p].owned
  BY <1>1, Finite DEF Settled, Member, Claims, slots
<1>3. ASSUME NEW p \in up PROVE proc[p].owned = {u \in Units : Owner[slots][u] = proc[p].slot}
  <2>1. Targets(proc[p].slot, slots) = {u \in Units : Owner[slots][u] = proc[p].slot}
    BY <1>1 DEF Targets
  <2>2. proc[p].owned \subseteq Targets(proc[p].slot, slots)
    BY <1>1, <1>2 DEF MemberInv, AssignedInv, Assigned
  <2> QED BY <1>2, <2>1, <2>2
<1>4. \A p, q \in up : proc[p].slot = proc[q].slot => p = q
  BY <1>2 DEF MemberInv, LoneInv
<1>5. \A p \in Procs \ up : proc[p].owned = {}
  BY DEF PinInv, DownInv
<1> QED BY <1>1, <1>3, <1>4, <1>5 DEF slots

\* Once every process that runs has ticked since the members last changed, a
\* unit is consumed by exactly one of them, and none consumes more of the
\* configured units than an even share, rounded up: claimLoop.tick over
\* assignUnits, whatever the scores, the faults and the order of the ticks.
THEOREM MembersAgree == Spec => []Agreement
<1>1. TypeOK /\ PinInv /\ MemberInv => Agreement
  <2> SUFFICES ASSUME TypeOK, PinInv, MemberInv, Settled PROVE Agreement
    BY DEF Agreement
  <2> DEFINE up == {p \in Procs : Up(p)}
             slots == {proc[p].slot : p \in up}
  <2>1. /\ slots \in SUBSET Slots /\ slots # {} /\ \A p \in up : proc[p].slot \in slots
        /\ \A s \in slots : \E p \in up : proc[p].slot = s
        /\ \A p, q \in up : proc[p].slot = proc[q].slot => p = q
        /\ \A p \in up : proc[p].owned = {u \in Units : Owner[slots][u] = proc[p].slot}
        /\ \A p \in Procs \ up : proc[p].owned = {}
    BY SettledOwns
  <2>2. up \subseteq Procs
    OBVIOUS
  <2> HIDE DEF slots, up
  <2>3. ASSUME NEW u \in Units PROVE Cardinality({p \in Procs : u \in proc[p].owned}) = 1
    <3>1. PICK p \in up : proc[p].slot = Owner[slots][u]
      BY <2>1, OwnerIs
    <3>2. {q \in Procs : u \in proc[q].owned} = {p}
      BY <2>1, <2>2, <3>1
    <3> QED BY <3>2, FS_Singleton
  <2>4. IsFiniteSet(up) /\ Cardinality(up) = Cardinality(slots)
    <3> DEFINE f == [s \in slots |-> CHOOSE p \in up : proc[p].slot = s]
    <3>1. \A s \in slots : f[s] \in up /\ proc[f[s]].slot = s
      BY <2>1
    <3>2. f \in [slots -> up]
      BY <3>1
    <3> HIDE DEF f
    <3>3. \A p \in up : \E s \in slots : f[s] = p
      BY <2>1, <3>1
    <3>4. f \in Bijection(slots, up)
      BY <3>1, <3>2, <3>3 DEF Bijection, Injection, Surjection, IsInjective
    <3>5. ExistsBijection(slots, up)
      BY <3>4 DEF ExistsBijection
    <3>6. IsFiniteSet(slots)
      BY <2>1, Finite, FS_Subset
    <3> QED BY <3>5, <3>6, FS_Bijection
  <2>5. ASSUME NEW p \in up
        PROVE  Cardinality(up) * Cardinality(proc[p].owned \cap Configured) < Cardinality(Configured) + Cardinality(up)
    <3> DEFINE mine == proc[p].owned \cap Configured
               n == Cardinality(mine)
               m == Cardinality(slots)
               k == Cap(Configured, slots)
               x == Cardinality(Configured)
    <3>1. mine = {u \in Configured : Owner[slots][u] = proc[p].slot}
      BY <2>1 DEF Units
    <3>2. n <= k
      BY <2>1, <3>1, OwnerIs
    <3>3. n \in Nat
      BY Finite, FS_Subset, FS_CardinalityType
    <3>4. k \in Nat /\ m \in Nat \ {0} /\ x \in Nat /\ k * m < x + m
      BY <2>1, CapIs DEF Units
    <3> HIDE DEF n, m, k, x
    <3>5. m * n <= k * m
      BY <3>2, <3>3, <3>4
    <3>6. m * n < x + m
      BY <3>3, <3>4, <3>5
    <3> QED BY <2>4, <3>6 DEF n, m, x
  <2> QED BY <2>3, <2>5 DEF Agreement, up
<1> QED BY <1>1, MemberAlways, PTL
=============================================================================
