------------------------- MODULE IngestDedupeProofs -------------------------
(***************************************************************************)
(* Proofs about IngestDedupe, for every set of clients, ids, windows and   *)
(* retentions and every bound:                                             *)
(*   - TypeCorrect: the type invariant;                                    *)
(*   - Exclusion: two requests never hold live claims on one id;           *)
(*   - Retained: a committed id is not granted before its retention ends.  *)
(*   - NoneOrphaned: a claim in memory has a holder or was left to lapse;  *)
(*   - AcceptedQueued: every record of a window answered 200 is queued.    *)
(***************************************************************************)
EXTENDS IngestDedupe, TLAPS, WellFoundedInduction

\* The least record of a non-empty set of records is one of them.
LEMMA FirstInSet ==
    ASSUME NEW S, S \subseteq Nat, S # {}
    PROVE  First(S) \in S
<1> DEFINE R == OpToRel(<, Nat)
<1>1. \E x \in S : \A y \in S : ~ (<<y, x>> \in R)
  <2>1. IsWellFoundedOn(R, Nat)
    BY NatLessThanWellFounded
  <2> HIDE DEF R
  <2> QED BY <2>1, WFMin
<1>2. PICK x \in S : \A y \in S : ~ (<<y, x>> \in R)
  BY <1>1
<1>3. \A y \in S : ~ (y < x)
  BY <1>2 DEF OpToRel
<1>4. \A y \in S : x <= y
  BY <1>3
<1> QED BY <1>4 DEF First

\* Windows are non-empty, so record 1 exists and records are naturals.
LEMMA WindowFacts ==
    ASSUME TypeOK, NEW r \in Clients
    PROVE  /\ win[r] \in Seq(Ids) /\ Len(win[r]) \in Nat \ {0}
           /\ 1 \in Records(r) /\ Records(r) \subseteq Nat
           /\ \A i \in Records(r) : win[r][i] \in Ids
<1>1. win[r] \in Seq(Ids) \ {<<>>}
  BY ConstantsAssumption DEF TypeOK, ControlType
<1>2. Len(win[r]) \in Nat \ {0}
  BY <1>1
<1> QED BY <1>1, <1>2 DEF Records

-----------------------------------------------------------------------------
(* Type correctness.                                                       *)

\* Initial states are well typed.
LEMMA TypeInit == Init => TypeOK
<1> SUFFICES ASSUME Init PROVE TypeOK
  OBVIOUS
<1>1. ASSUME NEW r \in Clients PROVE 1 \in Records(r)
  <2>1. win[r] \in Seq(Ids) \ {<<>>}
    BY ConstantsAssumption DEF Init
  <2>2. Len(win[r]) \in Nat /\ Len(win[r]) >= 1
    BY <2>1
  <2> QED BY <2>2 DEF Records
<1>2. \A r \in Clients : Blank(r) \in [Records(r) -> RecVals]
  BY DEF Blank, Rec, RecVals, NoClaim, Claims
<1>3. NoPending \in PendingVals /\ Absent \in DiskVals /\ Version0 \in DiskVals
  BY DEF NoPending, PendingVals, Absent, Version0, DiskVals
<1>4. StoreType
  BY <1>3 DEF Init, StoreType, Settings
<1>5. ControlType
  BY <1>1, ConstantsAssumption DEF Init, ControlType, Phases, Answers
<1>6. WindowType
  BY <1>2 DEF Init, WindowType
<1>7. HistoryType
  BY DEF Init, HistoryType
<1> QED BY <1>4, <1>5, <1>6, <1>7 DEF TypeOK

\* Moving to the next record, or to the next phase, stays within the window.
LEMMA NextRecordType ==
    ASSUME TypeOK, NEW r \in Clients, NEW phase \in Phases, NextRecord(r, phase)
    PROVE  /\ pc' \in [Clients -> Phases]
           /\ pos' \in [Clients -> Nat] /\ \A s \in Clients : pos'[s] \in Records(s)
<1>1. /\ Len(win[r]) \in Nat \ {0} /\ Records(r) = 1..Len(win[r]) /\ pos[r] \in Records(r)
      /\ pc \in [Clients -> Phases] /\ pos \in [Clients -> Nat]
      /\ \A s \in Clients : pos[s] \in Records(s)
  BY WindowFacts DEF Records, TypeOK, ControlType
<1>2. CASE pos[r] < Len(win[r])
  <2>1. pos' = [pos EXCEPT ![r] = pos[r] + 1] /\ pc' = pc
    BY <1>2 DEF NextRecord
  <2>2. pos[r] + 1 \in Records(r) /\ pos[r] + 1 \in Nat
    BY <1>1, <1>2
  <2> QED BY <1>1, <2>1, <2>2
<1>3. CASE ~(pos[r] < Len(win[r]))
  <2>1. pos' = [pos EXCEPT ![r] = 1] /\ pc' = [pc EXCEPT ![r] = phase]
    BY <1>3 DEF NextRecord
  <2> QED BY <1>1, <2>1
<1> QED BY <1>2, <1>3

\* Start keeps the types.
LEMMA StartType ==
    ASSUME TypeOK, NEW r \in Clients, Start(r)
    PROVE  TypeOK'
<1>1. StoreType'
  BY DEF TypeOK, StoreType, Start, storeVars
<1>2. ControlType'
  BY DEF TypeOK, ControlType, Start, Records, Phases, Answers
<1>3. WindowType'
  BY DEF TypeOK, WindowType, Start, Records
<1>4. HistoryType'
  BY DEF TypeOK, HistoryType, Start, Spend, histVars, Kinds
<1> QED BY <1>1, <1>2, <1>3, <1>4 DEF TypeOK

\* PrepareRecord keeps the types.
LEMMA PrepareRecordType ==
    ASSUME TypeOK, NEW r \in Clients, PrepareRecord(r)
    PROVE  TypeOK'
<1>1. StoreType'
  BY DEF TypeOK, StoreType, PrepareRecord, storeVars
<1>2. ControlType'
  BY NextRecordType DEF TypeOK, ControlType, PrepareRecord, Records, Phases
<1>3. WindowType'
  <2>1. Rec(setting.enabled, setting.retention) \in RecVals
    BY ConstantsAssumption DEF TypeOK, StoreType, Settings, Rec, RecVals, NoClaim, Claims
  <2> QED BY <2>1 DEF TypeOK, ControlType, WindowType, PrepareRecord, Records
<1>4. HistoryType'
  BY DEF TypeOK, HistoryType, PrepareRecord, histVars
<1> QED BY <1>1, <1>2, <1>3, <1>4 DEF TypeOK

\* BeginReserve keeps the types.
LEMMA BeginReserveType ==
    ASSUME TypeOK, NEW r \in Clients, BeginReserve(r)
    PROVE  TypeOK'
<1>1. StoreType'
  BY DEF TypeOK, StoreType, BeginReserve, storeVars
<1>2. ControlType'
  <2>1. t0' \in [Clients -> Nat]
    BY DEF TypeOK, StoreType, ControlType, BeginReserve
  <2>2. pc' \in [Clients -> Phases] /\ answer' \in [Clients -> Answers]
    BY DEF TypeOK, ControlType, BeginReserve, Phases, Answers
  <2> QED BY <2>1, <2>2 DEF TypeOK, ControlType, BeginReserve, Records
<1>3. WindowType'
  BY DEF TypeOK, WindowType, BeginReserve, Records
<1>4. HistoryType'
  BY DEF TypeOK, HistoryType, BeginReserve, histVars
<1> QED BY <1>1, <1>2, <1>3, <1>4 DEF TypeOK

\* A claim Reserve answers, and the pending map it leaves.
LEMMA ReserveKeyType ==
    ASSUME TypeOK, NEW r \in Clients, ReserveKey(r)
    PROVE  TypeOK'
<1> DEFINE i == pos[r]
           k == win[r][i]
           asked == recs[r][i].keyed /\ ~Repeated(r, i)
           status == IF asked THEN ReserveStatus(k, t0[r])
                     ELSE IF recs[r][i].keyed THEN "duplicate" ELSE "none"
           took == status = "claimed"
           claim == [status |-> status,
                     token |-> IF took THEN tokens + 1 ELSE 0,
                     expires |-> IF took THEN t0[r] + Lease ELSE 0]
<1>1. i \in Records(r) /\ k \in Ids
  BY WindowFacts DEF TypeOK, ControlType
<1>2. claim \in Claims
  <2>1. status \in {"none", "claimed", "duplicate", "inflight"}
    BY DEF ReserveStatus
  <2>2. t0[r] \in Nat /\ tokens \in Nat /\ Lease \in Nat
    BY ConstantsAssumption DEF TypeOK, StoreType, ControlType
  <2> QED BY <2>1, <2>2 DEF Claims
<1>3. PICK kept \in {pending, SweepPending(pending, t0[r])} :
          pending' = IF took THEN [kept EXCEPT ![k] = [token |-> claim.token, expires |-> claim.expires]]
                     ELSE kept
  BY DEF ReserveKey
<1>4. pending' \in [Ids -> PendingVals]
  <2>1. kept \in [Ids -> PendingVals]
    BY <1>3 DEF TypeOK, StoreType, SweepPending, PendingVals, NoPending
  <2>2. [token |-> claim.token, expires |-> claim.expires] \in PendingVals
    BY <1>2 DEF Claims, PendingVals
  <2> HIDE DEF claim, took
  <2> QED BY <1>3, <2>1, <2>2
<1>5. StoreType'
  <2>1. tokens' \in Nat
    BY DEF ReserveKey, TypeOK, StoreType
  <2> QED BY <1>4, <2>1 DEF TypeOK, StoreType, ReserveKey
<1>6. ControlType'
  BY NextRecordType DEF TypeOK, ControlType, ReserveKey, Records, Phases
<1>7. WindowType'
  <2>1. recs' = [recs EXCEPT ![r][i].claim = claim]
    BY DEF ReserveKey
  <2> HIDE DEF claim, i
  <2>2. \A s \in Clients : recs'[s] \in [Records(s) -> RecVals]
    BY <1>1, <1>2, <2>1 DEF TypeOK, WindowType, RecVals
  <2> QED BY <2>1, <2>2 DEF TypeOK, WindowType, ReserveKey, Records
<1>8. HistoryType'
  BY <1>1 DEF TypeOK, HistoryType, ReserveKey
<1> QED BY <1>5, <1>6, <1>7, <1>8 DEF TypeOK

\* ReserveFails keeps the types.
LEMMA ReserveFailsType ==
    ASSUME TypeOK, NEW r \in Clients, ReserveFails(r)
    PROVE  TypeOK'
<1>1. StoreType'
  BY DEF TypeOK, StoreType, ReserveFails, storeVars
<1>2. ControlType'
  BY DEF TypeOK, ControlType, ReserveFails, Records, Phases, Answers
<1>3. WindowType'
  BY DEF TypeOK, WindowType, ReserveFails, AbortedClaims, ClaimedIn, Records
<1>4. HistoryType'
  BY DEF TypeOK, HistoryType, ReserveFails, histVars
<1> QED BY <1>1, <1>2, <1>3, <1>4 DEF TypeOK

\* Decide keeps the types.
LEMMA DecideType ==
    ASSUME TypeOK, NEW r \in Clients, Decide(r)
    PROVE  TypeOK'
<1>1. StoreType'
  BY DEF TypeOK, StoreType, Decide, storeVars
<1>2. ControlType'
  BY DEF TypeOK, ControlType, Decide, Records, Phases, Answers
<1>3. WindowType'
  BY DEF TypeOK, WindowType, Decide, AbortedClaims, ClaimedIn, Records
<1>4. HistoryType'
  BY DEF TypeOK, HistoryType, Decide, histVars
<1> QED BY <1>1, <1>2, <1>3, <1>4 DEF TypeOK

\* What the queue becomes by a publish is a queue.
LEMMA QueuedType ==
    ASSUME TypeOK, NEW k \in Ids, NEW claimed \in BOOLEAN
    PROVE  Queued(queue, k, claimed) \in [Ids -> [n : Nat, at : Nat, any : BOOLEAN]]
<1>1. now \in Nat /\ queue \in [Ids -> [n : Nat, at : Nat, any : BOOLEAN]]
  BY DEF TypeOK, StoreType, HistoryType
<1>2. [queue EXCEPT ![k].any = TRUE] \in [Ids -> [n : Nat, at : Nat, any : BOOLEAN]]
  BY <1>1
<1>3. [queue EXCEPT ![k] = [n |-> queue[k].n + 1, at |-> now, any |-> TRUE]]
          \in [Ids -> [n : Nat, at : Nat, any : BOOLEAN]]
  <2>1. [n |-> queue[k].n + 1, at |-> now, any |-> TRUE] \in [n : Nat, at : Nat, any : BOOLEAN]
    BY <1>1
  <2> QED BY <1>1, <2>1
<1> QED BY <1>1, <1>2, <1>3 DEF Queued

\* The records a failed publish settles are records of the window.
LEMMA FailureClaims ==
    ASSUME TypeOK, NEW r \in Clients, NEW definite \in BOOLEAN
    PROVE  /\ PublishedClaims(r) \subseteq Records(r)
           /\ UnsentClaims(r, definite) \subseteq Records(r)
           /\ PublishedClaims(r) \cap UnsentClaims(r, definite) = {}
<1>1. pos[r] \in Nat /\ pos[r] \in 1..Len(win[r]) /\ Len(win[r]) \in Nat
  BY WindowFacts DEF TypeOK, ControlType, Records
<1> QED BY <1>1 DEF PublishedClaims, UnsentClaims, ClaimedIn, Records

\* Publish keeps the types.
LEMMA PublishType ==
    ASSUME TypeOK, NEW r \in Clients, Publish(r)
    PROVE  TypeOK'
<1>1. StoreType'
  BY DEF TypeOK, StoreType, Publish, storeVars
<1>2. ControlType'
  <2>1. answer' \in [Clients -> Answers]
    BY DEF TypeOK, ControlType, Publish, Answers
  <2> QED BY <2>1, NextRecordType DEF TypeOK, ControlType, Publish, Records, Phases
<1>3. WindowType'
  BY DEF TypeOK, WindowType, Publish, ClaimedIn, Records
<1>4. HistoryType'
  <2>1. win[r][pos[r]] \in Ids
    BY WindowFacts DEF TypeOK, ControlType
  <2>2. queue' \in [Ids -> [n : Nat, at : Nat, any : BOOLEAN]]
    BY <2>1, QueuedType DEF TypeOK, HistoryType, Publish
  <2> QED BY <2>2 DEF TypeOK, HistoryType, Publish, histVars
<1> QED BY <1>1, <1>2, <1>3, <1>4 DEF TypeOK

\* PublishRefused keeps the types.
LEMMA PublishRefusedType ==
    ASSUME TypeOK, NEW r \in Clients, PublishRefused(r)
    PROVE  TypeOK'
<1>1. StoreType'
  BY DEF TypeOK, StoreType, PublishRefused, storeVars
<1>2. ControlType'
  BY DEF TypeOK, ControlType, PublishRefused, Records, Phases, Answers
<1>3. WindowType'
  BY FailureClaims DEF TypeOK, WindowType, PublishRefused, Records
<1>4. HistoryType'
  BY DEF TypeOK, HistoryType, PublishRefused, histVars
<1> QED BY <1>1, <1>2, <1>3, <1>4 DEF TypeOK

\* Tokens of claims are naturals.
LEMMA TokensOfType ==
    ASSUME TypeOK, NEW r \in Clients, NEW S, S \subseteq Records(r)
    PROVE  TokensOf(r, S) \subseteq Nat
BY DEF TypeOK, WindowType, TokensOf, RecVals, Claims

\* PublishLost keeps the types.
LEMMA PublishLostType ==
    ASSUME TypeOK, NEW r \in Clients, PublishLost(r)
    PROVE  TypeOK'
<1>0. pos[r] \in Records(r) /\ win[r][pos[r]] \in Ids
  BY WindowFacts DEF TypeOK, ControlType
<1>1. StoreType'
  BY DEF TypeOK, StoreType, PublishLost, storeVars
<1>2. ControlType'
  BY DEF TypeOK, ControlType, PublishLost, Records, Phases, Answers
<1>3. WindowType'
  BY FailureClaims DEF TypeOK, WindowType, PublishLost, Records
<1>4. HistoryType'
  <2>1. queue' \in [Ids -> [n : Nat, at : Nat, any : BOOLEAN]]
    BY <1>0, QueuedType DEF TypeOK, HistoryType, PublishLost
  <2>2. lapsing' \subseteq Nat
    <3>1. ClaimedIn(r, {pos[r]}) \subseteq Records(r)
      BY <1>0 DEF ClaimedIn
    <3> QED BY <3>1, TokensOfType DEF TypeOK, HistoryType, PublishLost
  <2>3. used' \in [Kinds -> Nat]
    BY DEF TypeOK, HistoryType, PublishLost, Spend, Kinds
  <2> QED BY <2>1, <2>2, <2>3 DEF TypeOK, HistoryType, PublishLost
<1> QED BY <1>1, <1>2, <1>3, <1>4 DEF TypeOK

\* The retention of the group a Commit writes is a natural, and so is the
\* expiry it stores.
LEMMA CommitFacts ==
    ASSUME TypeOK, NEW r \in Clients, toCommit[r] # {}
    PROVE  /\ First(toCommit[r]) \in toCommit[r]
           /\ recs[r][First(toCommit[r])].retention \in Nat
           /\ CommitGroup(r) \subseteq toCommit[r] /\ CommitGroup(r) \subseteq Records(r)
           /\ CommitGroup(r) # {}
<1>1. toCommit[r] \subseteq Records(r) /\ toCommit[r] \subseteq Nat
  BY WindowFacts DEF TypeOK, WindowType
<1>2. First(toCommit[r]) \in toCommit[r]
  BY <1>1, FirstInSet
<1>3. recs[r][First(toCommit[r])].retention \in Nat
  BY <1>1, <1>2 DEF TypeOK, WindowType, RecVals
<1> QED BY <1>1, <1>2, <1>3 DEF CommitGroup

\* A stored expiry is a natural, saturated included.
LEMMA ExpiryType ==
    ASSUME NEW n \in Nat, NEW retention \in Nat
    PROVE  CommitVal(Expiry(n, retention)) \in DiskVals
BY ConstantsAssumption DEF Expiry, CommitVal, DiskVals

\* CommitWrite keeps the types.
LEMMA CommitWriteType ==
    ASSUME TypeOK, NEW r \in Clients, CommitWrite(r)
    PROVE  TypeOK'
<1> DEFINE ret == recs[r][First(toCommit[r])].retention
<1>0. ret \in Nat /\ now \in Nat /\ CommitGroup(r) \subseteq Records(r) /\ MaxInt \in Nat
  BY CommitFacts, ConstantsAssumption DEF CommitWrite, TypeOK, StoreType
<1>1. StoreType'
  <2>1. disk' \in [Ids -> DiskVals]
    BY <1>0, ExpiryType DEF TypeOK, StoreType, CommitWrite
  <2>2. unsynced' \in [Ids -> DiskVals]
    BY DEF CommitWrite, Absent, DiskVals
  <2> QED BY <2>1, <2>2 DEF TypeOK, StoreType, CommitWrite
<1>2. ControlType'
  BY DEF TypeOK, ControlType, CommitWrite, Records, Phases
<1>3. WindowType'
  BY <1>0 DEF TypeOK, WindowType, CommitWrite, Records
<1>4. HistoryType'
  <2>1. promise' \in [Ids -> Nat]
    BY <1>0 DEF TypeOK, HistoryType, CommitWrite
  <2> QED BY <2>1 DEF TypeOK, HistoryType, CommitWrite
<1> QED BY <1>1, <1>2, <1>3, <1>4 DEF TypeOK

\* CommitFails keeps the types.
LEMMA CommitFailsType ==
    ASSUME TypeOK, NEW r \in Clients, CommitFails(r)
    PROVE  TypeOK'
<1>1. StoreType'
  BY DEF TypeOK, StoreType, CommitFails, storeVars
<1>2. ControlType'
  BY DEF TypeOK, ControlType, CommitFails, Records
<1>3. WindowType'
  BY DEF TypeOK, WindowType, CommitFails, Records
<1>4. HistoryType'
  <2>1. lapsing' \subseteq Nat
    BY CommitFacts, TokensOfType DEF TypeOK, HistoryType, CommitFails
  <2> QED BY <2>1 DEF TypeOK, HistoryType, CommitFails
<1> QED BY <1>1, <1>2, <1>3, <1>4 DEF TypeOK

\* Dropping an entry leaves a map of pending claims.
LEMMA DroppedType ==
    ASSUME TypeOK, NEW r, NEW i
    PROVE  Dropped(pending, r, i) \in [Ids -> PendingVals]
<1>1. NoPending \in PendingVals
  BY DEF NoPending, PendingVals
<1> QED BY <1>1 DEF TypeOK, StoreType, Dropped

\* CommitDrop keeps the types.
LEMMA CommitDropType ==
    ASSUME TypeOK, NEW r \in Clients, CommitDrop(r)
    PROVE  TypeOK'
<1>1. StoreType'
  BY DroppedType DEF TypeOK, StoreType, CommitDrop
<1>2. ControlType'
  BY DEF TypeOK, ControlType, CommitDrop, Records, Phases
<1>3. WindowType'
  BY DEF TypeOK, WindowType, CommitDrop, Records
<1>4. HistoryType'
  BY DEF TypeOK, HistoryType, CommitDrop, histVars
<1> QED BY <1>1, <1>2, <1>3, <1>4 DEF TypeOK

\* BeginRelease keeps the types.
LEMMA BeginReleaseType ==
    ASSUME TypeOK, NEW r \in Clients, BeginRelease(r)
    PROVE  TypeOK'
<1>1. StoreType'
  BY DEF TypeOK, StoreType, BeginRelease, storeVars
<1>2. ControlType'
  BY DEF TypeOK, ControlType, BeginRelease, Records, Phases
<1>3. WindowType'
  BY DEF TypeOK, WindowType, BeginRelease, Records
<1>4. HistoryType'
  <2>1. lapsing' \subseteq Nat
    <3>1. toRelease[r] \subseteq Records(r)
      BY DEF TypeOK, WindowType
    <3> QED BY <3>1, TokensOfType DEF TypeOK, HistoryType, BeginRelease
  <2> QED BY <2>1 DEF TypeOK, HistoryType, BeginRelease
<1> QED BY <1>1, <1>2, <1>3, <1>4 DEF TypeOK

\* ReleaseClaim keeps the types.
LEMMA ReleaseClaimType ==
    ASSUME TypeOK, NEW r \in Clients, ReleaseClaim(r)
    PROVE  TypeOK'
<1>1. StoreType'
  BY DroppedType DEF TypeOK, StoreType, ReleaseClaim
<1>2. ControlType'
  BY DEF TypeOK, ControlType, ReleaseClaim, Records, Phases
<1>3. WindowType'
  BY DEF TypeOK, WindowType, ReleaseClaim, Records
<1>4. HistoryType'
  BY DEF TypeOK, HistoryType, ReleaseClaim, histVars
<1> QED BY <1>1, <1>2, <1>3, <1>4 DEF TypeOK

\* A retry time is a pair of instants.
LEMMA RetryAfterType ==
    ASSUME TypeOK, NEW a
    PROVE  RetryAfter(a) \in [from : Nat, by : Nat]
BY ConstantsAssumption DEF TypeOK, StoreType, RetryAfter

\* The records of a request not begun.
LEMMA BlankType ==
    ASSUME NEW r
    PROVE  Blank(r) \in [Records(r) -> RecVals]
BY DEF Blank, Rec, RecVals, NoClaim, Claims

\* Answer keeps the types.
LEMMA AnswerType ==
    ASSUME TypeOK, NEW r \in Clients, Answer(r)
    PROVE  TypeOK'
<1>1. StoreType'
  BY DEF TypeOK, StoreType, Answer, storeVars
<1>2. ControlType'
  <2>1. pos' \in [Clients -> Nat] /\ \A s \in Clients : pos'[s] \in Records(s)
    BY WindowFacts DEF TypeOK, ControlType, Answer
  <2>2. pc' \in [Clients -> Phases] /\ t0' \in [Clients -> Nat]
    BY DEF TypeOK, ControlType, Answer, Phases
  <2>3. retry' \in [Clients -> [from : Nat, by : Nat]]
    BY RetryAfterType DEF TypeOK, ControlType, Answer
  <2> QED BY <2>1, <2>2, <2>3 DEF TypeOK, ControlType, Answer, Records
<1>3. WindowType'
  <2>1. \A s \in Clients : recs'[s] \in [Records(s) -> RecVals]
    BY BlankType DEF TypeOK, WindowType, Answer
  <2> QED BY <2>1 DEF TypeOK, WindowType, Answer, Records
<1>4. HistoryType'
  BY DEF TypeOK, HistoryType, Answer, histVars
<1> QED BY <1>1, <1>2, <1>3, <1>4 DEF TypeOK

\* The actors beside the requests.
LEMMA StoreActorsType ==
    ASSUME TypeOK, SweepScan \/ SweepDelete \/ Reload \/ Apply \/ Tick
    PROVE  TypeOK'
<1>1. StoreType'
  <2>1. CASE SweepScan
    BY <2>1 DEF TypeOK, StoreType, SweepScan
  <2>2. CASE SweepDelete
    BY <2>2 DEF TypeOK, StoreType, SweepDelete, Absent, DiskVals
  <2>3. CASE Reload
    BY <2>3 DEF TypeOK, StoreType, Reload
  <2>4. CASE Apply
    <3>1. enabled' \in BOOLEAN /\ opened' \in BOOLEAN
      BY <2>4 DEF TypeOK, StoreType, Settings, Apply
    <3> QED BY <2>4, <3>1 DEF TypeOK, StoreType, Apply
  <2>5. CASE Tick
    BY <2>5 DEF TypeOK, StoreType, Tick, storeVars
  <2> QED BY <2>1, <2>2, <2>3, <2>4, <2>5
<1>2. ControlType'
  BY DEF TypeOK, ControlType, Records, reqVars, SweepScan, SweepDelete, Reload, Apply, Tick
<1>3. WindowType'
  BY DEF TypeOK, WindowType, Records, reqVars, SweepScan, SweepDelete, Reload, Apply, Tick
<1>4. HistoryType'
  BY DEF TypeOK, HistoryType, histVars, SweepScan, SweepDelete, Reload, Apply, Tick, Spend
<1> QED BY <1>1, <1>2, <1>3, <1>4 DEF TypeOK

\* Crash keeps the types.
LEMMA CrashType ==
    ASSUME TypeOK, Crash
    PROVE  TypeOK'
<1>1. StoreType'
  <2>1. enabled' \in BOOLEAN /\ opened' \in BOOLEAN
    BY DEF TypeOK, StoreType, Settings, Crash
  <2>2. disk' \in [Ids -> DiskVals] /\ unsynced' \in [Ids -> DiskVals]
    BY DEF TypeOK, StoreType, Crash, Absent, DiskVals
  <2>3. pending' \in [Ids -> PendingVals]
    BY DEF Crash, NoPending, PendingVals
  <2> QED BY <2>1, <2>2, <2>3 DEF TypeOK, StoreType, Crash
<1>2. ControlType'
  <2>1. pos' \in [Clients -> Nat] /\ \A s \in Clients : pos'[s] \in Records(s)
    BY WindowFacts DEF Crash
  <2>2. pc' \in [Clients -> Phases] /\ t0' \in [Clients -> Nat] /\ answer' \in [Clients -> Answers]
    BY DEF TypeOK, ControlType, Crash, Phases, Answers
  <2>3. retry' \in [Clients -> [from : Nat, by : Nat]]
    BY RetryAfterType DEF TypeOK, ControlType, Crash
  <2> QED BY <2>1, <2>2, <2>3 DEF TypeOK, ControlType, Crash, Records
<1>3. WindowType'
  <2>1. \A s \in Clients : recs'[s] \in [Records(s) -> RecVals]
    BY BlankType DEF Crash
  <2> QED BY <2>1 DEF WindowType, Crash, Records
<1>4. HistoryType'
  BY DEF TypeOK, HistoryType, Crash, Spend, Kinds
<1> QED BY <1>1, <1>2, <1>3, <1>4 DEF TypeOK

\* Every step keeps the types.
LEMMA TypeNext == TypeOK /\ [Next]_vars => TypeOK'
<1> SUFFICES ASSUME TypeOK, [Next]_vars PROVE TypeOK'
  OBVIOUS
<1>1. ASSUME NEW r \in Clients, Request(r) PROVE TypeOK'
  BY <1>1, StartType, PrepareRecordType, BeginReserveType, ReserveKeyType, ReserveFailsType,
     DecideType, PublishType, PublishRefusedType, PublishLostType, CommitWriteType,
     CommitFailsType, CommitDropType, BeginReleaseType, ReleaseClaimType, AnswerType DEF Request
<1>2. ASSUME UNCHANGED vars PROVE TypeOK'
  BY <1>2 DEF vars, storeVars, reqVars, histVars, TypeOK, StoreType, ControlType, WindowType,
              HistoryType, Records
<1> QED BY <1>1, <1>2, StoreActorsType, CrashType DEF Next

\* Type correctness: every reachable state of the handler, the store, the
\* sweep and the queue keeps the types, records and indices included.
THEOREM TypeCorrect == Spec => []TypeOK
BY TypeInit, TypeNext, PTL DEF Spec

-----------------------------------------------------------------------------
(* Mutual exclusion.  ClaimsExclusive is not inductive: that a live claim  *)
(* excludes another needs the pending entry to be the holder's, which      *)
(* needs tokens to be unique, the records to be settled once, and the      *)
(* instant a Reserve works at to be no later than now.                     *)

Claimed(r, i) == recs[r][i].claim.status = "claimed"

PhaseInv ==
    \A r \in Clients :
        /\ pc[r] \notin {"settle", "drop", "release"} => toCommit[r] = {} /\ toRelease[r] = {}
        /\ pc[r] = "drop" <=> toDrop[r] # {}
        /\ toCommit[r] \cap toDrop[r] = {}
        /\ toCommit[r] \cap toRelease[r] = {}
        /\ toDrop[r] \cap toRelease[r] = {}
        /\ \A i \in toCommit[r] \cup toDrop[r] \cup toRelease[r] : Claimed(r, i)
        /\ pc[r] \in {"idle", "prepare", "begin"} => \A i \in Records(r) : ~Claimed(r, i)
        /\ t0[r] <= now

TokenInv ==
    /\ \A k \in Ids : pending[k].token <= tokens
    /\ \A r \in Clients : \A i \in Records(r) :
           Claimed(r, i) => recs[r][i].claim.token \in 1..tokens
    /\ \A r, s \in Clients : \A i \in Records(r) : \A j \in Records(s) :
           Claimed(r, i) /\ Claimed(s, j) /\ recs[r][i].claim.token = recs[s][j].claim.token
               => r = s /\ i = j

HoldInv ==
    \A r \in Clients : \A i \in Records(r) : LiveHold(r, i) =>
        /\ pending[win[r][i]].token = recs[r][i].claim.token
        /\ pending[win[r][i]].expires = recs[r][i].claim.expires

ClaimInv == PhaseInv /\ TokenInv /\ HoldInv

\* Nothing is claimed initially.
LEMMA ClaimInit == Init => ClaimInv
<1> SUFFICES ASSUME Init PROVE ClaimInv
  OBVIOUS
<1>1. \A r \in Clients : \A i \in Records(r) : ~Claimed(r, i)
  BY DEF Init, Claimed, Blank, Rec, NoClaim
<1>2. PhaseInv
  <2>1. \A r \in Clients : /\ pc[r] = "idle" /\ t0[r] = 0 /\ now = 0
                           /\ toCommit[r] = {} /\ toDrop[r] = {} /\ toRelease[r] = {}
    BY DEF Init
  <2>2. ASSUME NEW r \in Clients
        PROVE  /\ pc[r] \notin {"settle", "drop", "release"} => toCommit[r] = {} /\ toRelease[r] = {}
               /\ pc[r] = "drop" <=> toDrop[r] # {}
               /\ toCommit[r] \cap toDrop[r] = {}
               /\ toCommit[r] \cap toRelease[r] = {}
               /\ toDrop[r] \cap toRelease[r] = {}
               /\ \A i \in toCommit[r] \cup toDrop[r] \cup toRelease[r] : Claimed(r, i)
               /\ t0[r] <= now
    BY <2>1
  <2>3. \A r \in Clients : pc[r] \in {"idle", "prepare", "begin"} => \A i \in Records(r) : ~Claimed(r, i)
    BY <1>1
  <2> QED BY <2>2, <2>3, Zenon DEF PhaseInv
<1>3. TokenInv
  BY <1>1 DEF Init, TokenInv, NoPending
<1>4. HoldInv
  BY <1>1 DEF HoldInv, LiveHold, Holds, Claimed
<1> QED BY <1>2, <1>3, <1>4 DEF ClaimInv

\* A step that neither grants nor drops a claim, and after which requests hold
\* at most the claims they held.
LEMMA NoNewHold ==
    ASSUME ClaimInv,
           UNCHANGED <<win, recs, pending, tokens, now>>,
           \A s \in Clients : \A j \in Records(s) : Holds(s, j)' => Holds(s, j)
    PROVE  TokenInv' /\ HoldInv'
<1>1. TokenInv'
  BY DEF ClaimInv, TokenInv, Claimed, Records
<1>2. HoldInv'
  BY DEF ClaimInv, HoldInv, LiveHold, Records
<1> QED BY <1>1, <1>2

\* Start keeps the claim invariant.
LEMMA StartClaims ==
    ASSUME TypeOK, ClaimInv, NEW r \in Clients, Start(r)
    PROVE  ClaimInv'
<1>1. \A s \in Clients : \A j \in Records(s) : Holds(s, j)' => Holds(s, j)
  BY DEF TypeOK, ControlType, Start, Holds
<1>2. TokenInv' /\ HoldInv'
  BY <1>1, NoNewHold DEF Start, storeVars
<1>3. PhaseInv'
  BY DEF TypeOK, ControlType, ClaimInv, PhaseInv, Start, Claimed, Records
<1> QED BY <1>2, <1>3 DEF ClaimInv

\* PrepareRecord keeps the claim invariant.
LEMMA PrepareRecordClaims ==
    ASSUME TypeOK, ClaimInv, NEW r \in Clients, PrepareRecord(r)
    PROVE  ClaimInv'
<1>1. /\ \A s \in Clients \ {r} : recs'[s] = recs[s] /\ pc'[s] = pc[s]
      /\ pc[r] = "prepare" /\ pc'[r] \in {"prepare", "begin"}
      /\ UNCHANGED <<win, pending, tokens, now, t0, toCommit, toDrop, toRelease>>
  BY DEF TypeOK, ControlType, WindowType, PrepareRecord, NextRecord, storeVars
<1>2. \A i \in Records(r) : ~Claimed(r, i)
  BY <1>1 DEF ClaimInv, PhaseInv
<1>3. \A i \in Records(r) : recs'[r][i].claim.status # "claimed"
  <2>1. recs[r] \in [Records(r) -> RecVals] /\ pos[r] \in Records(r) /\ r \in DOMAIN recs
    BY DEF TypeOK, WindowType, ControlType
  <2>2. recs'[r] = [recs[r] EXCEPT ![pos[r]] = Rec(setting.enabled, setting.retention)]
    BY <2>1 DEF PrepareRecord
  <2> QED BY <1>2, <2>1, <2>2 DEF Rec, NoClaim, Claimed
<1>4. PhaseInv'
  BY <1>1, <1>3 DEF ClaimInv, PhaseInv, Claimed, Records
<1>5. TokenInv'
  <2>1. \A s \in Clients : \A j \in Records(s) :
            recs'[s][j].claim.status = "claimed" => s # r /\ recs'[s] = recs[s]
    BY <1>1, <1>3
  <2>2. \A s \in Clients : Records(s)' = Records(s)
    BY <1>1 DEF Records
  <2>3. \A k \in Ids : pending'[k].token <= tokens'
    BY <1>1 DEF ClaimInv, TokenInv
  <2>4. \A s \in Clients : \A i \in Records(s) :
            Claimed(s, i)' => Claimed(s, i) /\ recs'[s][i].claim.token = recs[s][i].claim.token
    BY <2>1 DEF Claimed
  <2> QED BY <1>1, <2>2, <2>3, <2>4 DEF ClaimInv, TokenInv
<1>6. HoldInv'
  BY <1>1, <1>3 DEF ClaimInv, HoldInv, LiveHold, Holds, Records
<1> QED BY <1>4, <1>5, <1>6 DEF ClaimInv

\* BeginReserve keeps the claim invariant.
LEMMA BeginReserveClaims ==
    ASSUME TypeOK, ClaimInv, NEW r \in Clients, BeginReserve(r)
    PROVE  ClaimInv'
<1>1. /\ \A s \in Clients \ {r} : pc'[s] = pc[s] /\ t0'[s] = t0[s]
      /\ pc[r] = "begin" /\ pc'[r] \in {"publish", "settle", "reserve"}
      /\ t0'[r] = now /\ now \in Nat
      /\ UNCHANGED <<win, recs, pending, tokens, now, toCommit, toDrop, toRelease>>
  <2>1. pc \in [Clients -> Phases] /\ t0 \in [Clients -> Nat] /\ now \in Nat
    BY DEF TypeOK, StoreType, ControlType
  <2>2. pc' = [pc EXCEPT ![r] = "publish"] \/ pc' = [pc EXCEPT ![r] = "settle"]
            \/ pc' = [pc EXCEPT ![r] = "reserve"]
    BY DEF BeginReserve
  <2> QED BY <2>1, <2>2 DEF BeginReserve, storeVars
<1>2. \A i \in Records(r) : ~Claimed(r, i)
  BY <1>1 DEF ClaimInv, PhaseInv
<1>3. \A s \in Clients : \A j \in Records(s) : Holds(s, j)' => Holds(s, j)
  BY <1>1, <1>2 DEF Holds, Claimed
<1>4. PhaseInv'
  BY <1>1, <1>2 DEF ClaimInv, PhaseInv, Claimed, Records
<1> QED BY <1>1, <1>3, <1>4, NoNewHold DEF ClaimInv

\* The heart of the argument: a claim is granted only where no live claim is,
\* because Reserve's instant is not after now; and lapsed claims are all the
\* shard's sweep removes.
LEMMA ReserveKeyClaims ==
    ASSUME TypeOK, ClaimInv, NEW r \in Clients, ReserveKey(r)
    PROVE  ClaimInv'
<1> DEFINE i == pos[r]
           k == win[r][i]
           asked == recs[r][i].keyed /\ ~Repeated(r, i)
           status == IF asked THEN ReserveStatus(k, t0[r])
                     ELSE IF recs[r][i].keyed THEN "duplicate" ELSE "none"
           took == status = "claimed"
           claim == [status |-> status,
                     token |-> IF took THEN tokens + 1 ELSE 0,
                     expires |-> IF took THEN t0[r] + Lease ELSE 0]
<1>1. /\ i \in Records(r) /\ k \in Ids /\ tokens \in Nat /\ now \in Nat /\ t0[r] \in Nat
      /\ Lease \in Nat /\ t0[r] <= now
      /\ \A s \in Clients : \A j \in Records(s) : win[s][j] \in Ids
  BY WindowFacts, ConstantsAssumption DEF TypeOK, StoreType, ControlType, ClaimInv, PhaseInv
<1>2. /\ recs' = [recs EXCEPT ![r][i].claim = claim]
      /\ tokens' = IF took THEN tokens + 1 ELSE tokens
      /\ UNCHANGED <<win, now, t0, toCommit, toDrop, toRelease>>
      /\ pc[r] = "reserve"
  BY DEF ReserveKey
<1>3. PICK kept \in {pending, SweepPending(pending, t0[r])} :
          pending' = IF took THEN [kept EXCEPT ![k] = [token |-> claim.token, expires |-> claim.expires]]
                     ELSE kept
  BY DEF ReserveKey
<1>4. \A x \in Ids : /\ kept[x] = pending[x] \/ (kept[x] = NoPending /\ pending[x].expires <= now)
                     /\ kept[x].token <= tokens
  <2>1. \A x \in Ids : /\ pending[x].expires \in Nat /\ pending[x].token \in Nat
                       /\ pending[x].token <= tokens
    BY DEF TypeOK, StoreType, PendingVals, ClaimInv, TokenInv
  <2> QED BY <1>1, <1>3, <2>1 DEF SweepPending, NoPending
<1>5. took => ~PendingLive(k, t0[r])
  BY DEF ReserveStatus
<1>6. /\ took => claim.token = tokens + 1
      /\ claim.status = "claimed" <=> took
  OBVIOUS
<1>7. \A s \in Clients : \A j \in Records(s) :
          /\ ~(s = r /\ j = i) => recs'[s][j] = recs[s][j]
          /\ recs'[r][i].claim = claim
  <2>1. /\ DOMAIN recs = Clients /\ recs[r] \in [Records(r) -> RecVals]
        /\ recs[r][i] \in RecVals
    BY <1>1 DEF TypeOK, WindowType
  <2> HIDE DEF claim, i
  <2> QED BY <1>1, <1>2, <2>1 DEF RecVals
<1>8. /\ \A s \in Clients \ {r} : pc'[s] = pc[s]
      /\ pc'[r] \in {"reserve", "decide"}
  BY <1>2 DEF ReserveKey, NextRecord, TypeOK, ControlType
<1>9. kept \in [Ids -> PendingVals]
  BY <1>3 DEF TypeOK, StoreType, SweepPending, PendingVals, NoPending
<1>10. \A x \in Ids : x # k \/ ~took => pending'[x] = kept[x]
  BY <1>1, <1>3, <1>9
<1>11. took => pending'[k] = [token |-> claim.token, expires |-> claim.expires]
  BY <1>1, <1>3, <1>9
<1> HIDE DEF claim, took, status, asked, i, k
<1>12. PhaseInv'
  BY <1>2, <1>8 DEF ClaimInv, PhaseInv, Claimed, Records
<1>13. TokenInv'
  <2>1. \A x \in Ids : pending'[x].token <= tokens'
    BY <1>1, <1>2, <1>4, <1>6, <1>9, <1>10, <1>11 DEF PendingVals
  <2>2. \A s \in Clients : \A j \in Records(s) :
            recs'[s][j].claim.status = "claimed" => recs'[s][j].claim.token \in 1..tokens'
    BY <1>1, <1>2, <1>6, <1>7 DEF ClaimInv, TokenInv, Claimed
  <2>3. \A s, u \in Clients : \A j \in Records(s) : \A m \in Records(u) :
            recs'[s][j].claim.status = "claimed" /\ recs'[u][m].claim.status = "claimed"
                /\ recs'[s][j].claim.token = recs'[u][m].claim.token
            => s = u /\ j = m
    <3>1. \A s \in Clients : \A j \in Records(s) :
              Claimed(s, j) => recs[s][j].claim.token # tokens + 1
      BY <1>1 DEF ClaimInv, TokenInv
    <3> QED BY <3>1, <1>1, <1>6, <1>7 DEF ClaimInv, TokenInv, Claimed
  <2> QED BY <2>1, <2>2, <2>3, <1>2 DEF TokenInv, Claimed, Records
<1>14. HoldInv'
  <2> SUFFICES ASSUME NEW s \in Clients, NEW j \in Records(s), LiveHold(s, j)'
               PROVE  /\ pending'[win[s][j]].token = recs'[s][j].claim.token
                      /\ pending'[win[s][j]].expires = recs'[s][j].claim.expires
    BY <1>2 DEF HoldInv, Records
  <2>1. CASE s = r /\ j = i
    <3>1. took /\ win[s][j] = k
      BY <2>1, <1>6, <1>7 DEF LiveHold, Holds, k
    <3> QED BY <2>1, <3>1, <1>7, <1>11
  <2>2. CASE ~(s = r /\ j = i)
    <3>1. LiveHold(s, j)
      BY <2>2, <1>2, <1>7, <1>8 DEF LiveHold, Holds
    <3>2. /\ pending[win[s][j]].token = recs[s][j].claim.token
          /\ pending[win[s][j]].expires = recs[s][j].claim.expires
          /\ now < pending[win[s][j]].expires
          /\ pending[win[s][j]].token # 0
          /\ pending[win[s][j]].expires \in Nat
      <4>1. Claimed(s, j)
        BY <3>1 DEF LiveHold, Holds, Claimed
      <4>2. recs[s][j].claim.token \in 1..tokens
        BY <4>1 DEF ClaimInv, TokenInv
      <4>3. pending[win[s][j]].expires \in Nat
        BY <1>1 DEF TypeOK, StoreType, PendingVals
      <4> QED BY <3>1, <4>2, <4>3, <1>1 DEF ClaimInv, HoldInv, LiveHold
    <3>3. ~(took /\ win[s][j] = k)
      BY <3>2, <1>1, <1>5 DEF PendingLive
    <3>4. kept[win[s][j]] = pending[win[s][j]]
      BY <3>2, <1>1, <1>4
    <3> QED BY <2>2, <3>2, <3>3, <3>4, <1>1, <1>7, <1>10
  <2> QED BY <2>1, <2>2
<1> QED BY <1>12, <1>13, <1>14 DEF ClaimInv

\* ReserveFails keeps the claim invariant.
LEMMA ReserveFailsClaims ==
    ASSUME TypeOK, ClaimInv, NEW r \in Clients, ReserveFails(r)
    PROVE  ClaimInv'
<1>1. /\ \A s \in Clients \ {r} : pc'[s] = pc[s] /\ toRelease'[s] = toRelease[s]
      /\ pc[r] = "reserve" /\ pc'[r] = "release"
      /\ toCommit[r] = {} /\ toDrop[r] = {}
      /\ \A i \in toRelease'[r] : Claimed(r, i)
      /\ UNCHANGED <<win, recs, pending, tokens, now, t0, toCommit, toDrop>>
  BY DEF TypeOK, ControlType, WindowType, ClaimInv, PhaseInv, ReserveFails, storeVars,
         AbortedClaims, ClaimedIn, Claimed
<1>2. \A s \in Clients : \A j \in Records(s) : Holds(s, j)' => Holds(s, j)
  BY <1>1 DEF Holds
<1>3. PhaseInv'
  BY <1>1 DEF ClaimInv, PhaseInv, Claimed, Records
<1> QED BY <1>1, <1>2, <1>3, NoNewHold DEF ClaimInv

\* Decide keeps the claim invariant.
LEMMA DecideClaims ==
    ASSUME TypeOK, ClaimInv, NEW r \in Clients, Decide(r)
    PROVE  ClaimInv'
<1>1. /\ \A s \in Clients \ {r} : pc'[s] = pc[s] /\ toRelease'[s] = toRelease[s]
      /\ pc[r] = "decide" /\ pc'[r] \in {"settle", "publish"}
      /\ pc'[r] = "publish" => toRelease'[r] = {}
      /\ toCommit[r] = {} /\ toDrop[r] = {}
      /\ \A i \in toRelease'[r] : Claimed(r, i)
      /\ UNCHANGED <<win, recs, pending, tokens, now, t0, toCommit, toDrop>>
  BY DEF TypeOK, ControlType, WindowType, ClaimInv, PhaseInv, Decide, storeVars,
         AbortedClaims, ClaimedIn, Claimed
<1>2. \A s \in Clients : \A j \in Records(s) : Holds(s, j)' => Holds(s, j)
  BY <1>1 DEF Holds
<1>3. PhaseInv'
  BY <1>1 DEF ClaimInv, PhaseInv, Claimed, Records
<1> QED BY <1>1, <1>2, <1>3, NoNewHold DEF ClaimInv

\* Publish keeps the claim invariant.
LEMMA PublishClaims ==
    ASSUME TypeOK, ClaimInv, NEW r \in Clients, Publish(r)
    PROVE  ClaimInv'
<1>1. /\ \A s \in Clients \ {r} : pc'[s] = pc[s] /\ toCommit'[s] = toCommit[s]
      /\ pc[r] = "publish" /\ pc'[r] \in {"settle", "publish"}
      /\ pc'[r] = "publish" => toCommit'[r] = {}
      /\ toRelease[r] = {} /\ toDrop[r] = {}
      /\ \A i \in toCommit'[r] : Claimed(r, i)
      /\ UNCHANGED <<win, recs, pending, tokens, now, t0, toRelease, toDrop>>
  <2>1. toCommit[r] = {} /\ toRelease[r] = {} /\ toDrop[r] = {}
    BY DEF ClaimInv, PhaseInv, Publish
  <2>2. CASE pos[r] < Len(win[r])
    BY <2>1, <2>2 DEF TypeOK, ControlType, WindowType, Publish, NextRecord, storeVars
  <2>3. CASE ~(pos[r] < Len(win[r]))
    BY <2>1, <2>3 DEF TypeOK, ControlType, WindowType, Publish, NextRecord, storeVars,
                      ClaimedIn, Claimed
  <2> QED BY <2>2, <2>3
<1>2. \A s \in Clients : \A j \in Records(s) : Holds(s, j)' => Holds(s, j)
  BY <1>1 DEF Holds
<1>3. PhaseInv'
  BY <1>1 DEF ClaimInv, PhaseInv, Claimed, Records
<1> QED BY <1>1, <1>2, <1>3, NoNewHold DEF ClaimInv

\* Both failures of a publish: the claims to commit and to release are apart.
LEMMA PublishFailedClaims ==
    ASSUME TypeOK, ClaimInv, NEW r \in Clients, PublishRefused(r) \/ PublishLost(r)
    PROVE  ClaimInv'
<1>1. /\ \A s \in Clients \ {r} :
             pc'[s] = pc[s] /\ toCommit'[s] = toCommit[s] /\ toRelease'[s] = toRelease[s]
      /\ pc[r] = "publish" /\ pc'[r] = "settle"
      /\ toDrop[r] = {}
      /\ UNCHANGED <<win, recs, pending, tokens, now, t0, toDrop>>
  BY DEF TypeOK, ControlType, WindowType, ClaimInv, PhaseInv, PublishRefused, PublishLost, storeVars
<1>2. /\ toCommit'[r] \cap toRelease'[r] = {}
      /\ \A i \in toCommit'[r] \cup toRelease'[r] : Claimed(r, i)
  <2>1. /\ toCommit'[r] = PublishedClaims(r)
        /\ toRelease'[r] = UnsentClaims(r, TRUE) \/ toRelease'[r] = UnsentClaims(r, FALSE)
    BY DEF TypeOK, WindowType, PublishRefused, PublishLost
  <2> QED BY <2>1, FailureClaims DEF PublishedClaims, UnsentClaims, ClaimedIn, Claimed
<1>3. \A s \in Clients : \A j \in Records(s) : Holds(s, j)' => Holds(s, j)
  BY <1>1 DEF Holds
<1>4. PhaseInv'
  BY <1>1, <1>2 DEF ClaimInv, PhaseInv, Claimed, Records
<1> QED BY <1>1, <1>3, <1>4, NoNewHold DEF ClaimInv

\* CommitWrite keeps the claim invariant.
LEMMA CommitWriteClaims ==
    ASSUME TypeOK, ClaimInv, NEW r \in Clients, CommitWrite(r)
    PROVE  ClaimInv'
<1>1. /\ \A s \in Clients \ {r} :
             pc'[s] = pc[s] /\ toCommit'[s] = toCommit[s] /\ toDrop'[s] = toDrop[s]
      /\ pc[r] = "settle" /\ pc'[r] = "drop"
      /\ toCommit'[r] = toCommit[r] \ CommitGroup(r) /\ toDrop'[r] = CommitGroup(r)
      /\ UNCHANGED <<win, recs, pending, tokens, now, t0, toRelease>>
  BY DEF TypeOK, ControlType, WindowType, CommitWrite
<1>2. CommitGroup(r) \subseteq toCommit[r] /\ CommitGroup(r) # {}
  BY CommitFacts DEF CommitWrite
<1>3. \A s \in Clients : \A j \in Records(s) : Holds(s, j)' => Holds(s, j)
  BY <1>1, <1>2 DEF Holds
<1>4. PhaseInv'
  BY <1>1, <1>2 DEF ClaimInv, PhaseInv, Claimed, Records
<1> QED BY <1>1, <1>3, <1>4, NoNewHold DEF ClaimInv

\* CommitFails keeps the claim invariant.
LEMMA CommitFailsClaims ==
    ASSUME TypeOK, ClaimInv, NEW r \in Clients, CommitFails(r)
    PROVE  ClaimInv'
<1>1. /\ \A s \in Clients : toCommit'[s] \subseteq toCommit[s]
      /\ UNCHANGED <<pc, win, recs, pending, tokens, now, t0, toRelease, toDrop>>
  BY DEF TypeOK, WindowType, CommitFails, storeVars
<1>2. \A s \in Clients : \A j \in Records(s) : Holds(s, j)' => Holds(s, j)
  BY <1>1 DEF Holds
<1>3. PhaseInv'
  BY <1>1 DEF ClaimInv, PhaseInv, Claimed, Records
<1> QED BY <1>1, <1>2, <1>3, NoNewHold DEF ClaimInv

\* BeginRelease keeps the claim invariant.
LEMMA BeginReleaseClaims ==
    ASSUME TypeOK, ClaimInv, NEW r \in Clients, BeginRelease(r)
    PROVE  ClaimInv'
<1>1. /\ \A s \in Clients : toRelease'[s] \subseteq toRelease[s]
      /\ \A s \in Clients \ {r} : pc'[s] = pc[s]
      /\ pc[r] = "settle" /\ pc'[r] \in {"settle", "release"}
      /\ UNCHANGED <<win, recs, pending, tokens, now, t0, toCommit, toDrop>>
  BY DEF TypeOK, ControlType, WindowType, BeginRelease, storeVars
<1>2. \A s \in Clients : \A j \in Records(s) : Holds(s, j)' => Holds(s, j)
  BY <1>1 DEF Holds
<1>3. PhaseInv'
  BY <1>1 DEF ClaimInv, PhaseInv, Claimed, Records
<1> QED BY <1>1, <1>2, <1>3, NoNewHold DEF ClaimInv

\* Dropping the entry of a claim by its token takes no one else's, tokens
\* being unique, and its own request no longer holds it.
LEMMA DroppedHold ==
    ASSUME TypeOK, ClaimInv, NEW r \in Clients, NEW i \in Records(r), Holds(r, i),
           UNCHANGED <<win, recs, tokens, now>>, pending' = Dropped(pending, r, i),
           ~Holds(r, i)',
           \A s \in Clients : \A j \in Records(s) : Holds(s, j)' => Holds(s, j)
    PROVE  TokenInv' /\ HoldInv'
<1>1. /\ Claimed(r, i) /\ win[r][i] \in Ids /\ tokens \in Nat
      /\ \A s \in Clients : \A j \in Records(s) : win[s][j] \in Ids
  BY WindowFacts DEF Holds, Claimed, TypeOK, StoreType
<1>2. \A x \in Ids : \/ pending'[x] = pending[x]
                     \/ /\ x = win[r][i] /\ pending[x].token = recs[r][i].claim.token
                        /\ pending'[x] = NoPending
  BY <1>1 DEF TypeOK, StoreType, Dropped
<1>3. TokenInv'
  <2>1. \A x \in Ids : pending'[x].token <= tokens
    BY <1>1, <1>2 DEF ClaimInv, TokenInv, NoPending
  <2> QED BY <2>1 DEF ClaimInv, TokenInv, Claimed, Records
<1>4. HoldInv'
  <2> SUFFICES ASSUME NEW s \in Clients, NEW j \in Records(s), LiveHold(s, j)'
               PROVE  /\ pending'[win[s][j]].token = recs[s][j].claim.token
                      /\ pending'[win[s][j]].expires = recs[s][j].claim.expires
    BY DEF HoldInv, Records
  <2>1. LiveHold(s, j) /\ ~(s = r /\ j = i) /\ Claimed(s, j)
    BY DEF LiveHold, Holds, Claimed
  <2>2. /\ pending[win[s][j]].token = recs[s][j].claim.token
        /\ pending[win[s][j]].expires = recs[s][j].claim.expires
    BY <2>1 DEF ClaimInv, HoldInv
  <2>3. recs[s][j].claim.token # recs[r][i].claim.token
    BY <1>1, <2>1 DEF ClaimInv, TokenInv
  <2> QED BY <1>1, <1>2, <2>2, <2>3
<1> QED BY <1>3, <1>4

\* CommitDrop keeps the claim invariant.
LEMMA CommitDropClaims ==
    ASSUME TypeOK, ClaimInv, NEW r \in Clients, CommitDrop(r)
    PROVE  ClaimInv'
<1>1. PICK i \in Records(r) : i \in toDrop[r] /\ i = First(toDrop[r])
  <2>1. toDrop[r] \subseteq Records(r) /\ toDrop[r] \subseteq Nat /\ toDrop[r] # {}
    BY WindowFacts DEF TypeOK, WindowType, ClaimInv, PhaseInv, CommitDrop
  <2> QED BY <2>1, FirstInSet
<1>2. /\ \A s \in Clients \ {r} : pc'[s] = pc[s] /\ toDrop'[s] = toDrop[s]
      /\ toDrop'[r] = toDrop[r] \ {i}
      /\ pc[r] = "drop" /\ pc'[r] \in {"settle", "drop"}
      /\ pc'[r] = "drop" <=> toDrop'[r] # {}
      /\ pending' = Dropped(pending, r, i)
      /\ UNCHANGED <<win, recs, tokens, now, t0, toCommit, toRelease>>
  BY <1>1 DEF TypeOK, ControlType, WindowType, CommitDrop
<1>3. \A s \in Clients : \A j \in Records(s) : Holds(s, j)' => Holds(s, j)
  BY <1>2 DEF Holds
<1>4. PhaseInv'
  BY <1>2 DEF ClaimInv, PhaseInv, Claimed, Records
<1>5. ~Holds(r, i)' /\ Holds(r, i)
  <2>1. i \notin toCommit[r] /\ i \notin toRelease[r] /\ Claimed(r, i)
    BY <1>1 DEF ClaimInv, PhaseInv
  <2> QED BY <1>1, <1>2, <2>1 DEF Holds, Claimed
<1>6. TokenInv' /\ HoldInv'
  BY <1>1, <1>2, <1>3, <1>5, DroppedHold
<1> QED BY <1>4, <1>6 DEF ClaimInv

\* ReleaseClaim keeps the claim invariant.
LEMMA ReleaseClaimClaims ==
    ASSUME TypeOK, ClaimInv, NEW r \in Clients, ReleaseClaim(r)
    PROVE  ClaimInv'
<1>1. CASE toRelease[r] = {}
  <2>1. /\ \A s \in Clients \ {r} : pc'[s] = pc[s]
        /\ pc[r] = "release" /\ pc'[r] = "settle"
        /\ UNCHANGED <<win, recs, pending, tokens, now, t0, toCommit, toDrop, toRelease>>
    BY <1>1 DEF TypeOK, ControlType, ReleaseClaim
  <2>2. \A s \in Clients : \A j \in Records(s) : Holds(s, j)' => Holds(s, j)
    BY <2>1 DEF Holds
  <2>3. PhaseInv'
    BY <2>1 DEF ClaimInv, PhaseInv, Claimed, Records
  <2> QED BY <2>1, <2>2, <2>3, NoNewHold DEF ClaimInv
<1>2. CASE toRelease[r] # {}
  <2>1. PICK i \in Records(r) : i \in toRelease[r] /\ i = First(toRelease[r])
    <3>1. toRelease[r] \subseteq Records(r) /\ toRelease[r] \subseteq Nat
      BY WindowFacts DEF TypeOK, WindowType
    <3> QED BY <1>2, <3>1, FirstInSet
  <2>2. /\ \A s \in Clients \ {r} : toRelease'[s] = toRelease[s]
        /\ toRelease'[r] = toRelease[r] \ {i}
        /\ pending' = Dropped(pending, r, i)
        /\ pc[r] = "release"
        /\ UNCHANGED <<pc, win, recs, tokens, now, t0, toCommit, toDrop>>
    BY <1>2, <2>1 DEF TypeOK, WindowType, ReleaseClaim
  <2>3. \A s \in Clients : \A j \in Records(s) : Holds(s, j)' => Holds(s, j)
    BY <2>2 DEF Holds
  <2>4. PhaseInv'
    BY <2>2 DEF ClaimInv, PhaseInv, Claimed, Records
  <2>5. ~Holds(r, i)' /\ Holds(r, i)
    <3>1. i \notin toCommit[r] /\ i \notin toDrop[r] /\ Claimed(r, i)
      BY <2>1 DEF ClaimInv, PhaseInv
    <3> QED BY <2>1, <2>2, <3>1 DEF Holds, Claimed
  <2>6. TokenInv' /\ HoldInv'
    BY <2>1, <2>2, <2>3, <2>5, DroppedHold
  <2> QED BY <2>4, <2>6 DEF ClaimInv
<1> QED BY <1>1, <1>2

\* Answer keeps the claim invariant.
LEMMA AnswerClaims ==
    ASSUME TypeOK, ClaimInv, NEW r \in Clients, Answer(r)
    PROVE  ClaimInv'
<1>1. /\ \A s \in Clients \ {r} : recs'[s] = recs[s] /\ pc'[s] = pc[s] /\ t0'[s] = t0[s]
      /\ pc[r] = "settle" /\ pc'[r] = "idle" /\ t0'[r] = 0 /\ now \in Nat
      /\ toCommit[r] = {} /\ toRelease[r] = {}
      /\ UNCHANGED <<win, pending, tokens, now, toCommit, toDrop, toRelease>>
  BY DEF TypeOK, StoreType, ControlType, WindowType, Answer, storeVars
<1>2. \A i \in Records(r) : recs'[r][i].claim.status # "claimed"
  BY DEF TypeOK, WindowType, Answer, Blank, Rec, NoClaim
<1>3. PhaseInv'
  BY <1>1, <1>2 DEF ClaimInv, PhaseInv, Claimed, Records
<1>4. \A s \in Clients : \A j \in Records(s) :
          recs'[s][j].claim.status = "claimed" => s # r /\ recs'[s] = recs[s]
  BY <1>1, <1>2
<1>5. TokenInv'
  BY <1>1, <1>4 DEF ClaimInv, TokenInv, Claimed, Records
<1>6. HoldInv'
  BY <1>1, <1>2 DEF ClaimInv, HoldInv, LiveHold, Holds, Records
<1> QED BY <1>3, <1>5, <1>6 DEF ClaimInv

\* The sweep and the reload touch no claim.
LEMMA StoreActorsClaims ==
    ASSUME TypeOK, ClaimInv, SweepScan \/ SweepDelete \/ Reload \/ Apply \/ UNCHANGED vars
    PROVE  ClaimInv'
<1>1. UNCHANGED <<pc, win, recs, pending, tokens, now, t0, toCommit, toDrop, toRelease>>
  BY DEF SweepScan, SweepDelete, Reload, Apply, reqVars, storeVars, vars
<1>2. \A s \in Clients : \A j \in Records(s) : Holds(s, j)' => Holds(s, j)
  BY <1>1 DEF Holds
<1>3. PhaseInv'
  BY <1>1 DEF ClaimInv, PhaseInv, Claimed, Records
<1> QED BY <1>1, <1>2, <1>3, NoNewHold DEF ClaimInv

\* The clock only makes live claims lapse.
LEMMA TickClaims ==
    ASSUME TypeOK, ClaimInv, Tick
    PROVE  ClaimInv'
<1>1. /\ UNCHANGED <<pc, win, recs, pending, tokens, t0, toCommit, toDrop, toRelease>>
      /\ now' = now + 1 /\ now \in Nat /\ t0 \in [Clients -> Nat]
  BY DEF TypeOK, StoreType, ControlType, Tick, reqVars, storeVars
<1>2. PhaseInv'
  BY <1>1 DEF ClaimInv, PhaseInv, Claimed, Records
<1>3. TokenInv'
  BY <1>1 DEF ClaimInv, TokenInv, Claimed, Records
<1>4. HoldInv'
  <2>1. \A r \in Clients : \A i \in Records(r) : recs[r][i].claim.expires \in Nat
    BY DEF TypeOK, WindowType, RecVals, Claims
  <2> QED BY <1>1, <2>1 DEF ClaimInv, HoldInv, LiveHold, Holds, Records
<1> QED BY <1>2, <1>3, <1>4 DEF ClaimInv

\* A crash forgets the claims and every request that held one.
LEMMA CrashClaims ==
    ASSUME TypeOK, ClaimInv, Crash
    PROVE  ClaimInv'
<1>1. \A r \in Clients : \A i \in Records(r) : recs'[r][i].claim.status # "claimed"
  BY DEF Crash, Blank, Rec, NoClaim
<1>2. PhaseInv'
  BY <1>1 DEF TypeOK, StoreType, PhaseInv, Crash, Claimed, Records
<1>3. TokenInv'
  BY <1>1 DEF TokenInv, Crash, NoPending, Claimed, Records
<1>4. HoldInv'
  BY <1>1 DEF HoldInv, LiveHold, Holds, Crash, Records
<1> QED BY <1>2, <1>3, <1>4 DEF ClaimInv

\* Every step keeps the claim invariant.
LEMMA ClaimNext == TypeOK /\ ClaimInv /\ [Next]_vars => ClaimInv'
<1> SUFFICES ASSUME TypeOK, ClaimInv, [Next]_vars PROVE ClaimInv'
  OBVIOUS
<1>1. ASSUME NEW r \in Clients, Request(r) PROVE ClaimInv'
  BY <1>1, StartClaims, PrepareRecordClaims, BeginReserveClaims, ReserveKeyClaims,
     ReserveFailsClaims, DecideClaims, PublishClaims, PublishFailedClaims, CommitWriteClaims,
     CommitFailsClaims, CommitDropClaims, BeginReleaseClaims, ReleaseClaimClaims, AnswerClaims
     DEF Request
<1> QED BY <1>1, StoreActorsClaims, TickClaims, CrashClaims DEF Next

\* Two live holds of one id have the token of one entry, and tokens are unique.
LEMMA ClaimInvExclusive == TypeOK /\ ClaimInv => ClaimsExclusive
<1> SUFFICES ASSUME TypeOK, ClaimInv, NEW r \in Clients, NEW s \in Clients,
                    NEW i \in Records(r), NEW j \in Records(s),
                    LiveHold(r, i), LiveHold(s, j), win[r][i] = win[s][j]
             PROVE  r = s /\ i = j
  BY DEF ClaimsExclusive
<1>1. recs[r][i].claim.token = recs[s][j].claim.token
  BY DEF ClaimInv, HoldInv
<1>2. Claimed(r, i) /\ Claimed(s, j)
  BY DEF LiveHold, Holds, Claimed
<1> QED BY <1>1, <1>2 DEF ClaimInv, TokenInv

\* Mutual exclusion: at most one request holds an unlapsed claim on an id,
\* for any number of requests, ids and windows and any interleaving of their
\* reserves, publishes, late commits and releases, reloads and crashes.
THEOREM Exclusion == Spec => []ClaimsExclusive
<1>1. TypeOK /\ ClaimInv /\ [Next]_vars => (TypeOK /\ ClaimInv)'
  BY TypeNext, ClaimNext
<1>2. Init => TypeOK /\ ClaimInv
  BY TypeInit, ClaimInit
<1> QED BY <1>1, <1>2, ClaimInvExclusive, PTL DEF Spec

-----------------------------------------------------------------------------
(* Retention.  While an id's promise runs, the disk holds a commit that    *)
(* does not expire before it; a value a crash may bring back is one whose  *)
(* promise is over.                                                        *)

RetentionInv ==
    /\ now <= MaxTime
    /\ regrant = {}
    /\ \A k \in Ids : now < promise[k] =>
           /\ disk[k].kind = "commit"
           /\ disk[k].exp = 0 \/ disk[k].exp = MaxInt \/ disk[k].exp >= promise[k]
    /\ \A k \in Ids : unsynced[k] # Absent => promise[k] <= now

\* The retention clauses speak of these variables alone.
LEMMA RetentionFrame ==
    ASSUME RetentionInv, UNCHANGED <<now, regrant, promise, disk, unsynced>>
    PROVE  RetentionInv'
BY DEF RetentionInv

\* Nothing is promised initially.
LEMMA RetentionInit == Init => RetentionInv
BY ConstantsAssumption DEF Init, RetentionInv, Absent

\* ReserveKey keeps the retention invariant.
LEMMA ReserveKeyRetention ==
    ASSUME TypeOK, ClaimInv, RetentionInv, NEW r \in Clients, ReserveKey(r)
    PROVE  RetentionInv'
<1> DEFINE k == win[r][pos[r]]
<1>1. /\ k \in Ids /\ now \in Nat /\ t0[r] \in Nat /\ t0[r] <= now
      /\ MaxInt \in Nat /\ MaxTime \in Nat /\ MaxTime < MaxInt
      /\ promise[k] \in Nat /\ disk[k].exp \in Nat
  <2>1. k \in Ids
    BY WindowFacts DEF TypeOK, ControlType
  <2> QED BY <2>1, ConstantsAssumption
          DEF TypeOK, StoreType, ControlType, HistoryType, DiskVals, ClaimInv, PhaseInv
<1>2. now < promise[k] => CommittedLive(disk[k], t0[r])
  BY <1>1 DEF RetentionInv, CommittedLive
<1>3. now < promise[k] => ReserveStatus(k, t0[r]) # "claimed"
  BY <1>2 DEF ReserveStatus
<1>4. regrant' = regrant
  BY <1>3 DEF ReserveKey
<1> QED BY <1>4, RetentionFrame DEF ReserveKey

\* CommitWrite keeps the retention invariant.
LEMMA CommitWriteRetention ==
    ASSUME TypeOK, RetentionInv, NEW r \in Clients, CommitWrite(r)
    PROVE  RetentionInv'
<1> DEFINE ret == recs[r][First(toCommit[r])].retention
           keys == {win[r][i] : i \in CommitGroup(r)}
<1>1. ret \in Nat /\ now \in Nat /\ MaxInt \in Nat
  BY CommitFacts, ConstantsAssumption DEF CommitWrite, TypeOK, StoreType
<1>2. /\ disk' = [k \in Ids |-> IF k \in keys THEN CommitVal(Expiry(now, ret)) ELSE disk[k]]
      /\ promise' = [k \in Ids |-> IF k \notin keys THEN promise[k]
                                   ELSE IF ret = 0 THEN MaxInt ELSE now + ret]
      /\ unsynced' = [k \in Ids |-> Absent]
      /\ UNCHANGED <<now, regrant>>
  BY DEF CommitWrite
<1> HIDE DEF ret, keys
<1>3. \A k \in Ids : now < promise'[k] =>
          /\ disk'[k].kind = "commit"
          /\ disk'[k].exp = 0 \/ disk'[k].exp = MaxInt \/ disk'[k].exp >= promise'[k]
  BY <1>1, <1>2 DEF RetentionInv, CommitVal, Expiry
<1> QED BY <1>2, <1>3 DEF RetentionInv

\* SweepDelete keeps the retention invariant.
LEMMA SweepDeleteRetention ==
    ASSUME TypeOK, RetentionInv, SweepDelete
    PROVE  RetentionInv'
<1>1. \A k \in Ids : Sweepable(disk[k], now) => promise[k] <= now
  <2> SUFFICES ASSUME NEW k \in Ids, Sweepable(disk[k], now), ~(promise[k] <= now)
               PROVE  FALSE
    OBVIOUS
  <2>1. /\ promise[k] \in Nat /\ now \in Nat /\ MaxInt \in Nat /\ MaxTime \in Nat
        /\ MaxTime < MaxInt /\ disk[k].exp \in Nat
    BY ConstantsAssumption DEF TypeOK, StoreType, HistoryType, DiskVals
  <2>2. now < promise[k]
    BY <2>1
  <2> QED BY <2>1, <2>2 DEF RetentionInv, Sweepable, CommittedExpired
<1>2. /\ disk' = [k \in Ids |-> IF k \in Condemned THEN Absent ELSE disk[k]]
      /\ unsynced' = [k \in Ids |-> IF k \in Condemned THEN disk[k] ELSE unsynced[k]]
      /\ UNCHANGED <<now, regrant, promise>>
  BY DEF SweepDelete, histVars
<1>3. \A k \in Condemned : promise[k] <= now
  BY <1>1 DEF Condemned, TypeOK, StoreType
<1>4. \A k \in Ids : promise[k] \in Nat /\ now \in Nat
  BY DEF TypeOK, StoreType, HistoryType
<1> QED BY <1>2, <1>3, <1>4 DEF RetentionInv

\* Crash keeps the retention invariant.
LEMMA CrashRetention ==
    ASSUME TypeOK, RetentionInv, Crash
    PROVE  RetentionInv'
<1>1. /\ \A k \in Ids : disk'[k] = disk[k] \/ unsynced[k] # Absent
      /\ \A k \in Ids : unsynced'[k] = Absent
      /\ UNCHANGED <<now, regrant, promise>>
  BY DEF Crash
<1>2. \A k \in Ids : promise[k] \in Nat /\ now \in Nat
  BY DEF TypeOK, StoreType, HistoryType
<1> QED BY <1>1, <1>2 DEF RetentionInv

\* Tick keeps the retention invariant.
LEMMA TickRetention ==
    ASSUME TypeOK, RetentionInv, Tick
    PROVE  RetentionInv'
<1>1. /\ now' = now + 1 /\ now < MaxTime /\ now \in Nat /\ MaxTime \in Nat
      /\ \A k \in Ids : promise[k] \in Nat
      /\ UNCHANGED <<regrant, promise, disk, unsynced>>
  BY ConstantsAssumption DEF TypeOK, StoreType, HistoryType, Tick, storeVars, histVars
<1> QED BY <1>1 DEF RetentionInv

\* Every step keeps the retention invariant.
LEMMA RetentionNext ==
    TypeOK /\ ClaimInv /\ RetentionInv /\ [Next]_vars => RetentionInv'
<1> SUFFICES ASSUME TypeOK, ClaimInv, RetentionInv, [Next]_vars PROVE RetentionInv'
  OBVIOUS
<1>1. ASSUME NEW r \in Clients, Request(r), ~ReserveKey(r), ~CommitWrite(r) PROVE RetentionInv'
  <2>1. UNCHANGED <<now, regrant, promise, disk, unsynced>>
    BY <1>1 DEF Request, Start, PrepareRecord, BeginReserve, ReserveFails, Decide, Publish,
                PublishRefused, PublishLost, CommitFails, CommitDrop, BeginRelease, ReleaseClaim,
                Answer, storeVars, histVars
  <2> QED BY <2>1, RetentionFrame
<1>2. ASSUME SweepScan \/ Reload \/ Apply \/ UNCHANGED vars PROVE RetentionInv'
  <2>1. UNCHANGED <<now, regrant, promise, disk, unsynced>>
    BY <1>2 DEF SweepScan, Reload, Apply, vars, storeVars, histVars
  <2> QED BY <2>1, RetentionFrame
<1> QED BY <1>1, <1>2, ReserveKeyRetention, CommitWriteRetention, SweepDeleteRetention,
           CrashRetention, TickRetention DEF Next

\* A committed id is granted to no one before its retention ends, for any
\* retention up to and past the largest instant, whatever the sweep, reloads
\* and crashes that lose unsynced deletes do to the value on disk.
THEOREM Retained == Spec => []NoEarlyGrant
<1>1. TypeOK /\ ClaimInv /\ RetentionInv /\ [Next]_vars => (TypeOK /\ ClaimInv /\ RetentionInv)'
  BY TypeNext, ClaimNext, RetentionNext
<1>2. Init => TypeOK /\ ClaimInv /\ RetentionInv
  BY TypeInit, ClaimInit, RetentionInit
<1>3. RetentionInv => NoEarlyGrant
  BY DEF RetentionInv, NoEarlyGrant
<1> QED BY <1>1, <1>2, <1>3, PTL DEF Spec

-----------------------------------------------------------------------------
(* No claim without a holder.  The entry a Reserve makes is its request's  *)
(* until the records the request settles cover it, so NoOrphanClaim is     *)
(* inductive once a Reserve never overwrites a record's earlier claim.     *)

AheadInv ==
    \A r \in Clients : pc[r] = "reserve" =>
        \A i \in Records(r) : i >= pos[r] => ~Claimed(r, i)

OrphanInv == AheadInv /\ NoOrphanClaim

\* Nothing is pending initially.
LEMMA OrphanInit == Init => OrphanInv
BY DEF Init, OrphanInv, AheadInv, NoOrphanClaim, NoPending

\* Steps that grant nothing and drop no entry: each holder keeps its claim or
\* leaves it to its lease.
LEMMA OrphanFrame ==
    ASSUME TypeOK, NoOrphanClaim, UNCHANGED <<win, recs, pending>>,
           \A x \in lapsing : x \in lapsing',
           \A s \in Clients : \A j \in Records(s) :
               Holds(s, j) => Holds(s, j)' \/ recs[s][j].claim.token \in lapsing'
    PROVE  NoOrphanClaim'
<1> SUFFICES ASSUME NEW k \in Ids, pending[k].token # 0, pending[k].token \notin lapsing'
             PROVE  \E r \in Clients : \E i \in Records(r) :
                        Holds(r, i)' /\ win[r][i] = k /\ recs[r][i].claim.token = pending[k].token
  BY DEF NoOrphanClaim, Records
<1>0. PICK r \in Clients : \E i \in Records(r) :
          Holds(r, i) /\ win[r][i] = k /\ recs[r][i].claim.token = pending[k].token
  BY DEF NoOrphanClaim
<1>1. PICK i \in Records(r) :
          Holds(r, i) /\ win[r][i] = k /\ recs[r][i].claim.token = pending[k].token
  BY <1>0
<1>2. Holds(r, i)'
  BY <1>1
<1> QED BY <1>1, <1>2

\* A request past its Reserve does not come back to it, so AheadInv is about
\* the requests a step leaves in it.
LEMMA AheadFrame ==
    ASSUME TypeOK, AheadInv, UNCHANGED <<win, recs>>,
           \A s \in Clients : pc'[s] = "reserve" => pc[s] = "reserve" /\ pos'[s] = pos[s]
    PROVE  AheadInv'
BY DEF AheadInv, Claimed, Records

\* Start keeps the orphan invariant.
LEMMA StartOrphan ==
    ASSUME TypeOK, ClaimInv, OrphanInv, NEW r \in Clients, Start(r)
    PROVE  OrphanInv'
<1>1. /\ \A s \in Clients : pc'[s] = pc[s] \/ (s = r /\ pc[s] = "idle" /\ pc'[s] = "prepare")
      /\ UNCHANGED <<win, recs, pending, pos, toCommit, toDrop, toRelease, lapsing>>
  BY DEF TypeOK, ControlType, Start, storeVars, histVars
<1>2. AheadInv'
  <2>1. \A s \in Clients : pc'[s] = "reserve" => pc[s] = "reserve" /\ pos'[s] = pos[s]
    BY <1>1
  <2> QED BY <1>1, <2>1, AheadFrame DEF OrphanInv
<1>3. \A s \in Clients : \A j \in Records(s) : Holds(s, j) => Holds(s, j)'
  BY <1>1 DEF Holds
<1> QED BY <1>1, <1>2, <1>3, OrphanFrame DEF OrphanInv

\* PrepareRecord keeps the orphan invariant.
LEMMA PrepareRecordOrphan ==
    ASSUME TypeOK, ClaimInv, OrphanInv, NEW r \in Clients, PrepareRecord(r)
    PROVE  OrphanInv'
<1>1. /\ \A s \in Clients \ {r} : recs'[s] = recs[s] /\ pc'[s] = pc[s] /\ pos'[s] = pos[s]
      /\ pc[r] = "prepare" /\ pc'[r] \in {"prepare", "begin"}
      /\ UNCHANGED <<win, pending, toCommit, toDrop, toRelease, lapsing>>
  BY DEF TypeOK, ControlType, WindowType, PrepareRecord, NextRecord, storeVars, histVars
<1>2. \A i \in Records(r) : ~Holds(r, i)
  BY <1>1 DEF ClaimInv, PhaseInv, Claimed, Holds
<1>3. AheadInv'
  BY <1>1 DEF OrphanInv, AheadInv, Claimed, Records
<1>4. NoOrphanClaim'
  <2> SUFFICES ASSUME NEW k \in Ids, pending[k].token # 0, pending[k].token \notin lapsing
               PROVE  \E s \in Clients : \E i \in Records(s) :
                          Holds(s, i)' /\ win[s][i] = k /\ recs'[s][i].claim.token = pending[k].token
    BY <1>1 DEF NoOrphanClaim, Records
  <2>0. PICK s \in Clients : \E i \in Records(s) :
            Holds(s, i) /\ win[s][i] = k /\ recs[s][i].claim.token = pending[k].token
    BY DEF OrphanInv, NoOrphanClaim
  <2>1. PICK i \in Records(s) :
            Holds(s, i) /\ win[s][i] = k /\ recs[s][i].claim.token = pending[k].token
    BY <2>0
  <2>2. s # r
    BY <1>2, <2>1
  <2>3. Holds(s, i)'
    BY <1>1, <2>1, <2>2 DEF Holds
  <2> QED BY <1>1, <2>1, <2>2, <2>3
<1> QED BY <1>3, <1>4 DEF OrphanInv

\* BeginReserve keeps the orphan invariant.
LEMMA BeginReserveOrphan ==
    ASSUME TypeOK, ClaimInv, OrphanInv, NEW r \in Clients, BeginReserve(r)
    PROVE  OrphanInv'
<1>1. /\ \A s \in Clients \ {r} : pc'[s] = pc[s]
      /\ pc[r] = "begin"
      /\ UNCHANGED <<win, recs, pending, pos, toCommit, toDrop, toRelease, lapsing>>
  <2>1. pc \in [Clients -> Phases]
    BY DEF TypeOK, ControlType
  <2>2. pc' = [pc EXCEPT ![r] = "publish"] \/ pc' = [pc EXCEPT ![r] = "settle"]
            \/ pc' = [pc EXCEPT ![r] = "reserve"]
    BY DEF BeginReserve
  <2> QED BY <2>1, <2>2 DEF BeginReserve, storeVars, histVars
<1>2. \A i \in Records(r) : ~Claimed(r, i)
  BY <1>1 DEF ClaimInv, PhaseInv
<1>3. AheadInv'
  BY <1>1, <1>2 DEF OrphanInv, AheadInv, Claimed, Records
<1>4. \A s \in Clients : \A j \in Records(s) : Holds(s, j) => Holds(s, j)'
  BY <1>1, <1>2 DEF Holds, Claimed
<1> QED BY <1>1, <1>3, <1>4, OrphanFrame DEF OrphanInv

\* What one id of Reserve does: it changes one record, to a claim that is a
\* duplicate only of an earlier record or of a commit on disk, and leaves, drops
\* or, by that claim, replaces each pending entry.
LEMMA ReserveKeyFacts ==
    ASSUME TypeOK, NEW r \in Clients, ReserveKey(r)
    PROVE  /\ pos[r] \in Records(r) /\ win[r][pos[r]] \in Ids
           /\ \A s \in Clients : \A j \in Records(s) :
                  ~(s = r /\ j = pos[r]) => recs'[s][j] = recs[s][j]
           /\ recs'[r][pos[r]].keyed = recs[r][pos[r]].keyed
           /\ recs'[r][pos[r]].claim.status = "duplicate" =>
                  Repeated(r, pos[r]) \/ disk[win[r][pos[r]]].kind = "commit"
           /\ \A x \in Ids :
                  \/ pending'[x] = pending[x]
                  \/ pending'[x].token = 0
                  \/ /\ x = win[r][pos[r]]
                     /\ recs'[r][pos[r]].claim.status = "claimed"
                     /\ pending'[x].token = recs'[r][pos[r]].claim.token
           /\ \A s \in Clients \ {r} : pc'[s] = pc[s] /\ pos'[s] = pos[s]
           /\ pc[r] = "reserve" /\ pc'[r] \in {"reserve", "decide"}
           /\ pc'[r] = "reserve" => pos'[r] = pos[r] + 1
<1> DEFINE i == pos[r]
           k == win[r][i]
           asked == recs[r][i].keyed /\ ~Repeated(r, i)
           status == IF asked THEN ReserveStatus(k, t0[r])
                     ELSE IF recs[r][i].keyed THEN "duplicate" ELSE "none"
           took == status = "claimed"
           claim == [status |-> status,
                     token |-> IF took THEN tokens + 1 ELSE 0,
                     expires |-> IF took THEN t0[r] + Lease ELSE 0]
<1>1. i \in Records(r) /\ k \in Ids
  BY WindowFacts DEF TypeOK, ControlType
<1>2. recs' = [recs EXCEPT ![r][i].claim = claim]
  BY DEF ReserveKey
<1>3. PICK kept \in {pending, SweepPending(pending, t0[r])} :
          pending' = IF took THEN [kept EXCEPT ![k] = [token |-> claim.token, expires |-> claim.expires]]
                     ELSE kept
  BY DEF ReserveKey
<1>4. \A x \in Ids : kept[x] = pending[x] \/ kept[x] = NoPending
  BY <1>3 DEF SweepPending
<1>5. kept \in [Ids -> PendingVals]
  BY <1>3 DEF TypeOK, StoreType, SweepPending, PendingVals, NoPending
<1>6. claim.status = "claimed" <=> took
  OBVIOUS
<1>7. claim.status = "duplicate" => Repeated(r, i) \/ disk[k].kind = "commit"
  BY DEF ReserveStatus, CommittedLive
<1> HIDE DEF claim, took, status, asked
<1>8. /\ \A s \in Clients : \A j \in Records(s) : ~(s = r /\ j = i) => recs'[s][j] = recs[s][j]
      /\ recs'[r][i].claim = claim
      /\ recs'[r][i].keyed = recs[r][i].keyed
  <2>1. DOMAIN recs = Clients /\ recs[r] \in [Records(r) -> RecVals] /\ recs[r][i] \in RecVals
    BY <1>1 DEF TypeOK, WindowType
  <2> HIDE DEF i
  <2> QED BY <1>1, <1>2, <2>1 DEF RecVals
<1>9. \A x \in Ids : \/ pending'[x] = kept[x]
                     \/ x = k /\ took /\ pending'[x].token = claim.token
  BY <1>1, <1>3, <1>5
<1>10. \A x \in Ids : \/ pending'[x] = pending[x]
                      \/ pending'[x].token = 0
                      \/ x = k /\ took /\ pending'[x].token = claim.token
  BY <1>4, <1>9 DEF NoPending
<1>11. /\ \A s \in Clients \ {r} : pc'[s] = pc[s] /\ pos'[s] = pos[s]
       /\ pc[r] = "reserve" /\ pc'[r] \in {"reserve", "decide"}
       /\ pc'[r] = "reserve" => pos'[r] = pos[r] + 1
  BY DEF ReserveKey, NextRecord, TypeOK, ControlType
<1> QED BY <1>1, <1>6, <1>7, <1>8, <1>10, <1>11

\* ReserveKey keeps the orphan invariant: its entry is its own request's, and
\* no record that held an entry is overwritten.
LEMMA ReserveKeyOrphan ==
    ASSUME TypeOK, ClaimInv, OrphanInv, NEW r \in Clients, ReserveKey(r)
    PROVE  OrphanInv'
<1>0. PICK i \in Records(r) : i = pos[r]
  BY ReserveKeyFacts
<1>1. UNCHANGED <<win, toCommit, toDrop, toRelease, lapsing>>
  BY DEF ReserveKey
<1>2. /\ i \in Records(r) /\ pc[r] = "reserve" /\ pc'[r] \in {"reserve", "decide"}
      /\ pc'[r] = "reserve" => pos'[r] = i + 1
      /\ \A s \in Clients \ {r} : pc'[s] = pc[s] /\ pos'[s] = pos[s]
      /\ \A s \in Clients : \A j \in Records(s) : ~(s = r /\ j = i) => recs'[s][j] = recs[s][j]
  BY <1>0, ReserveKeyFacts
<1>3. \A x \in Ids :
          \/ pending'[x] = pending[x]
          \/ pending'[x].token = 0
          \/ /\ x = win[r][i] /\ recs'[r][i].claim.status = "claimed"
             /\ pending'[x].token = recs'[r][i].claim.token
  BY <1>0, ReserveKeyFacts
<1>4. ~Claimed(r, i) /\ Records(r) \subseteq Nat
  BY <1>0, <1>2, WindowFacts DEF OrphanInv, AheadInv
<1>5. AheadInv'
  <2> SUFFICES ASSUME NEW s \in Clients, pc'[s] = "reserve", NEW j \in Records(s), j >= pos'[s]
               PROVE  recs'[s][j].claim.status # "claimed"
    BY <1>1 DEF AheadInv, Claimed, Records
  <2>1. pc[s] = "reserve" /\ j >= pos[s] /\ ~(s = r /\ j = i)
    <3>1. CASE s = r
      BY <1>0, <1>2, <1>4, <3>1
    <3>2. CASE s # r
      BY <1>2, <3>2
    <3> QED BY <3>1, <3>2
  <2>2. recs'[s][j] = recs[s][j]
    BY <1>2, <2>1
  <2> QED BY <2>1, <2>2 DEF OrphanInv, AheadInv, Claimed
<1>6. NoOrphanClaim'
  <2> SUFFICES ASSUME NEW k \in Ids, pending'[k].token # 0, pending'[k].token \notin lapsing
               PROVE  \E s \in Clients : \E j \in Records(s) :
                          Holds(s, j)' /\ win[s][j] = k /\ recs'[s][j].claim.token = pending'[k].token
    BY <1>1 DEF NoOrphanClaim, Records
  <2>1. CASE pending'[k] = pending[k]
    <3>1. PICK s \in Clients : \E j \in Records(s) :
              Holds(s, j) /\ win[s][j] = k /\ recs[s][j].claim.token = pending[k].token
      BY <2>1 DEF OrphanInv, NoOrphanClaim
    <3>2. PICK j \in Records(s) :
              Holds(s, j) /\ win[s][j] = k /\ recs[s][j].claim.token = pending[k].token
      BY <3>1
    <3>3. ~(s = r /\ j = i)
      BY <1>4, <3>2 DEF Holds, Claimed
    <3>4. recs'[s][j] = recs[s][j]
      BY <1>2, <3>3
    <3>5. Holds(s, j)'
      BY <1>1, <1>2, <3>2, <3>4 DEF Holds
    <3> QED BY <2>1, <3>2, <3>4, <3>5
  <2>2. CASE /\ k = win[r][i] /\ recs'[r][i].claim.status = "claimed"
             /\ pending'[k].token = recs'[r][i].claim.token
    <3>1. Holds(r, i)'
      BY <1>2, <2>2 DEF Holds
    <3> QED BY <1>2, <2>2, <3>1
  <2> QED BY <1>3, <2>1, <2>2
<1> QED BY <1>5, <1>6 DEF OrphanInv

\* A window that aborts settles every claim it holds.
LEMMA AbortOrphan ==
    ASSUME TypeOK, ClaimInv, OrphanInv, NEW r \in Clients, ReserveFails(r) \/ Decide(r)
    PROVE  OrphanInv'
<1>1. /\ \A s \in Clients \ {r} : pc'[s] = pc[s] /\ toRelease'[s] = toRelease[s]
      /\ \/ pc'[r] = "publish"
         \/ pc'[r] \in {"settle", "release"} /\ toRelease'[r] = AbortedClaims(r)
      /\ UNCHANGED <<win, recs, pending, pos, toCommit, toDrop, lapsing>>
  BY DEF TypeOK, ControlType, WindowType, ReserveFails, Decide, storeVars, histVars
<1>2. AheadInv'
  BY <1>1, AheadFrame DEF OrphanInv
<1>3. toRelease[r] = {}
  BY DEF ClaimInv, PhaseInv, ReserveFails, Decide
<1>4. \A s \in Clients : \A j \in Records(s) : Holds(s, j) => Holds(s, j)'
  BY <1>1, <1>3 DEF Holds, AbortedClaims, ClaimedIn
<1> QED BY <1>1, <1>2, <1>4, OrphanFrame DEF OrphanInv

\* A publish leaves its request in the publishes, or with every claim to commit.
LEMMA PublishOrphan ==
    ASSUME TypeOK, ClaimInv, OrphanInv, NEW r \in Clients, Publish(r)
    PROVE  OrphanInv'
<1>1. /\ \A s \in Clients \ {r} : pc'[s] = pc[s] /\ toCommit'[s] = toCommit[s] /\ pos'[s] = pos[s]
      /\ UNCHANGED <<win, recs, pending, toRelease, toDrop, lapsing>>
  BY DEF TypeOK, ControlType, WindowType, Publish, NextRecord, storeVars, histVars
<1>2. \/ pc'[r] = "publish" /\ toCommit'[r] = toCommit[r]
      \/ pc'[r] = "settle" /\ toCommit'[r] = ClaimedIn(r, Records(r))
  BY DEF TypeOK, ControlType, WindowType, Publish, NextRecord
<1>3. toCommit[r] = {}
  BY DEF ClaimInv, PhaseInv, Publish
<1>4. AheadInv'
  BY <1>1, <1>2, AheadFrame DEF OrphanInv
<1>5. \A s \in Clients : \A j \in Records(s) : Holds(s, j) => Holds(s, j)'
  BY <1>1, <1>2, <1>3 DEF Holds, ClaimedIn
<1> QED BY <1>1, <1>4, <1>5, OrphanFrame DEF OrphanInv

\* A publish that failed divides the window's claims: the published to commit,
\* the unsent to release, and the one whose outcome is unknown to its lease.
LEMMA PublishFailedOrphan ==
    ASSUME TypeOK, ClaimInv, OrphanInv, NEW r \in Clients, PublishRefused(r) \/ PublishLost(r)
    PROVE  OrphanInv'
<1>0. PICK p \in Records(r) : p = pos[r]
  BY DEF TypeOK, ControlType
<1>1. /\ \A s \in Clients \ {r} :
             pc'[s] = pc[s] /\ toCommit'[s] = toCommit[s] /\ toRelease'[s] = toRelease[s]
      /\ pc'[r] = "settle"
      /\ UNCHANGED <<win, recs, pending, pos, toDrop>>
      /\ \A x \in lapsing : x \in lapsing'
  BY DEF TypeOK, ControlType, WindowType, PublishRefused, PublishLost, storeVars, histVars
<1>2. /\ toCommit[r] = {} /\ toRelease[r] = {}
      /\ toCommit'[r] = PublishedClaims(r)
      /\ \/ toRelease'[r] = UnsentClaims(r, TRUE)
         \/ /\ toRelease'[r] = UnsentClaims(r, FALSE)
            /\ lapsing' = lapsing \cup TokensOf(r, ClaimedIn(r, {p}))
  BY <1>0 DEF TypeOK, WindowType, ClaimInv, PhaseInv, PublishRefused, PublishLost
<1>3. AheadInv'
  BY <1>1, AheadFrame DEF OrphanInv
<1>4. \A j \in Records(r) : Holds(r, j) =>
          \/ j \in toCommit'[r] \cup toRelease'[r]
          \/ recs[r][j].claim.token \in lapsing'
          \/ j \in toDrop[r]
  <2> SUFFICES ASSUME NEW j \in Records(r), Holds(r, j), j \notin toCommit'[r] \cup toRelease'[r]
               PROVE  recs[r][j].claim.token \in lapsing'
    OBVIOUS
  <2>1. Claimed(r, j) /\ Len(win[r]) \in Nat /\ j \in 1..Len(win[r]) /\ p \in 1..Len(win[r])
    BY WindowFacts DEF Holds, Claimed, Records
  <2>2. j = p /\ toRelease'[r] = UnsentClaims(r, FALSE)
            /\ lapsing' = lapsing \cup TokensOf(r, ClaimedIn(r, {p}))
    BY <1>0, <1>2, <2>1 DEF PublishedClaims, UnsentClaims, ClaimedIn, Claimed
  <2> QED BY <2>1, <2>2 DEF TokensOf, ClaimedIn, Claimed
<1>5. \A s \in Clients : \A j \in Records(s) :
          Holds(s, j) => Holds(s, j)' \/ recs[s][j].claim.token \in lapsing'
  <2>1. \A j \in Records(r) : Holds(r, j) => Holds(r, j)' \/ recs[r][j].claim.token \in lapsing'
    BY <1>1, <1>4 DEF Holds
  <2>2. \A s \in Clients \ {r} : \A j \in Records(s) : Holds(s, j) => Holds(s, j)'
    BY <1>1 DEF Holds
  <2> QED BY <2>1, <2>2
<1> QED BY <1>1, <1>3, <1>5, OrphanFrame DEF OrphanInv

\* A Commit drops the entries of what it wrote, and leaves the claims of a
\* failed write to their lease.
LEMMA CommitOrphan ==
    ASSUME TypeOK, ClaimInv, OrphanInv, NEW r \in Clients, CommitWrite(r) \/ CommitFails(r)
    PROVE  OrphanInv'
<1>1. /\ \A s \in Clients \ {r} :
             pc'[s] = pc[s] /\ toCommit'[s] = toCommit[s] /\ toDrop'[s] = toDrop[s]
      /\ pc[r] = "settle" /\ pc'[r] \in {"settle", "drop"}
      /\ UNCHANGED <<win, recs, pending, pos, toRelease>>
      /\ \A x \in lapsing : x \in lapsing'
  BY DEF TypeOK, ControlType, WindowType, CommitWrite, CommitFails, storeVars, histVars
<1>2. /\ toCommit'[r] = toCommit[r] \ CommitGroup(r)
      /\ \/ toDrop'[r] = CommitGroup(r)
         \/ toDrop'[r] = toDrop[r] /\ lapsing' = lapsing \cup TokensOf(r, CommitGroup(r))
  BY DEF TypeOK, WindowType, CommitWrite, CommitFails
<1>3. toDrop[r] = {}
  BY <1>1 DEF ClaimInv, PhaseInv
<1>4. AheadInv'
  BY <1>1, AheadFrame DEF OrphanInv
<1>5. \A s \in Clients : \A j \in Records(s) :
          Holds(s, j) => Holds(s, j)' \/ recs[s][j].claim.token \in lapsing'
  <2>1. \A j \in Records(r) : Holds(r, j) => Holds(r, j)' \/ recs[r][j].claim.token \in lapsing'
    BY <1>1, <1>2, <1>3 DEF Holds, TokensOf
  <2>2. \A s \in Clients \ {r} : \A j \in Records(s) : Holds(s, j) => Holds(s, j)'
    BY <1>1 DEF Holds
  <2> QED BY <2>1, <2>2
<1> QED BY <1>1, <1>4, <1>5, OrphanFrame DEF OrphanInv

\* Dropping the entry of a claim by its token leaves every other holder's.
LEMMA DroppedOrphan ==
    ASSUME TypeOK, NoOrphanClaim, NEW r \in Clients, NEW i \in Records(r),
           UNCHANGED <<win, recs>>, lapsing' = lapsing, pending' = Dropped(pending, r, i),
           \A s \in Clients : \A j \in Records(s) :
               Holds(s, j) /\ ~(s = r /\ j = i) => Holds(s, j)'
    PROVE  NoOrphanClaim'
<1> SUFFICES ASSUME NEW k \in Ids, pending'[k].token # 0, pending'[k].token \notin lapsing
             PROVE  \E s \in Clients : \E j \in Records(s) :
                        Holds(s, j)' /\ win[s][j] = k /\ recs[s][j].claim.token = pending'[k].token
  BY DEF NoOrphanClaim, Records
<1>1. win[r][i] \in Ids /\ pending \in [Ids -> PendingVals]
  BY WindowFacts DEF TypeOK, StoreType
<1>2. /\ pending'[k] = pending[k]
      /\ ~(win[r][i] = k /\ recs[r][i].claim.token = pending[k].token)
  BY <1>1 DEF Dropped, NoPending
<1>3. PICK s \in Clients : \E j \in Records(s) :
          Holds(s, j) /\ win[s][j] = k /\ recs[s][j].claim.token = pending[k].token
  BY <1>2 DEF NoOrphanClaim
<1>4. PICK j \in Records(s) :
          Holds(s, j) /\ win[s][j] = k /\ recs[s][j].claim.token = pending[k].token
  BY <1>3
<1>5. Holds(s, j)'
  BY <1>2, <1>4
<1> QED BY <1>2, <1>4, <1>5

\* CommitDrop keeps the orphan invariant.
LEMMA CommitDropOrphan ==
    ASSUME TypeOK, ClaimInv, OrphanInv, NEW r \in Clients, CommitDrop(r)
    PROVE  OrphanInv'
<1>1. PICK i \in Records(r) : i \in toDrop[r] /\ i = First(toDrop[r])
  <2>1. toDrop[r] \subseteq Records(r) /\ toDrop[r] \subseteq Nat /\ toDrop[r] # {}
    BY WindowFacts DEF TypeOK, WindowType, ClaimInv, PhaseInv, CommitDrop
  <2> QED BY <2>1, FirstInSet
<1>2. /\ \A s \in Clients \ {r} : pc'[s] = pc[s] /\ toDrop'[s] = toDrop[s]
      /\ toDrop'[r] = toDrop[r] \ {i}
      /\ pc[r] = "drop" /\ pc'[r] \in {"settle", "drop"}
      /\ pending' = Dropped(pending, r, i)
      /\ UNCHANGED <<win, recs, pos, toCommit, toRelease, lapsing>>
  BY <1>1 DEF TypeOK, ControlType, WindowType, CommitDrop, histVars
<1>3. AheadInv'
  BY <1>2, AheadFrame DEF OrphanInv
<1>4. \A s \in Clients : \A j \in Records(s) : Holds(s, j) /\ ~(s = r /\ j = i) => Holds(s, j)'
  BY <1>2 DEF Holds
<1> QED BY <1>2, <1>3, <1>4, DroppedOrphan DEF OrphanInv

\* ReleaseClaim keeps the orphan invariant.
LEMMA ReleaseClaimOrphan ==
    ASSUME TypeOK, ClaimInv, OrphanInv, NEW r \in Clients, ReleaseClaim(r)
    PROVE  OrphanInv'
<1>0. /\ \A s \in Clients \ {r} : pc'[s] = pc[s] /\ toRelease'[s] = toRelease[s]
      /\ pc[r] = "release" /\ pc'[r] \in {"release", "settle"}
      /\ UNCHANGED <<win, recs, pos, toCommit, toDrop, lapsing>>
  BY DEF TypeOK, ControlType, WindowType, ReleaseClaim, histVars
<1>1. AheadInv'
  BY <1>0, AheadFrame DEF OrphanInv
<1>2. CASE toRelease[r] = {}
  <2>1. pending' = pending /\ toRelease' = toRelease
    BY <1>2 DEF ReleaseClaim
  <2>2. \A s \in Clients : \A j \in Records(s) : Holds(s, j) => Holds(s, j)'
    BY <1>0, <2>1 DEF Holds
  <2> QED BY <1>0, <1>1, <2>1, <2>2, OrphanFrame DEF OrphanInv
<1>3. CASE toRelease[r] # {}
  <2>1. PICK i \in Records(r) : i \in toRelease[r] /\ i = First(toRelease[r])
    <3>1. toRelease[r] \subseteq Records(r) /\ toRelease[r] \subseteq Nat
      BY WindowFacts DEF TypeOK, WindowType
    <3> QED BY <1>3, <3>1, FirstInSet
  <2>2. toRelease'[r] = toRelease[r] \ {i} /\ pending' = Dropped(pending, r, i)
    BY <1>3, <2>1 DEF TypeOK, WindowType, ReleaseClaim
  <2>3. \A s \in Clients : \A j \in Records(s) : Holds(s, j) /\ ~(s = r /\ j = i) => Holds(s, j)'
    BY <1>0, <2>2 DEF Holds
  <2> QED BY <1>0, <1>1, <2>2, <2>3, DroppedOrphan DEF OrphanInv
<1> QED BY <1>2, <1>3

\* BeginRelease keeps the orphan invariant.
LEMMA BeginReleaseOrphan ==
    ASSUME TypeOK, ClaimInv, OrphanInv, NEW r \in Clients, BeginRelease(r)
    PROVE  OrphanInv'
<1>1. /\ \A s \in Clients \ {r} : pc'[s] = pc[s] /\ toRelease'[s] = toRelease[s]
      /\ pc[r] = "settle" /\ pc'[r] \in {"settle", "release"}
      /\ toRelease'[r] = toRelease[r] \/ lapsing' = lapsing \cup TokensOf(r, toRelease[r])
      /\ UNCHANGED <<win, recs, pending, pos, toCommit, toDrop>>
      /\ \A x \in lapsing : x \in lapsing'
  BY DEF TypeOK, ControlType, WindowType, BeginRelease, storeVars
<1>2. AheadInv'
  BY <1>1, AheadFrame DEF OrphanInv
<1>3. \A s \in Clients : \A j \in Records(s) :
          Holds(s, j) => Holds(s, j)' \/ recs[s][j].claim.token \in lapsing'
  <2>1. \A j \in Records(r) : Holds(r, j) => Holds(r, j)' \/ recs[r][j].claim.token \in lapsing'
    BY <1>1 DEF Holds, TokensOf
  <2>2. \A s \in Clients \ {r} : \A j \in Records(s) : Holds(s, j) => Holds(s, j)'
    BY <1>1 DEF Holds
  <2> QED BY <2>1, <2>2
<1> QED BY <1>1, <1>2, <1>3, OrphanFrame DEF OrphanInv

\* A request answers when it holds nothing.
LEMMA AnswerOrphan ==
    ASSUME TypeOK, ClaimInv, OrphanInv, NEW r \in Clients, Answer(r)
    PROVE  OrphanInv'
<1>1. /\ \A s \in Clients \ {r} : recs'[s] = recs[s] /\ pc'[s] = pc[s] /\ pos'[s] = pos[s]
      /\ pc[r] = "settle" /\ pc'[r] = "idle" /\ toCommit[r] = {} /\ toRelease[r] = {}
      /\ UNCHANGED <<win, pending, toCommit, toDrop, toRelease, lapsing>>
  BY DEF TypeOK, ControlType, WindowType, Answer, storeVars, histVars
<1>2. \A j \in Records(r) : ~Holds(r, j)
  BY <1>1 DEF Holds, ClaimInv, PhaseInv
<1>3. AheadInv'
  BY <1>1 DEF OrphanInv, AheadInv, Claimed, Records
<1>4. NoOrphanClaim'
  <2> SUFFICES ASSUME NEW k \in Ids, pending[k].token # 0, pending[k].token \notin lapsing
               PROVE  \E s \in Clients : \E i \in Records(s) :
                          Holds(s, i)' /\ win[s][i] = k /\ recs'[s][i].claim.token = pending[k].token
    BY <1>1 DEF NoOrphanClaim, Records
  <2>1. PICK s \in Clients : \E i \in Records(s) :
            Holds(s, i) /\ win[s][i] = k /\ recs[s][i].claim.token = pending[k].token
    BY DEF OrphanInv, NoOrphanClaim
  <2>2. PICK i \in Records(s) :
            Holds(s, i) /\ win[s][i] = k /\ recs[s][i].claim.token = pending[k].token
    BY <2>1
  <2>3. s # r
    BY <1>2, <2>2
  <2>4. Holds(s, i)'
    BY <1>1, <2>2, <2>3 DEF Holds
  <2> QED BY <1>1, <2>2, <2>3, <2>4
<1> QED BY <1>3, <1>4 DEF OrphanInv

\* The other actors hold no claim; a crash forgets them all.
LEMMA StoreActorsOrphan ==
    ASSUME TypeOK, OrphanInv,
           SweepScan \/ SweepDelete \/ Reload \/ Apply \/ Tick \/ Crash \/ UNCHANGED vars
    PROVE  OrphanInv'
<1>1. CASE Crash
  <2>1. /\ \A r \in Clients : pc'[r] = "idle"
        /\ \A k \in Ids : pending'[k].token = 0
    BY <1>1 DEF Crash, NoPending
  <2> QED BY <2>1 DEF OrphanInv, AheadInv, NoOrphanClaim
<1>2. CASE SweepScan \/ SweepDelete \/ Reload \/ Apply \/ Tick \/ UNCHANGED vars
  <2>1. UNCHANGED <<pc, win, recs, pending, pos, toCommit, toDrop, toRelease, lapsing>>
    BY <1>2 DEF SweepScan, SweepDelete, Reload, Apply, Tick, reqVars, storeVars, histVars, vars
  <2>2. AheadInv'
    BY <2>1, AheadFrame DEF OrphanInv
  <2>3. \A s \in Clients : \A j \in Records(s) : Holds(s, j) => Holds(s, j)'
    BY <2>1 DEF Holds
  <2> QED BY <2>1, <2>2, <2>3, OrphanFrame DEF OrphanInv
<1> QED BY <1>1, <1>2

\* Every step keeps the orphan invariant.
LEMMA OrphanNext == TypeOK /\ ClaimInv /\ OrphanInv /\ [Next]_vars => OrphanInv'
<1> SUFFICES ASSUME TypeOK, ClaimInv, OrphanInv, [Next]_vars PROVE OrphanInv'
  OBVIOUS
<1>1. ASSUME NEW r \in Clients, Request(r) PROVE OrphanInv'
  BY <1>1, StartOrphan, PrepareRecordOrphan, BeginReserveOrphan, ReserveKeyOrphan, AbortOrphan,
     PublishOrphan, PublishFailedOrphan, CommitOrphan, CommitDropOrphan, BeginReleaseOrphan,
     ReleaseClaimOrphan, AnswerOrphan DEF Request
<1> QED BY <1>1, StoreActorsOrphan DEF Next

\* A window that stops leaves no claim behind: every pending entry is held by
\* a request still settling it or was left to its lease on purpose, so an
\* aborted, refused or half-published window never answers its client's retry
\* with in-flight for a claim nobody will settle.
THEOREM NoneOrphaned == Spec => []NoOrphanClaim
<1>1. TypeOK /\ ClaimInv /\ OrphanInv /\ [Next]_vars => (TypeOK /\ ClaimInv /\ OrphanInv)'
  BY TypeNext, ClaimNext, OrphanNext
<1>2. Init => TypeOK /\ ClaimInv /\ OrphanInv
  BY TypeInit, ClaimInit, OrphanInit
<1>3. OrphanInv => NoOrphanClaim
  BY DEF OrphanInv
<1> QED BY <1>1, <1>2, <1>3, PTL DEF Spec

-----------------------------------------------------------------------------
(* What 200 means.  A record is skipped as a duplicate of an earlier       *)
(* commit or of an earlier record of its window, and a commit, on disk or  *)
(* in what a crash may bring back, is of a record that was published.      *)

StoredInv ==
    \A k \in Ids :
        queue[k].n > 0 \/ disk[k].kind = "commit" \/ unsynced[k].kind = "commit" => queue[k].any

HandledInv ==
    \A r \in Clients : \A i \in Records(r) :
        /\ i \in toCommit[r] => queue[win[r][i]].any
        /\ pc[r] = "publish" /\ i < pos[r] => queue[win[r][i]].any
        /\ answer[r] = "ok" => queue[win[r][i]].any
        /\ pc[r] \in {"idle", "prepare", "begin"} => recs[r][i].claim.status = "none"
        /\ recs[r][i].claim.status = "duplicate" => queue[win[r][i]].any \/ Repeated(r, i)

FromTheFirstInv == \A r \in Clients : pc[r] \in {"begin", "decide"} => pos[r] = 1

QueueInv == StoredInv /\ HandledInv /\ FromTheFirstInv

\* Nothing is stored, and nothing claimed or answered, initially.
LEMMA QueueInit == Init => QueueInv
<1> SUFFICES ASSUME Init PROVE QueueInv
  OBVIOUS
<1>1. StoredInv
  BY DEF Init, StoredInv, Absent, Version0
<1>2. \A r \in Clients : /\ pc[r] = "idle" /\ toCommit[r] = {} /\ answer[r] = "none"
                         /\ \A i \in Records(r) : recs[r][i].claim.status = "none"
  BY DEF Init, Blank, Rec, NoClaim
<1>3. HandledInv
  BY <1>2 DEF HandledInv
<1>4. FromTheFirstInv
  BY <1>2 DEF FromTheFirstInv
<1> QED BY <1>1, <1>3, <1>4 DEF QueueInv

\* A queue that only gains.
Gains == \A k \in Ids : queue[k].any => queue'[k].any

\* What the queue does with a publish: the record's id has a copy after it, the
\* other ids keep theirs, and a counted copy is a copy.
LEMMA QueuedFacts ==
    ASSUME TypeOK, StoredInv, NEW k \in Ids, NEW claimed \in BOOLEAN,
           queue' = Queued(queue, k, claimed)
    PROVE  /\ Gains /\ queue'[k].any
           /\ \A x \in Ids : queue'[x].n > 0 => queue'[x].any
<1>1. queue \in [Ids -> [n : Nat, at : Nat, any : BOOLEAN]]
  BY DEF TypeOK, HistoryType
<1>2. CASE ~claimed
  <2>1. queue' = [queue EXCEPT ![k].any = TRUE]
    BY <1>2 DEF Queued
  <2>2. /\ \A x \in Ids \ {k} : queue'[x] = queue[x]
        /\ queue'[k].any = TRUE
    BY <1>1, <2>1
  <2> QED BY <2>2 DEF Gains, StoredInv
<1>3. CASE claimed /\ queue[k].n > 0 /\ now < queue[k].at + DuplicateWindow
  <2>1. queue' = queue
    BY <1>3 DEF Queued
  <2> QED BY <1>3, <2>1 DEF Gains, StoredInv
<1>4. CASE claimed /\ ~(queue[k].n > 0 /\ now < queue[k].at + DuplicateWindow)
  <2>1. queue' = [queue EXCEPT ![k] = [n |-> queue[k].n + 1, at |-> now, any |-> TRUE]]
    BY <1>4 DEF Queued
  <2>2. /\ \A x \in Ids \ {k} : queue'[x] = queue[x]
        /\ queue'[k].any = TRUE
    BY <1>1, <2>1
  <2> QED BY <2>2 DEF Gains, StoredInv
<1> QED BY <1>2, <1>3, <1>4

\* Steps that change no window, no record and no store: what they add to the
\* commits or answer is in the queue.
LEMMA QueueFrame ==
    ASSUME TypeOK, QueueInv, UNCHANGED <<win, recs, disk, unsynced>>, Gains,
           \A k \in Ids : queue'[k].n > 0 => queue'[k].any,
           \A r \in Clients : \A i \in Records(r) :
               /\ i \in toCommit'[r] => i \in toCommit[r] \/ queue'[win[r][i]].any
               /\ pc'[r] = "publish" /\ i < pos'[r] =>
                      (pc[r] = "publish" /\ i < pos[r]) \/ queue'[win[r][i]].any
               /\ answer'[r] = "ok" => answer[r] = "ok" \/ queue'[win[r][i]].any
               /\ pc'[r] \in {"idle", "prepare", "begin"} =>
                      pc[r] \in {"idle", "prepare", "begin"},
           \A r \in Clients : pc'[r] \in {"begin", "decide"} =>
               pc'[r] = pc[r] /\ pos'[r] = pos[r]
    PROVE  QueueInv'
<1>1. \A r \in Clients : \A i \in Records(r) : win[r][i] \in Ids
  BY WindowFacts
<1>2. StoredInv'
  BY DEF QueueInv, StoredInv, Gains
<1>3. HandledInv'
  <2> SUFFICES ASSUME NEW r \in Clients, NEW i \in Records(r)
               PROVE  /\ i \in toCommit'[r] => queue'[win[r][i]].any
                      /\ pc'[r] = "publish" /\ i < pos'[r] => queue'[win[r][i]].any
                      /\ answer'[r] = "ok" => queue'[win[r][i]].any
                      /\ pc'[r] \in {"idle", "prepare", "begin"} => recs[r][i].claim.status = "none"
                      /\ recs[r][i].claim.status = "duplicate" =>
                             queue'[win[r][i]].any \/ Repeated(r, i)
    BY DEF HandledInv, Records, Repeated
  <2>1. queue[win[r][i]].any => queue'[win[r][i]].any
    BY <1>1 DEF Gains
  <2>2. /\ i \in toCommit[r] => queue[win[r][i]].any
        /\ pc[r] = "publish" /\ i < pos[r] => queue[win[r][i]].any
        /\ answer[r] = "ok" => queue[win[r][i]].any
        /\ pc[r] \in {"idle", "prepare", "begin"} => recs[r][i].claim.status = "none"
        /\ recs[r][i].claim.status = "duplicate" => queue[win[r][i]].any \/ Repeated(r, i)
    BY DEF QueueInv, HandledInv
  <2>3. /\ i \in toCommit'[r] => queue'[win[r][i]].any
        /\ pc'[r] = "publish" /\ i < pos'[r] => queue'[win[r][i]].any
        /\ answer'[r] = "ok" => queue'[win[r][i]].any
    BY <2>1, <2>2
  <2>4. pc'[r] \in {"idle", "prepare", "begin"} => recs[r][i].claim.status = "none"
    BY <2>2
  <2>5. recs[r][i].claim.status = "duplicate" => queue'[win[r][i]].any \/ Repeated(r, i)
    BY <2>1, <2>2
  <2> QED BY <2>3, <2>4, <2>5
<1>4. FromTheFirstInv'
  BY DEF QueueInv, FromTheFirstInv
<1> QED BY <1>2, <1>3, <1>4 DEF QueueInv

\* Steps that touch neither the queue nor the store, and neither publish nor
\* end a window.
LEMMA QuietQueue ==
    ASSUME TypeOK, QueueInv, NEW r \in Clients,
           \/ Start(r) \/ BeginReserve(r) \/ ReserveFails(r) \/ Decide(r) \/ CommitFails(r)
           \/ CommitDrop(r) \/ BeginRelease(r) \/ ReleaseClaim(r)
    PROVE  QueueInv'
<1>1. /\ \A s \in Clients \ {r} :
             pc'[s] = pc[s] /\ toCommit'[s] = toCommit[s] /\ answer'[s] = answer[s]
      /\ UNCHANGED <<win, recs, disk, unsynced, queue, pos>>
      /\ toCommit'[r] \subseteq toCommit[r]
      /\ answer'[r] = "ok" => answer[r] = "ok"
      /\ pc'[r] \in {"idle", "prepare", "begin"} => pc[r] \in {"idle", "prepare", "begin"}
      /\ pc'[r] \notin {"begin", "decide"}
      /\ pc'[r] = "publish" => pc[r] \in {"begin", "decide"}
  <2>1. pc \in [Clients -> Phases] /\ answer \in [Clients -> Answers] /\ DOMAIN toCommit = Clients
    BY DEF TypeOK, ControlType, WindowType
  <2>2. CASE Start(r)
    BY <2>1, <2>2 DEF Start, storeVars
  <2>3. CASE BeginReserve(r)
    <3>1. \/ pc' = [pc EXCEPT ![r] = "publish"] /\ answer' = answer
          \/ pc' = [pc EXCEPT ![r] = "settle"] /\ answer' = [answer EXCEPT ![r] = "busy"]
          \/ pc' = [pc EXCEPT ![r] = "reserve"] /\ answer' = answer
      BY <2>3 DEF BeginReserve
    <3>2. pc[r] = "begin" /\ UNCHANGED <<win, recs, disk, unsynced, queue, pos, toCommit>>
      BY <2>3 DEF BeginReserve, storeVars
    <3> QED BY <2>1, <3>1, <3>2
  <2>4. CASE ReserveFails(r) \/ Decide(r)
    BY <2>1, <2>4 DEF ReserveFails, Decide, storeVars
  <2>5. CASE CommitFails(r) \/ CommitDrop(r)
    BY <2>1, <2>5 DEF CommitFails, CommitDrop, storeVars, histVars
  <2>6. CASE BeginRelease(r) \/ ReleaseClaim(r)
    BY <2>1, <2>6 DEF BeginRelease, ReleaseClaim, storeVars, histVars
  <2> QED BY <2>2, <2>3, <2>4, <2>5, <2>6
<1>2. Gains /\ \A k \in Ids : queue'[k].n > 0 => queue'[k].any
  BY <1>1 DEF Gains, QueueInv, StoredInv
<1>3. pc'[r] = "publish" => \A i \in Records(r) : ~(i < pos'[r])
  BY <1>1, WindowFacts DEF QueueInv, FromTheFirstInv, Records
<1>4. \A s \in Clients : \A i \in Records(s) :
          /\ i \in toCommit'[s] => i \in toCommit[s] \/ queue'[win[s][i]].any
          /\ pc'[s] = "publish" /\ i < pos'[s] =>
                 (pc[s] = "publish" /\ i < pos[s]) \/ queue'[win[s][i]].any
          /\ answer'[s] = "ok" => answer[s] = "ok" \/ queue'[win[s][i]].any
          /\ pc'[s] \in {"idle", "prepare", "begin"} => pc[s] \in {"idle", "prepare", "begin"}
  BY <1>1, <1>3
<1>5. \A s \in Clients : pc'[s] \in {"begin", "decide"} => pc'[s] = pc[s] /\ pos'[s] = pos[s]
  BY <1>1
<1> QED BY <1>1, <1>2, <1>4, <1>5, QueueFrame

\* PrepareRecord keeps the queue invariant.
LEMMA PrepareRecordQueue ==
    ASSUME TypeOK, QueueInv, NEW r \in Clients, PrepareRecord(r)
    PROVE  QueueInv'
<1>1. /\ \A s \in Clients \ {r} : recs'[s] = recs[s] /\ pc'[s] = pc[s] /\ pos'[s] = pos[s]
      /\ pc[r] = "prepare" /\ pc'[r] \in {"prepare", "begin"}
      /\ pc'[r] = "begin" => pos'[r] = 1
      /\ UNCHANGED <<win, disk, unsynced, queue, toCommit, answer>>
  BY DEF TypeOK, ControlType, WindowType, PrepareRecord, NextRecord, storeVars
<1>2. \A i \in Records(r) : recs'[r][i].claim.status = "none"
  <2>1. recs[r] \in [Records(r) -> RecVals] /\ pos[r] \in Records(r) /\ r \in DOMAIN recs
    BY DEF TypeOK, WindowType, ControlType
  <2>2. recs'[r] = [recs[r] EXCEPT ![pos[r]] = Rec(setting.enabled, setting.retention)]
    BY <2>1 DEF PrepareRecord
  <2>3. \A i \in Records(r) : recs[r][i].claim.status = "none"
    BY <1>1 DEF QueueInv, HandledInv
  <2> QED BY <2>1, <2>2, <2>3 DEF Rec, NoClaim
<1>3. StoredInv'
  BY <1>1 DEF QueueInv, StoredInv
<1>4. HandledInv'
  <2> SUFFICES ASSUME NEW s \in Clients, NEW i \in Records(s)
               PROVE  /\ i \in toCommit[s] => queue[win[s][i]].any
                      /\ pc'[s] = "publish" /\ i < pos'[s] => queue[win[s][i]].any
                      /\ answer[s] = "ok" => queue[win[s][i]].any
                      /\ pc'[s] \in {"idle", "prepare", "begin"} => recs'[s][i].claim.status = "none"
                      /\ recs'[s][i].claim.status = "duplicate" =>
                             queue[win[s][i]].any \/ Repeated(s, i)'
    BY <1>1 DEF HandledInv, Records
  <2>1. CASE s = r
    BY <1>1, <1>2, <2>1 DEF QueueInv, HandledInv
  <2>2. CASE s # r
    BY <1>1, <2>2 DEF QueueInv, HandledInv, Repeated
  <2> QED BY <2>1, <2>2
<1>5. FromTheFirstInv'
  BY <1>1 DEF QueueInv, FromTheFirstInv
<1> QED BY <1>3, <1>4, <1>5 DEF QueueInv

\* ReserveKey keeps the queue invariant: a duplicate is one of a commit, which
\* was published, or of an earlier record.
LEMMA ReserveKeyQueue ==
    ASSUME TypeOK, QueueInv, NEW r \in Clients, ReserveKey(r)
    PROVE  QueueInv'
<1>1. UNCHANGED <<win, disk, unsynced, queue, toCommit, answer>>
  BY DEF ReserveKey
<1>2. /\ pos[r] \in Records(r) /\ win[r][pos[r]] \in Ids
      /\ \A s \in Clients : \A j \in Records(s) :
             ~(s = r /\ j = pos[r]) => recs'[s][j] = recs[s][j]
      /\ recs'[r][pos[r]].keyed = recs[r][pos[r]].keyed
      /\ recs'[r][pos[r]].claim.status = "duplicate" =>
             Repeated(r, pos[r]) \/ disk[win[r][pos[r]]].kind = "commit"
      /\ \A s \in Clients \ {r} : pc'[s] = pc[s] /\ pos'[s] = pos[s]
      /\ pc[r] = "reserve" /\ pc'[r] \in {"reserve", "decide"}
  BY ReserveKeyFacts
<1>3. pc'[r] = "decide" => pos'[r] = 1
  BY <1>2 DEF ReserveKey, NextRecord, TypeOK, ControlType
<1>4. \A s \in Clients : \A j \in Records(s) : recs'[s][j].keyed = recs[s][j].keyed
  BY <1>2
<1>5. \A s \in Clients : \A j \in Records(s) : Repeated(s, j) => Repeated(s, j)'
  <2> SUFFICES ASSUME NEW s \in Clients, NEW j \in Records(s), Repeated(s, j)
               PROVE  \E m \in 1..(j - 1) : recs'[s][m].keyed /\ win[s][m] = win[s][j]
    BY <1>1 DEF Repeated
  <2>1. PICK m \in 1..(j - 1) : recs[s][m].keyed /\ win[s][m] = win[s][j]
    BY DEF Repeated
  <2>2. m \in Records(s)
    BY <2>1, WindowFacts DEF Records
  <2> QED BY <1>4, <2>1, <2>2
<1>6. StoredInv'
  BY <1>1 DEF QueueInv, StoredInv
<1>7. HandledInv'
  <2> SUFFICES ASSUME NEW s \in Clients, NEW i \in Records(s)
               PROVE  /\ i \in toCommit[s] => queue[win[s][i]].any
                      /\ pc'[s] = "publish" /\ i < pos'[s] => queue[win[s][i]].any
                      /\ answer[s] = "ok" => queue[win[s][i]].any
                      /\ pc'[s] \in {"idle", "prepare", "begin"} => recs'[s][i].claim.status = "none"
                      /\ recs'[s][i].claim.status = "duplicate" =>
                             queue[win[s][i]].any \/ Repeated(s, i)'
    BY <1>1 DEF HandledInv, Records
  <2>1. /\ i \in toCommit[s] => queue[win[s][i]].any
        /\ answer[s] = "ok" => queue[win[s][i]].any
    BY DEF QueueInv, HandledInv
  <2>2. pc'[s] = "publish" /\ i < pos'[s] => queue[win[s][i]].any
    BY <1>2 DEF QueueInv, HandledInv
  <2>3. pc'[s] \in {"idle", "prepare", "begin"} => recs'[s][i].claim.status = "none"
    BY <1>2 DEF QueueInv, HandledInv
  <2>4. recs'[s][i].claim.status = "duplicate" => queue[win[s][i]].any \/ Repeated(s, i)'
    <3>1. CASE s = r /\ i = pos[r]
      <4>1. disk[win[r][pos[r]]].kind = "commit" => queue[win[r][pos[r]]].any
        BY <1>2 DEF QueueInv, StoredInv
      <4> QED BY <1>2, <1>5, <3>1, <4>1
    <3>2. CASE ~(s = r /\ i = pos[r])
      BY <1>2, <1>5, <3>2 DEF QueueInv, HandledInv
    <3> QED BY <3>1, <3>2
  <2> QED BY <2>1, <2>2, <2>3, <2>4
<1>8. FromTheFirstInv'
  BY <1>2, <1>3 DEF QueueInv, FromTheFirstInv
<1> QED BY <1>6, <1>7, <1>8 DEF QueueInv

\* The record a publish is at is in the queue after it, the one passed over as
\* a duplicate included: an earlier record of the window had its id published.
LEMMA PublishedNow ==
    ASSUME TypeOK, QueueInv, NEW r \in Clients, Publish(r)
    PROVE  /\ Gains /\ queue'[win[r][pos[r]]].any
           /\ \A k \in Ids : queue'[k].n > 0 => queue'[k].any
<1> DEFINE k == win[r][pos[r]]
           status == recs[r][pos[r]].claim.status
<1>1. pos[r] \in Records(r) /\ k \in Ids
  BY WindowFacts DEF TypeOK, ControlType
<1>2. CASE status = "duplicate"
  <2>1. queue' = queue /\ pc[r] = "publish"
    BY <1>2 DEF Publish
  <2>2. queue[k].any \/ Repeated(r, pos[r])
    BY <1>1, <1>2 DEF QueueInv, HandledInv
  <2>3. ASSUME Repeated(r, pos[r]) PROVE queue[k].any
    <3>1. PICK m \in 1..(pos[r] - 1) : win[r][m] = k
      BY <2>3 DEF Repeated
    <3>2. m \in Records(r) /\ m < pos[r]
      BY <1>1, <3>1, WindowFacts DEF Records
    <3> QED BY <2>1, <3>1, <3>2 DEF QueueInv, HandledInv
  <2> QED BY <2>1, <2>2, <2>3 DEF Gains, QueueInv, StoredInv
<1>3. CASE status # "duplicate"
  <2>1. queue' = Queued(queue, k, status = "claimed")
    BY <1>3 DEF Publish
  <2>2. (status = "claimed") \in BOOLEAN
    OBVIOUS
  <2> HIDE DEF k, status
  <2>3. /\ Gains /\ queue'[k].any
        /\ \A x \in Ids : queue'[x].n > 0 => queue'[x].any
    BY <1>1, <2>1, <2>2, QueuedFacts DEF QueueInv
  <2> QED BY <2>3 DEF k
<1> QED BY <1>2, <1>3

\* Publish keeps the queue invariant.
LEMMA PublishQueue ==
    ASSUME TypeOK, QueueInv, NEW r \in Clients, Publish(r)
    PROVE  QueueInv'
<1>1. /\ \A s \in Clients \ {r} :
             /\ pc'[s] = pc[s] /\ pos'[s] = pos[s]
             /\ toCommit'[s] = toCommit[s] /\ answer'[s] = answer[s]
      /\ pc[r] = "publish"
      /\ UNCHANGED <<win, recs, disk, unsynced>>
  BY DEF TypeOK, ControlType, WindowType, Publish, NextRecord, storeVars
<1>2. \/ /\ pc'[r] = "publish" /\ pos'[r] = pos[r] + 1
         /\ toCommit'[r] = toCommit[r] /\ answer'[r] = answer[r]
      \/ /\ pos[r] = Len(win[r]) /\ pc'[r] = "settle"
         /\ toCommit'[r] \subseteq Records(r)
  <2>1. pos[r] \in 1..Len(win[r]) /\ Len(win[r]) \in Nat
    BY WindowFacts DEF TypeOK, ControlType, Records
  <2>2. CASE pos[r] < Len(win[r])
    BY <1>1, <2>2 DEF TypeOK, ControlType, Publish, NextRecord
  <2>3. CASE ~(pos[r] < Len(win[r]))
    BY <2>1, <2>3 DEF TypeOK, ControlType, WindowType, Publish, NextRecord, ClaimedIn
  <2> QED BY <2>2, <2>3
<1>3. Gains /\ queue'[win[r][pos[r]]].any /\ \A k \in Ids : queue'[k].n > 0 => queue'[k].any
  BY PublishedNow
<1>4. \A i \in Records(r) : i <= pos[r] => queue'[win[r][i]].any
  <2> SUFFICES ASSUME NEW i \in Records(r), i <= pos[r] PROVE queue'[win[r][i]].any
    OBVIOUS
  <2>1. i \in Nat /\ pos[r] \in Nat /\ win[r][i] \in Ids
    BY WindowFacts DEF TypeOK, ControlType
  <2>2. i < pos[r] => queue[win[r][i]].any
    BY <1>1 DEF QueueInv, HandledInv
  <2>3. i = pos[r] \/ i < pos[r]
    BY <2>1
  <2> QED BY <1>3, <2>1, <2>2, <2>3 DEF Gains
<1>5. \A s \in Clients : \A i \in Records(s) :
          /\ i \in toCommit'[s] => i \in toCommit[s] \/ queue'[win[s][i]].any
          /\ pc'[s] = "publish" /\ i < pos'[s] =>
                 (pc[s] = "publish" /\ i < pos[s]) \/ queue'[win[s][i]].any
          /\ answer'[s] = "ok" => answer[s] = "ok" \/ queue'[win[s][i]].any
          /\ pc'[s] \in {"idle", "prepare", "begin"} => pc[s] \in {"idle", "prepare", "begin"}
  <2>1. \A i \in Records(r) : pos[r] = Len(win[r]) => i <= pos[r]
    BY WindowFacts DEF Records
  <2>2. \A i \in Records(r) : i < pos[r] + 1 => i <= pos[r]
    BY WindowFacts DEF TypeOK, ControlType, Records
  <2> QED BY <1>1, <1>2, <1>4, <2>1, <2>2
<1>6. \A s \in Clients : pc'[s] \in {"begin", "decide"} => pc'[s] = pc[s] /\ pos'[s] = pos[s]
  BY <1>1, <1>2
<1> QED BY <1>1, <1>3, <1>5, <1>6, QueueFrame

\* A failed publish commits only what was published before it.
LEMMA PublishFailedQueue ==
    ASSUME TypeOK, QueueInv, NEW r \in Clients, PublishRefused(r) \/ PublishLost(r)
    PROVE  QueueInv'
<1>1. /\ \A s \in Clients \ {r} :
             pc'[s] = pc[s] /\ toCommit'[s] = toCommit[s] /\ answer'[s] = answer[s]
      /\ pc[r] = "publish" /\ pc'[r] = "settle" /\ toCommit'[r] = PublishedClaims(r)
      /\ answer'[r] # "ok"
      /\ UNCHANGED <<win, recs, disk, unsynced, pos>>
  BY DEF TypeOK, ControlType, WindowType, PublishRefused, PublishLost, storeVars
<1>2. Gains /\ \A k \in Ids : queue'[k].n > 0 => queue'[k].any
  <2>1. CASE queue' = queue
    BY <2>1 DEF Gains, QueueInv, StoredInv
  <2>2. CASE queue' = Queued(queue, win[r][pos[r]], recs[r][pos[r]].claim.status = "claimed")
    <3>1. win[r][pos[r]] \in Ids
      BY WindowFacts DEF TypeOK, ControlType
    <3>2. (recs[r][pos[r]].claim.status = "claimed") \in BOOLEAN
      OBVIOUS
    <3> QED BY <2>2, <3>1, <3>2, QueuedFacts DEF QueueInv
  <2> QED BY <2>1, <2>2 DEF PublishRefused, PublishLost
<1>3. \A i \in Records(r) : i \in toCommit'[r] => queue'[win[r][i]].any
  <2>1. \A i \in toCommit'[r] : i < pos[r]
    BY <1>1 DEF PublishedClaims, ClaimedIn, TypeOK, ControlType
  <2>2. \A i \in Records(r) : i < pos[r] => queue[win[r][i]].any
    BY <1>1 DEF QueueInv, HandledInv
  <2> QED BY <1>2, <2>1, <2>2, WindowFacts DEF Gains
<1>4. \A s \in Clients : \A i \in Records(s) :
          /\ i \in toCommit'[s] => i \in toCommit[s] \/ queue'[win[s][i]].any
          /\ pc'[s] = "publish" /\ i < pos'[s] =>
                 (pc[s] = "publish" /\ i < pos[s]) \/ queue'[win[s][i]].any
          /\ answer'[s] = "ok" => answer[s] = "ok" \/ queue'[win[s][i]].any
          /\ pc'[s] \in {"idle", "prepare", "begin"} => pc[s] \in {"idle", "prepare", "begin"}
  BY <1>1, <1>3
<1>5. \A s \in Clients : pc'[s] \in {"begin", "decide"} => pc'[s] = pc[s] /\ pos'[s] = pos[s]
  BY <1>1
<1> QED BY <1>1, <1>2, <1>4, <1>5, QueueFrame

\* A commit is of records that were published.
LEMMA CommitWriteQueue ==
    ASSUME TypeOK, QueueInv, NEW r \in Clients, CommitWrite(r)
    PROVE  QueueInv'
<1> DEFINE keys == {win[r][i] : i \in CommitGroup(r)}
<1>1. /\ \A s \in Clients \ {r} : pc'[s] = pc[s] /\ toCommit'[s] = toCommit[s]
      /\ pc[r] = "settle" /\ pc'[r] = "drop"
      /\ toCommit'[r] \subseteq toCommit[r]
      /\ \A k \in Ids : k \in keys \/ disk'[k] = disk[k]
      /\ \A k \in Ids : unsynced'[k] = Absent
      /\ UNCHANGED <<win, recs, queue, pos, answer>>
  BY DEF TypeOK, ControlType, WindowType, CommitWrite
<1>2. \A k \in keys : queue[k].any
  <2>1. CommitGroup(r) \subseteq toCommit[r] /\ toCommit[r] \subseteq Records(r)
    BY CommitFacts DEF CommitWrite, TypeOK, WindowType
  <2> QED BY <2>1 DEF QueueInv, HandledInv
<1> HIDE DEF keys
<1>3. StoredInv'
  BY <1>1, <1>2 DEF QueueInv, StoredInv, Absent
<1>4. HandledInv'
  <2>1. \A s \in Clients : toCommit'[s] \subseteq toCommit[s]
    BY <1>1
  <2>2. \A s \in Clients : pc'[s] = pc[s] \/ pc'[s] = "drop"
    BY <1>1
  <2> QED BY <1>1, <2>1, <2>2 DEF QueueInv, HandledInv, Records, Repeated
<1>5. FromTheFirstInv'
  BY <1>1 DEF QueueInv, FromTheFirstInv
<1> QED BY <1>3, <1>4, <1>5 DEF QueueInv

\* Answer keeps the queue invariant.
LEMMA AnswerQueue ==
    ASSUME TypeOK, QueueInv, NEW r \in Clients, Answer(r)
    PROVE  QueueInv'
<1>1. /\ \A s \in Clients \ {r} : recs'[s] = recs[s] /\ pc'[s] = pc[s] /\ pos'[s] = pos[s]
      /\ pc'[r] = "idle"
      /\ UNCHANGED <<win, disk, unsynced, queue, toCommit, answer>>
  BY DEF TypeOK, ControlType, WindowType, Answer, storeVars
<1>2. \A i \in Records(r) : recs'[r][i].claim.status = "none"
  BY DEF TypeOK, WindowType, Answer, Blank, Rec, NoClaim
<1>3. StoredInv'
  BY <1>1 DEF QueueInv, StoredInv
<1>4. HandledInv'
  <2> SUFFICES ASSUME NEW s \in Clients, NEW i \in Records(s)
               PROVE  /\ i \in toCommit[s] => queue[win[s][i]].any
                      /\ pc'[s] = "publish" /\ i < pos'[s] => queue[win[s][i]].any
                      /\ answer[s] = "ok" => queue[win[s][i]].any
                      /\ pc'[s] \in {"idle", "prepare", "begin"} => recs'[s][i].claim.status = "none"
                      /\ recs'[s][i].claim.status = "duplicate" =>
                             queue[win[s][i]].any \/ Repeated(s, i)'
    BY <1>1 DEF HandledInv, Records
  <2>1. CASE s = r
    BY <1>1, <1>2, <2>1 DEF QueueInv, HandledInv
  <2>2. CASE s # r
    BY <1>1, <2>2 DEF QueueInv, HandledInv, Repeated
  <2> QED BY <2>1, <2>2
<1>5. FromTheFirstInv'
  BY <1>1 DEF QueueInv, FromTheFirstInv
<1> QED BY <1>3, <1>4, <1>5 DEF QueueInv

\* The sweep and a crash move values of the store between the disk and what a
\* crash may bring back; every one of them is of a published id.
LEMMA StoreActorsQueue ==
    ASSUME TypeOK, QueueInv,
           SweepScan \/ SweepDelete \/ Reload \/ Apply \/ Tick \/ UNCHANGED vars
    PROVE  QueueInv'
<1>1. UNCHANGED <<pc, win, recs, pos, toCommit, answer, queue>>
  BY DEF SweepScan, SweepDelete, Reload, Apply, Tick, reqVars, vars
<1>2. \A k \in Ids : /\ disk'[k] \in {disk[k], Absent}
                     /\ unsynced'[k] \in {unsynced[k], disk[k]}
  BY DEF SweepScan, SweepDelete, Reload, Apply, Tick, storeVars, vars, TypeOK, StoreType
<1>3. StoredInv'
  BY <1>1, <1>2 DEF QueueInv, StoredInv, Absent
<1>4. HandledInv'
  BY <1>1 DEF QueueInv, HandledInv, Records, Repeated
<1>5. FromTheFirstInv'
  BY <1>1 DEF QueueInv, FromTheFirstInv
<1> QED BY <1>3, <1>4, <1>5 DEF QueueInv

\* Crash keeps the queue invariant.
LEMMA CrashQueue ==
    ASSUME TypeOK, QueueInv, Crash
    PROVE  QueueInv'
<1>1. /\ \A r \in Clients : /\ pc'[r] = "idle" /\ toCommit'[r] = {}
                            /\ answer'[r] \in {answer[r], "lost"}
                            /\ \A i \in Records(r) : recs'[r][i].claim.status = "none"
      /\ UNCHANGED <<win, queue>>
  BY DEF Crash, Blank, Rec, NoClaim
<1>2. \A k \in Ids : disk'[k] \in {disk[k], unsynced[k]} /\ unsynced'[k] = Absent
  BY DEF Crash
<1>3. StoredInv'
  BY <1>1, <1>2 DEF QueueInv, StoredInv, Absent
<1>4. HandledInv'
  BY <1>1 DEF QueueInv, HandledInv, Records
<1>5. FromTheFirstInv'
  BY <1>1 DEF FromTheFirstInv
<1> QED BY <1>3, <1>4, <1>5 DEF QueueInv

\* Every step keeps the queue invariant.
LEMMA QueueNext == TypeOK /\ QueueInv /\ [Next]_vars => QueueInv'
<1> SUFFICES ASSUME TypeOK, QueueInv, [Next]_vars PROVE QueueInv'
  OBVIOUS
<1>1. ASSUME NEW r \in Clients, Request(r) PROVE QueueInv'
  BY <1>1, QuietQueue, PrepareRecordQueue, ReserveKeyQueue, PublishQueue, PublishFailedQueue,
     CommitWriteQueue, AnswerQueue DEF Request
<1> QED BY <1>1, StoreActorsQueue, CrashQueue DEF Next

\* A 200 is a promise kept: every record of a window so answered is in the
\* ingest queue, those skipped as duplicates of an earlier window's commit or
\* of an earlier record included, whatever the sweep, the switch of the store
\* and crashes do to what the decision was read from.
THEOREM AcceptedQueued == Spec => []AcceptedIsQueued
<1>1. TypeOK /\ QueueInv /\ [Next]_vars => (TypeOK /\ QueueInv)'
  BY TypeNext, QueueNext
<1>2. Init => TypeOK /\ QueueInv
  BY TypeInit, QueueInit
<1>3. QueueInv => AcceptedIsQueued
  BY DEF QueueInv, HandledInv, AcceptedIsQueued
<1> QED BY <1>1, <1>2, <1>3, PTL DEF Spec
=============================================================================
