------------------------- MODULE EmbeddedQueueProofs -------------------------
(***************************************************************************)
(* Proofs about EmbeddedQueue, for every set of consumers, every scene     *)
(* and every bound on rows, clock, faults and incarnations.                *)
(*                                                                         *)
(* PurgesOnlySettled rests on what the binary search knows between two     *)
(* lookups: everything below lo is older than the cutoff, although rows    *)
(* are stored, acked and deleted meanwhile, and although a lookup may find *)
(* no message.  It needs that times do not decrease along the sequences,   *)
(* and that lo never passes the next sequence to be given.                 *)
(*                                                                         *)
(* OpenIsHeld rests on what the broker knows of its streams: while it      *)
(* believes in an ingest stream that is there, nobody holds an older one.  *)
(***************************************************************************)
EXTENDS EmbeddedQueue, WellFoundedInduction, TLAPS

-----------------------------------------------------------------------------
(* The sweep's invariant.                                                  *)

SettingsType ==
    /\ scene \in DOMAIN Scenes
    /\ tenant \in Tenants

StreamType ==
    /\ last \in Nat /\ clock \in Nat
    /\ DOMAIN log \subseteq 1..last
    /\ log \in [DOMAIN log -> 0..clock]

SweepPcs == {"idle", "floor", "state", "oldest", "search"}

SweepType == sweep \in [pc : SweepPcs, cutoff : Int, floor : Nat, lo : Nat, hi : Int, result : Int]

\* Sequences are given in the order messages are stored.
InOrder == \A s, t \in DOMAIN log : s <= t => log[s] <= log[t]

\* What was below the floor when it was read stays acked, and no later
\* sequence is below it.
FloorSettled ==
    sweep.pc \in {"state", "oldest", "search"} =>
        /\ sweep.floor <= last
        /\ \A s \in DOMAIN log : s <= sweep.floor => s \in acked

\* The search has shown everything below lo to be before the cutoff.
SearchSound ==
    sweep.pc \in {"oldest", "search"} =>
        /\ sweep.lo <= sweep.hi + 1 /\ sweep.hi <= last
        /\ sweep.result = sweep.hi + 1
        /\ \A s \in DOMAIN log : s < sweep.lo => log[s] < sweep.cutoff

SweepInv == StreamType /\ SweepType /\ InOrder /\ FloorSettled /\ SearchSound

PurgeInv == SettingsType /\ SweepInv

-----------------------------------------------------------------------------
(* Least and greatest elements.                                            *)

\* The smaller of two sequences bounds whatever is below it by both.
LEMMA MinOfTwo ==
    ASSUME NEW a \in Int, NEW b \in Int
    PROVE  Min({a, b}) <= a /\ Min({a, b}) <= b /\ Min({a, b}) \in Int
<1> DEFINE S == {a, b}
<1>1. \E x \in S : \A y \in S : x <= y
    <2>1. CASE a <= b  BY <2>1
    <2>2. CASE b <= a  BY <2>2
    <2> QED  BY <2>1, <2>2
<1>2. Min(S) \in S /\ \A y \in S : Min(S) <= y  BY <1>1 DEF Min
<1> QED  BY <1>2

\* A non-empty set of naturals has a least element.
LEMMA LeastNat ==
    ASSUME NEW S \in SUBSET Nat, S # {}
    PROVE  \E x \in S : \A y \in S : x <= y
<1> DEFINE R == OpToRel(<, Nat)
<1>1. IsWellFoundedOn(R, Nat)  BY NatLessThanWellFounded
<1>2. \A x, y \in Nat : x < y => <<x, y>> \in R  BY DEF OpToRel
<1> HIDE DEF R
<1>3. PICK x \in S : \A y \in S : ~(<<y, x>> \in R)  BY <1>1, WFMin
<1>4. ASSUME NEW y \in S  PROVE x <= y
    <2>1. x \in Nat /\ y \in Nat  OBVIOUS
    <2>2. ~(y < x)  BY <1>2, <1>3, <2>1
    <2> QED  BY <2>1, <2>2
<1> QED  BY <1>4

\* A nonempty set of naturals has its minimum as a member, below every other.
LEMMA MinNat ==
    ASSUME NEW S \in SUBSET Nat, S # {}
    PROVE  Min(S) \in S /\ \A y \in S : Min(S) <= y
    BY LeastNat DEF Min

\* ... and one that is bounded has a greatest.
LEMMA MaxNat ==
    ASSUME NEW n \in Nat, NEW S \in SUBSET (0..n), S # {}
    PROVE  Max(S) \in S /\ \A y \in S : Max(S) >= y
<1> DEFINE T == {n - x : x \in S}
<1>1. T \in SUBSET Nat /\ T # {}
    <2>1. \A x \in S : x \in 0..n  OBVIOUS
    <2>2. \A x \in 0..n : n - x \in Nat  OBVIOUS
    <2>3. PICK x \in S : TRUE  OBVIOUS
    <2>4. n - x \in T  BY <2>3
    <2> QED  BY <2>1, <2>2, <2>4
<1>2. PICK t \in T : \A y \in T : t <= y  BY <1>1, LeastNat
<1>3. PICK x \in S : t = n - x  BY <1>2
<1>4. \A y \in S : x >= y
    <2> SUFFICES ASSUME NEW y \in S  PROVE x >= y  OBVIOUS
    <2>1. n - y \in T  OBVIOUS
    <2>2. n - x <= n - y  BY <1>2, <1>3, <2>1
    <2> QED  BY <2>2
<1> QED  BY <1>4 DEF Max

\* The ack floor is one of the sequences given, and everything up to it is acked.
LEMMA AckFloorFacts ==
    ASSUME StreamType
    PROVE  /\ ackFloor \in 0..last
           /\ \A s \in DOMAIN log : s <= ackFloor => s \in acked
<1> DEFINE S == {n \in 0..last : \A s \in DOMAIN log : s <= n => s \in acked}
<1>1. 0 \in S  BY DEF StreamType
<1>2. last \in Nat /\ S \in SUBSET (0..last) /\ S # {}  BY <1>1 DEF StreamType
<1>3. Max(S) \in S  BY <1>2, MaxNat
<1> QED  BY <1>3 DEF ackFloor

\* Nothing is stored below the first sequence.
LEMMA FirstSeqFacts ==
    ASSUME StreamType
    PROVE  /\ firstSeq \in 1..(last + 1)
           /\ \A s \in DOMAIN log : firstSeq <= s
<1>1. CASE DOMAIN log = {}  BY <1>1 DEF firstSeq, StreamType
<1>2. CASE DOMAIN log # {}
    <2>1. DOMAIN log \in SUBSET Nat  BY DEF StreamType
    <2>2. Min(DOMAIN log) \in DOMAIN log /\ \A y \in DOMAIN log : Min(DOMAIN log) <= y
        BY <1>2, <2>1, MinNat
    <2> QED  BY <1>2, <2>2 DEF firstSeq, StreamType
<1> QED  BY <1>1, <1>2

-----------------------------------------------------------------------------
(* The sweep's invariant is kept by every step of the stream and of the    *)
(* sweep.                                                                  *)

\* A publish stores its row above every message, at the present instant.
LEMMA StoreKeeps == ASSUME SweepInv, Store PROVE SweepInv'
<1> USE DEF SweepInv, Store
<1>1. DOMAIN log' = DOMAIN log \cup {last + 1}
    /\ \A s \in DOMAIN log' : log'[s] = IF s = last + 1 THEN clock ELSE log[s]
    OBVIOUS
<1>2. \A s \in DOMAIN log : s \in 1..last /\ log[s] \in 0..clock  BY DEF StreamType
<1>3. StreamType'
    <2>1. log' \in [DOMAIN log' -> 0..clock']
        <3>1. \A s \in DOMAIN log' : log'[s] \in 0..clock  BY <1>1, <1>2 DEF StreamType
        <3> QED  BY <3>1
    <2> QED  BY <1>1, <2>1 DEF StreamType
<1>4. SweepType'  BY DEF SweepType
<1>5. InOrder'
    <2> SUFFICES ASSUME NEW s \in DOMAIN log', NEW t \in DOMAIN log', s <= t
                 PROVE  log'[s] <= log'[t]
        BY DEF InOrder
    <2> QED  BY <1>1, <1>2 DEF InOrder, StreamType
<1>6. FloorSettled'  BY <1>1, <1>2 DEF FloorSettled, StreamType, SweepType
<1>7. SearchSound'  BY <1>1, <1>2 DEF SearchSound, StreamType, SweepType
<1> QED  BY <1>3, <1>4, <1>5, <1>6, <1>7

\* An ack only makes more messages settled.
LEMMA AckKeeps == ASSUME SweepInv, NEW s, Ack(s) PROVE SweepInv'
    BY DEF SweepInv, Ack, StreamType, SweepType, InOrder, FloorSettled, SearchSound

\* Removing rows keeps what is known of the others.
LEMMA RemovalKeeps ==
    ASSUME SweepInv, NEW S \in SUBSET DOMAIN log, log' = Restrict(log, S),
           UNCHANGED <<last, acked, clock>>, sweep' \in {sweep, NoSweep}
    PROVE  SweepInv'
<1>1. DOMAIN log' = S /\ \A s \in S : log'[s] = log[s]  BY DEF Restrict
<1>2. StreamType'
    <2>1. log' \in [DOMAIN log' -> 0..clock']  BY <1>1 DEF SweepInv, StreamType, Restrict
    <2> QED  BY <1>1, <2>1 DEF SweepInv, StreamType
<1>3. SweepType'  BY DEF SweepInv, SweepType, NoSweep, SweepPcs
<1>4. InOrder'  BY <1>1 DEF SweepInv, InOrder
<1>5. FloorSettled'  BY <1>1 DEF SweepInv, FloorSettled, NoSweep
<1>6. SearchSound'  BY <1>1 DEF SweepInv, SearchSound, NoSweep
<1> QED  BY <1>2, <1>3, <1>4, <1>5, <1>6 DEF SweepInv

\* Time passing ages no cutoff a sweep has taken.
LEMMA TickKeeps == ASSUME SweepInv, Tick PROVE SweepInv'
<1>1. StreamType'
    <2>1. 0..clock \subseteq 0..clock'  BY DEF SweepInv, StreamType, Tick
    <2> QED  BY <2>1 DEF SweepInv, StreamType, Tick
<1> QED  BY <1>1 DEF SweepInv, Tick, SweepType, InOrder, FloorSettled, SearchSound

\* The step's only change is to the sweep.
LEMMA StreamStays ==
    ASSUME SweepInv, UNCHANGED <<log, last, acked, clock>>
    PROVE  StreamType' /\ InOrder'
    BY DEF SweepInv, StreamType, InOrder

\* A sweep given up, or not begun, knows nothing.
LEMMA NoSweepKeeps ==
    ASSUME SweepInv, UNCHANGED <<log, last, acked, clock>>, sweep' = NoSweep
    PROVE  SweepInv'
    BY StreamStays DEF SweepInv, NoSweep, SweepType, SweepPcs, FloorSettled, SearchSound

\* A sweep starts with its cutoff and nothing read.
LEMMA SweepStartKeeps == ASSUME SweepInv, NEW c \in Int, SweepStart(c) PROVE SweepInv'
<1>1. StreamType' /\ InOrder'  BY StreamStays DEF SweepStart, SweepTo
<1>2. sweep' = [pc |-> "floor", cutoff |-> c, floor |-> 0, lo |-> 0, hi |-> 0, result |-> 0]
    BY DEF SweepStart, SweepTo, NoSweep
<1>3. SweepType'  BY <1>2 DEF SweepType, SweepPcs
<1> QED  BY <1>1, <1>2, <1>3 DEF SweepInv, FloorSettled, SearchSound

\* The ack floor read has only acked messages below it.
LEMMA ReadFloorKeeps == ASSUME SweepInv, ReadFloor PROVE SweepInv'
<1>1. ackFloor \in 0..last /\ \A s \in DOMAIN log : s <= ackFloor => s \in acked
    BY AckFloorFacts DEF SweepInv
<1>2. last \in Nat /\ UNCHANGED <<log, last, acked, clock>>
    BY DEF ReadFloor, SweepTo, SweepInv, StreamType
<1>3. StreamType' /\ InOrder'  BY <1>2, StreamStays
<1>4. sweep' = [sweep EXCEPT !.pc = "state", !.floor = ackFloor]  BY DEF ReadFloor, SweepTo
<1>5. SweepType'
    <2>1. ackFloor \in Nat /\ "state" \in SweepPcs  BY <1>1, <1>2 DEF SweepPcs
    <2>2. sweep \in [pc : SweepPcs, cutoff : Int, floor : Nat, lo : Nat, hi : Int, result : Int]
        BY DEF SweepInv, SweepType
    <2> QED  BY <1>4, <2>1, <2>2 DEF SweepType
<1>6. sweep'.pc = "state" /\ sweep'.floor = ackFloor  BY <1>4 DEF SweepInv, SweepType
<1>7. FloorSettled' /\ SearchSound'  BY <1>1, <1>2, <1>6 DEF FloorSettled, SearchSound
<1> QED  BY <1>3, <1>5, <1>7 DEF SweepInv

\* The search starts at a bound no message is below.
LEMMA ReadStateKeeps == ASSUME SweepInv, ReadState PROVE SweepInv'
<1>1. firstSeq \in 1..(last + 1) /\ \A s \in DOMAIN log : firstSeq <= s
    BY FirstSeqFacts DEF SweepInv
<1>2. last \in Nat /\ DOMAIN log \subseteq Nat /\ UNCHANGED <<log, last, acked, clock>>
    BY DEF ReadState, SweepTo, SweepInv, StreamType
<1>3. CASE firstSeq > last  BY <1>2, <1>3, NoSweepKeeps DEF ReadState, SweepTo
<1>4. CASE ~(firstSeq > last)
    <2>1. StreamType' /\ InOrder'  BY <1>2, StreamStays
    <2>2. sweep' = [sweep EXCEPT !.pc = "oldest", !.lo = firstSeq, !.hi = last, !.result = last + 1]
        BY <1>4 DEF ReadState, SweepTo
    <2>3. SweepType'
        <3>1. firstSeq \in Nat /\ last \in Int /\ last + 1 \in Int /\ "oldest" \in SweepPcs
            BY <1>1, <1>2 DEF SweepPcs
        <3>2. sweep \in [pc : SweepPcs, cutoff : Int, floor : Nat, lo : Nat, hi : Int, result : Int]
            BY DEF SweepInv, SweepType
        <3> QED  BY <2>2, <3>1, <3>2 DEF SweepType
    <2>4. /\ sweep'.lo = firstSeq /\ sweep'.hi = last /\ sweep'.result = last + 1
          /\ sweep'.floor = sweep.floor /\ sweep.pc = "state"
        BY <2>2 DEF SweepInv, SweepType, ReadState
    <2>5. FloorSettled'  BY <1>2, <2>4 DEF SweepInv, FloorSettled
    <2>6. SearchSound'  BY <1>1, <1>2, <2>4 DEF SearchSound
    <2> QED  BY <2>1, <2>3, <2>5, <2>6 DEF SweepInv
<1> QED  BY <1>3, <1>4

\* Reading the oldest message ends the sweep or lets the search begin.
LEMMA ReadOldestKeeps == ASSUME SweepInv, ReadOldest PROVE SweepInv'
<1> USE DEF SweepInv, ReadOldest, SweepTo
<1>1. StreamType' /\ InOrder'  BY StreamStays
<1>2. SweepType' /\ FloorSettled' /\ SearchSound'
    BY DEF SweepType, SweepPcs, NoSweep, FloorSettled, SearchSound
<1> QED  BY <1>1, <1>2

\* One probe of the binary search: the bound that moves stays sound.
LEMMA ProbeKeeps == ASSUME SweepInv, Probe PROVE SweepInv'
<1>1. /\ last \in Nat /\ UNCHANGED <<log, last, acked, clock>>
      /\ sweep.lo \in Nat /\ sweep.hi \in Int /\ sweep.lo <= sweep.hi /\ sweep.cutoff \in Int
      /\ sweep.pc = "search" /\ sweep.hi <= last
      /\ \A s \in DOMAIN log : s < sweep.lo => log[s] < sweep.cutoff
    BY DEF Probe, SweepTo, SweepInv, StreamType, SweepType, SearchSound
<1>2. StreamType' /\ InOrder'  BY <1>1, StreamStays
<1>3. Middle \in Nat /\ sweep.lo <= Middle /\ Middle <= sweep.hi  BY <1>1 DEF Middle
<1>4. CASE BeforeCutoff(Middle)
    <2>1. sweep' = [sweep EXCEPT !.lo = Middle + 1]  BY <1>4 DEF Probe, SweepTo
    <2>2. \A s \in DOMAIN log : s < Middle + 1 => log[s] < sweep.cutoff
        <3> SUFFICES ASSUME NEW s \in DOMAIN log, s < Middle + 1  PROVE log[s] < sweep.cutoff  OBVIOUS
        <3>1. s \in Nat /\ log[s] \in Nat /\ log[Middle] \in Nat
            BY <1>4 DEF SweepInv, StreamType, BeforeCutoff
        <3>2. log[s] <= log[Middle]  BY <1>3, <1>4, <3>1 DEF SweepInv, InOrder, BeforeCutoff
        <3> QED  BY <1>1, <1>4, <3>1, <3>2 DEF BeforeCutoff
    <2>3. SweepType'  BY <1>3, <2>1 DEF SweepInv, SweepType
    <2>4. /\ sweep'.lo = Middle + 1 /\ sweep'.hi = sweep.hi /\ sweep'.result = sweep.result
          /\ sweep'.cutoff = sweep.cutoff /\ sweep'.floor = sweep.floor /\ sweep'.pc = "search"
        BY <1>1, <2>1 DEF SweepInv, SweepType
    <2>5. FloorSettled'  BY <1>1, <2>4 DEF SweepInv, FloorSettled
    <2>6. SearchSound'  BY <1>1, <1>3, <2>2, <2>4 DEF SweepInv, SearchSound
    <2> QED  BY <1>2, <2>3, <2>5, <2>6 DEF SweepInv
<1>5. CASE ~BeforeCutoff(Middle)
    <2>1. sweep' = [sweep EXCEPT !.result = Middle, !.hi = Middle - 1]  BY <1>5 DEF Probe, SweepTo
    <2>2. SweepType'
        <3>1. Middle - 1 \in Int /\ Middle \in Int  BY <1>3
        <3>2. sweep \in [pc : SweepPcs, cutoff : Int, floor : Nat, lo : Nat, hi : Int, result : Int]
            BY DEF SweepInv, SweepType
        <3> QED  BY <2>1, <3>1, <3>2 DEF SweepType
    <2>3. /\ sweep'.lo = sweep.lo /\ sweep'.hi = Middle - 1 /\ sweep'.result = Middle
          /\ sweep'.cutoff = sweep.cutoff /\ sweep'.floor = sweep.floor /\ sweep'.pc = "search"
        BY <1>1, <2>1 DEF SweepInv, SweepType
    <2>4. FloorSettled'  BY <1>1, <2>3 DEF SweepInv, FloorSettled
    <2>5. SearchSound'  BY <1>1, <1>3, <2>3 DEF SweepInv, SearchSound
    <2> QED  BY <1>2, <2>2, <2>4, <2>5 DEF SweepInv
<1> QED  BY <1>4, <1>5

\* The purge removes what the search found settled and old.
LEMMA PurgeBelowKeeps == ASSUME SweepInv, PurgeBelow PROVE SweepInv'
    BY RemovalKeeps DEF PurgeBelow

\* What the purge removes was acked and before the cutoff.
LEMMA PurgeBelowSettled ==
    ASSUME SweepInv, PurgeBelow, NEW s \in DOMAIN log \ DOMAIN log'
    PROVE  s \in acked /\ log[s] < sweep.cutoff
<1>1. DOMAIN log' = {t \in DOMAIN log : t >= purgeTarget}  BY DEF PurgeBelow, Restrict
<1>2. sweep.floor + 1 \in Int /\ sweep.result \in Int  BY DEF SweepInv, SweepType
<1>3. purgeTarget <= sweep.floor + 1 /\ purgeTarget <= sweep.result /\ purgeTarget \in Int
    BY <1>2, MinOfTwo DEF purgeTarget
<1>4. s \in Nat /\ ~(s >= purgeTarget)  BY <1>1 DEF SweepInv, StreamType
<1>5. s <= sweep.floor /\ s < sweep.lo
    BY <1>3, <1>4 DEF SweepInv, SweepType, SearchSound, PurgeBelow
<1> QED  BY <1>5 DEF SweepInv, FloorSettled, SearchSound, PurgeBelow

\* A sweep that fails leaves the stream alone.
LEMMA SweepFailsKeeps == ASSUME SweepInv, SweepFails PROVE SweepInv'
    BY NoSweepKeeps DEF SweepFails

\* The cutoff a sweep starts with is an instant.
LEMMA CutoffType == ASSUME SettingsType, clock \in Nat PROVE gapCutoff \in Int
    BY DEF SettingsType, Tenants, gapCutoff

\* Budgets and switches keep their types through reloads.
LEMMA SettingsKept == ASSUME SettingsType, [Next]_vars PROVE SettingsType'
<1>1. CASE UNCHANGED settings  BY <1>1 DEF SettingsType, settings
<1>2. CASE Adopt
    <2>1. PICK t \in Scene.settings \ {tenant} :
              tenant' = IF t.state = "rejected" THEN [t EXCEPT !.doc = tenant.doc] ELSE t
        BY <1>2 DEF Adopt
    <2>2. Scene.settings \in SUBSET Tenants  BY SceneAssumption DEF SettingsType, Scene
    <2>3. tenant' \in Tenants  BY <2>1, <2>2 DEF SettingsType, Tenants
    <2> QED  BY <1>2, <2>3 DEF SettingsType, Adopt
<1>3. CASE HandOver  BY <1>3 DEF HandOver, SettingsType
<1> QED  BY <1>1, <1>2, <1>3 DEF Next, Sweeping, vars, settings

\* Only a step of the stream or of the sweep touches what the sweep knows.
LEMMA SweepSteps ==
    ASSUME [Next]_vars
    PROVE  \/ UNCHANGED stream
           \/ StreamStep
           \/ SweepStart(gapCutoff)
           \/ SweepStep
    BY DEF Next, Sweeping, vars, Adopt, HandOver

\* Every step keeps the sweep's invariant, queue steps included.
LEMMA PurgeInvKept == ASSUME PurgeInv, [Next]_vars PROVE PurgeInv'
<1>1. SettingsType'  BY SettingsKept DEF PurgeInv
<1> SUFFICES ASSUME SweepInv, gapCutoff \in Int PROVE SweepInv'
    BY <1>1, CutoffType DEF PurgeInv, SweepInv, StreamType
<1>2. CASE UNCHANGED stream
    BY <1>2 DEF stream, SweepInv, StreamType, SweepType, InOrder, FloorSettled, SearchSound
<1>3. CASE StreamStep
    <2>1. CASE \E s \in DOMAIN log : Delete(s)
        <3>1. PICK s \in DOMAIN log : Delete(s)  BY <2>1
        <3> QED  BY <3>1, RemovalKeeps DEF Delete
    <2>2. CASE \E s \in DOMAIN log : Ack(s)  BY <2>2, AckKeeps
    <2> QED  BY <1>3, <2>1, <2>2, StoreKeeps, TickKeeps, SweepFailsKeeps DEF StreamStep
<1>4. CASE SweepStart(gapCutoff)  BY <1>4, SweepStartKeeps
<1>5. CASE SweepStep
    BY <1>5, ReadFloorKeeps, ReadStateKeeps, ReadOldestKeeps, ProbeKeeps, PurgeBelowKeeps DEF SweepStep
<1> QED  BY <1>2, <1>3, <1>4, <1>5, SweepSteps

\* The stream starts empty, with no sweep.
LEMMA PurgeInvInit == ASSUME Init PROVE PurgeInv
<1>1. SettingsType  BY SceneAssumption DEF Init, SettingsType, Scene
<1>2. DOMAIN log = {}  BY DEF Init, SweepInit, NoLog
<1>3. StreamType  BY <1>2 DEF Init, SweepInit, NoLog, StreamType
<1>4. SweepType  BY DEF Init, SweepInit, NoSweep, SweepType, SweepPcs
<1> QED  BY <1>1, <1>2, <1>3, <1>4 DEF PurgeInv, SweepInv, InOrder, FloorSettled, SearchSound,
                                       Init, SweepInit, NoSweep

\* A sweep purges only messages that were acked and stored before its cutoff,
\* whatever is stored, acked or deleted while it reads the ack floor and
\* searches (purgeAcked, findGapSequence), for any stream and any window.
THEOREM PurgesSettled == Spec => PurgesOnlySettled
<1>1. Init => PurgeInv  BY PurgeInvInit
<1>2. PurgeInv /\ [Next]_vars => PurgeInv'  BY PurgeInvKept
<1>3. PurgeInv /\ [Next]_vars =>
        [sweep.pc # "idle" /\ sweep'.pc = "idle" =>
            \A s \in DOMAIN log \ DOMAIN log' : s \in acked /\ log[s] < sweep.cutoff]_vars
    <2> SUFFICES ASSUME PurgeInv, [Next]_vars, sweep.pc # "idle", sweep'.pc = "idle",
                        NEW s \in DOMAIN log \ DOMAIN log'
                 PROVE  s \in acked /\ log[s] < sweep.cutoff
        OBVIOUS
    <2>1. CASE PurgeBelow  BY <2>1, PurgeBelowSettled DEF PurgeInv
    <2>2. sweep' # sweep  OBVIOUS
    <2>3. SweepStep \/ SweepFails
        <3>1. ~UNCHANGED stream /\ ~SweepStart(gapCutoff)  BY <2>2 DEF stream, SweepStart
        <3> QED  BY <2>2, <3>1, SweepSteps DEF StreamStep, Store, Ack, Delete, Tick
    <2>4. PurgeBelow \/ log' = log
        BY <2>3 DEF SweepStep, SweepFails, ReadFloor, ReadState, ReadOldest, Probe, SweepTo
    <2> QED  BY <2>1, <2>4
<1> QED  BY <1>1, <1>2, <1>3, PTL DEF Spec, PurgesOnlySettled

-----------------------------------------------------------------------------
(* What the broker knows of its queue.                                     *)

FanPcs == {"new", "registered", "delivering", "stopped"}

Brokers == [js : [ingest : Nat, opens : Nat, dlq : BOOLEAN],
            q : [ingest : BOOLEAN, dlq : BOOLEAN, maxBytes : Nat, asked : Nat],
            opened : BOOLEAN,
            fans : [Consumers -> [pc : FanPcs, handle : Nat, running : Nat]],
            paced : BOOLEAN]

\* While the broker knows an ingest stream and there is one, a durable held
\* and a delivery that runs are on that one.
NoneElsewhere(b) ==
    b.q.ingest /\ b.js.ingest # 0 =>
        \A c \in registered(b) :
            /\ b.fans[c].handle \in {0, b.js.ingest}
            /\ b.fans[c].pc = "delivering" => b.fans[c].running \in {0, b.js.ingest}

Sound(b) == b \in Brokers /\ NoneElsewhere(b)

\* A queue open for publishes has both streams known and every consumer on it.
Trusted(b) == b.opened => b.q.ingest /\ b.q.dlq /\ joined(b)

BrokerInv == Sound(Broker) /\ Trusted(Broker)

\* What holds of a broker holds of its parts.
LEMMA BrokerParts ==
    ASSUME NEW b \in Brokers
    PROVE  /\ b.js.ingest \in Nat /\ b.js.opens \in Nat /\ b.js.dlq \in BOOLEAN
           /\ b.q.ingest \in BOOLEAN /\ b.q.dlq \in BOOLEAN /\ b.opened \in BOOLEAN
           /\ \A c \in Consumers : /\ b.fans[c] \in [pc : FanPcs, handle : Nat, running : Nat]
                                   /\ b.fans[c].handle \in Nat /\ b.fans[c].running \in Nat
    BY DEF Brokers

\* Changing neither the streams there are, nor what is known of the ingest
\* one, nor the consumers, keeps the broker sound.
LEMMA SameHoldings ==
    ASSUME NEW b, Sound(b), NEW d \in Brokers,
           d.js.ingest = b.js.ingest, d.q.ingest = b.q.ingest, d.fans = b.fans
    PROVE  Sound(d)
    BY DEF Sound, NoneElsewhere, registered

\* record trusts a queue only when every consumer registered holds it.
LEMMA RecordSound ==
    ASSUME NEW b, Sound(b)
    PROVE  Sound(record(b)) /\ Trusted(record(b))
<1> DEFINE whole == b.q.ingest /\ b.q.dlq /\ joined(b)
           d == record(b)
<1>1. b \in Brokers  BY DEF Sound
<1>2. whole \in BOOLEAN /\ (b.paced /\ ~whole) \in BOOLEAN  BY <1>1 DEF Brokers
<1>3. d = [b EXCEPT !.opened = whole, !.paced = b.paced /\ ~whole]  BY <1>1 DEF record, Brokers
<1> HIDE DEF whole
<1>4. d \in Brokers  BY <1>1, <1>2, <1>3 DEF Brokers
<1>5. d.js = b.js /\ d.q = b.q /\ d.fans = b.fans /\ d.opened = whole  BY <1>1, <1>3 DEF Brokers
<1>6. Sound(d)  BY <1>4, <1>5, SameHoldings
<1>7. Trusted(d)  BY <1>5 DEF Trusted, joined, registered, whole
<1> QED  BY <1>6, <1>7

\* ... and so after any result that is recorded.
LEMMA RecordedSound ==
    ASSUME NEW S, \A s \in S : s = [b |-> s.b, ok |-> s.ok] /\ Sound(s.b), NEW r \in Recorded(S)
    PROVE  Sound(r.b) /\ Trusted(r.b)
<1>1. PICK s \in S : r = [s EXCEPT !.b = record(s.b)]  BY DEF Recorded
<1>2. r.b = record(s.b)  BY <1>1
<1> QED  BY <1>2, RecordSound

\* leaveAll: no consumer holds the stream that is gone.
LEMMA leaveAllSound == ASSUME NEW b \in Brokers PROVE Sound(leaveAll(b))
<1> DEFINE fs == [c \in Consumers |->
               IF c \in registered(b) THEN [b.fans[c] EXCEPT !.handle = 0, !.running = 0] ELSE b.fans[c]]
           d == leaveAll(b)
<1>1. fs \in [Consumers -> [pc : FanPcs, handle : Nat, running : Nat]]  BY BrokerParts
<1>2. d = [b EXCEPT !.fans = fs]  BY DEF leaveAll
<1>3. \A c \in Consumers : fs[c].pc = b.fans[c].pc  BY BrokerParts
<1>4. \A c \in registered(b) : fs[c].handle = 0 /\ fs[c].running = 0  BY BrokerParts DEF registered
<1> HIDE DEF fs
<1>5. d \in Brokers /\ d.fans = fs  BY <1>1, <1>2 DEF Brokers
<1>6. registered(d) = registered(b)  BY <1>3, <1>5 DEF registered
<1> QED  BY <1>4, <1>5, <1>6 DEF Sound, NoneElsewhere

\* A consumer that joins is on the stream there is.
LEMMA JoinedSound ==
    ASSUME NEW b, Sound(b), NEW cs, NEW held
    PROVE  Sound(Joined(b, cs, held))
<1> DEFINE fs == [c \in Consumers |->
               IF c \in cs \cup held
               THEN [b.fans[c] EXCEPT !.handle = b.js.ingest,
                       !.running = IF b.fans[c].pc = "delivering" /\ c \in cs THEN b.js.ingest ELSE @]
               ELSE b.fans[c]]
           d == Joined(b, cs, held)
<1>1. b \in Brokers  BY DEF Sound
<1>2. fs \in [Consumers -> [pc : FanPcs, handle : Nat, running : Nat]]  BY <1>1, BrokerParts
<1>3. d = [b EXCEPT !.fans = fs]  BY DEF Joined
<1>4. \A c \in Consumers :
        /\ fs[c].pc = b.fans[c].pc
        /\ fs[c].handle \in {b.fans[c].handle, b.js.ingest}
        /\ fs[c].running \in {b.fans[c].running, b.js.ingest}
    BY <1>1, BrokerParts
<1> HIDE DEF fs
<1>5. d \in Brokers /\ d.fans = fs /\ d.js = b.js /\ d.q = b.q  BY <1>1, <1>2, <1>3 DEF Brokers
<1>6. registered(d) = registered(b) /\ registered(b) \subseteq Consumers
    BY <1>4, <1>5 DEF registered
<1> QED  BY <1>4, <1>5, <1>6 DEF Sound, NoneElsewhere

\* joinConsumers: a consumer that joined holds the stream of now.
LEMMA joinConsumersSound ==
    ASSUME NEW b, Sound(b), NEW r \in joinConsumers(b)
    PROVE  Sound(r.b) /\ r = [b |-> r.b, ok |-> r.ok]
<1>1. CASE b.js.ingest = 0  BY <1>1 DEF joinConsumers
<1>2. CASE b.js.ingest # 0
    <2>1. PICK cs, held, ok : r = [b |-> Joined(b, cs, held), ok |-> ok]
        BY <1>2 DEF joinConsumers
    <2> QED  BY <2>1, JoinedSound
<1> QED  BY <1>1, <1>2

\* What a result is: a broker and whether the call succeeded.
LEMMA ResultsOf ==
    ASSUME NEW before, NEW after, NEW r \in Results(before, after)
    PROVE  r.b \in {before, after} /\ r.ok \in BOOLEAN /\ r = [b |-> r.b, ok |-> r.ok]
<1>1. CASE r = [b |-> after, ok |-> TRUE]  BY <1>1
<1>2. CASE r = [b |-> before, ok |-> FALSE]  BY <1>2
<1>3. CASE r = [b |-> after, ok |-> FALSE]  BY <1>3
<1> QED  BY <1>1, <1>2, <1>3 DEF Results

\* applied joins the consumers, then records the budget.
LEMMA appliedSound ==
    ASSUME NEW b, Sound(b), NEW budget \in Nat, NEW r \in applied(b, budget)
    PROVE  Sound(r.b) /\ r = [b |-> r.b, ok |-> r.ok]
<1>1. PICK j \in joinConsumers(b) :
          r \in IF j.ok THEN Done([j.b EXCEPT !.q.maxBytes = budget]) ELSE Refused(j.b)
    BY DEF applied, Then
<1>2. Sound(j.b)  BY joinConsumersSound
<1> DEFINE d == [j.b EXCEPT !.q.maxBytes = budget]
<1>3. d \in Brokers /\ d.js = j.b.js /\ d.q.ingest = j.b.q.ingest /\ d.fans = j.b.fans
    BY <1>2 DEF Sound, Brokers
<1>4. Sound(d)  BY <1>2, <1>3, SameHoldings
<1> QED  BY <1>1, <1>2, <1>4 DEF Done, Refused

\* applyDLQ leaves the ingest stream and its consumers alone.
LEMMA applyDLQSound ==
    ASSUME NEW b, Sound(b), NEW r \in applyDLQ(b)
    PROVE  Sound(r.b) /\ r.b.q.ingest = b.q.ingest /\ r = [b |-> r.b, ok |-> r.ok]
<1>1. b \in Brokers  BY DEF Sound
<1> DEFINE d == [b EXCEPT !.js.dlq = TRUE]
<1>2. d \in Brokers /\ d.js.ingest = b.js.ingest /\ d.q = b.q /\ d.fans = b.fans
    BY <1>1 DEF Brokers
<1>3. Sound(d)  BY <1>2, SameHoldings
<1>4. PICK s \in Results(b, d) : r = [s EXCEPT !.b.q.dlq = @ \/ s.ok]  BY DEF applyDLQ
<1> HIDE DEF d
<1>5. /\ Sound(s.b) /\ s.b \in Brokers /\ s.b.q.ingest = b.q.ingest
      /\ s.ok \in BOOLEAN /\ s = [b |-> s.b, ok |-> s.ok]
    BY <1>1, <1>2, <1>3, ResultsOf
<1>6. r.b = [s.b EXCEPT !.q.dlq = s.b.q.dlq \/ s.ok] /\ r = [b |-> r.b, ok |-> r.ok]
    BY <1>4, <1>5
<1>7. /\ r.b \in Brokers /\ r.b.js.ingest = s.b.js.ingest
      /\ r.b.q.ingest = s.b.q.ingest /\ r.b.fans = s.b.fans
    BY <1>5, <1>6 DEF Brokers
<1> QED  BY <1>5, <1>6, <1>7, SameHoldings

\* An update of the ingest stream changes nothing consumers hold.
LEMMA UpdateIngestSound ==
    ASSUME NEW b, Sound(b), NEW r \in UpdateIngest(b)
    PROVE  r.b = b /\ r = [b |-> r.b, ok |-> r.ok]
    BY ResultsOf DEF UpdateIngest, Refused

\* A stream made anew is one the broker did not know of.
LEMMA CreateIngestSound ==
    ASSUME NEW b, Sound(b), ~b.q.ingest, NEW r \in CreateIngest(b)
    PROVE  Sound(r.b) /\ r = [b |-> r.b, ok |-> r.ok]
<1>1. CASE b.js.ingest # 0  BY <1>1, UpdateIngestSound DEF CreateIngest
<1>2. CASE b.js.ingest = 0
    <2> DEFINE d == [b EXCEPT !.js.ingest = b.js.opens + 1, !.js.opens = @ + 1]
    <2>1. d \in Brokers /\ d.q = b.q
        <3>1. b \in Brokers /\ b.js.opens + 1 \in Nat  BY BrokerParts DEF Sound
        <3> QED  BY <3>1 DEF Brokers
    <2>2. Sound(d)  BY <2>1 DEF Sound, NoneElsewhere
    <2>3. r \in Refused(b) \cup Results(b, d)  BY <1>2 DEF CreateIngest
    <2> HIDE DEF d
    <2>4. CASE r \in Refused(b)  BY <2>4 DEF Refused
    <2>5. CASE r \in Results(b, d)  BY <2>2, <2>5, ResultsOf
    <2> QED  BY <2>3, <2>4, <2>5
<1> QED  BY <1>1, <1>2

\* open creates the stream first and joins the consumers after.
LEMMA openSound ==
    ASSUME NEW b, Sound(b), ~b.q.ingest, NEW budget \in Nat, NEW r \in open(b, budget)
    PROVE  Sound(r.b) /\ r = [b |-> r.b, ok |-> r.ok]
<1>1. PICK a \in applyDLQ(b) :
          r \in IF a.ok THEN UNION {IF d.ok THEN applied(leaveAll([d.b EXCEPT !.q.ingest = TRUE]), budget)
                                            ELSE Refused(d.b) : d \in CreateIngest(a.b)}
                ELSE Refused(a.b)
    BY DEF open, Then
<1>2. Sound(a.b) /\ ~a.b.q.ingest  BY applyDLQSound
<1>3. CASE a.ok
    <2>1. PICK d \in CreateIngest(a.b) :
              r \in IF d.ok THEN applied(leaveAll([d.b EXCEPT !.q.ingest = TRUE]), budget)
                    ELSE Refused(d.b)
        BY <1>1, <1>3
    <2>2. Sound(d.b)  BY <1>2, CreateIngestSound
    <2>3. [d.b EXCEPT !.q.ingest = TRUE] \in Brokers  BY <2>2 DEF Sound, Brokers
    <2>4. Sound(leaveAll([d.b EXCEPT !.q.ingest = TRUE]))  BY <2>3, leaveAllSound
    <2> QED  BY <2>1, <2>2, <2>4, appliedSound DEF Refused
<1>4. CASE ~a.ok  BY <1>1, <1>2, <1>4 DEF Refused
<1> QED  BY <1>3, <1>4

\* resize updates both streams, then joins the consumers.
LEMMA resizeSound ==
    ASSUME NEW b, Sound(b), NEW budget \in Nat, NEW r \in resize(b, budget)
    PROVE  Sound(r.b) /\ r = [b |-> r.b, ok |-> r.ok]
<1>1. PICK u \in UpdateIngest(b) :
          r \in IF u.ok THEN UNION {IF d.ok THEN applied(d.b, budget) ELSE Refused(d.b) : d \in applyDLQ(u.b)}
                ELSE Refused(u.b)
    BY DEF resize, Then
<1>2. u.b = b  BY UpdateIngestSound
<1>3. CASE u.ok
    <2>1. PICK d \in applyDLQ(b) : r \in IF d.ok THEN applied(d.b, budget) ELSE Refused(d.b)
        BY <1>1, <1>2, <1>3
    <2>2. Sound(d.b)  BY applyDLQSound
    <2> QED  BY <2>1, <2>2, appliedSound DEF Refused
<1>4. CASE ~u.ok  BY <1>1, <1>2, <1>4 DEF Refused
<1> QED  BY <1>3, <1>4

\* Whatever each call to JetStream comes to, apply leaves a sound broker,
\* and trusts a queue only with every consumer on it.
LEMMA applySound ==
    ASSUME NEW b, Sound(b), NEW budget \in Nat, NEW r \in apply(b, budget)
    PROVE  Sound(r.b) /\ Trusted(r.b)
<1> DEFINE S == IF b.q.ingest THEN resize(b, budget) ELSE open(b, budget)
<1>1. \A s \in S : s = [b |-> s.b, ok |-> s.ok] /\ Sound(s.b)  BY resizeSound, openSound
<1>2. r \in Recorded(S)  BY DEF apply
<1> HIDE DEF S
<1> QED  BY <1>1, <1>2, RecordedSound

\* SetMaxBytes records what it opened or resized, or finds nothing to do.
LEMMA SetMaxBytesSound ==
    ASSUME NEW b, Sound(b), Trusted(b), NEW budget \in Nat, NEW r \in SetMaxBytes(b, budget)
    PROVE  Sound(r.b) /\ Trusted(r.b)
<1> DEFINE a == [b EXCEPT !.q.asked = budget]
<1>1. /\ a \in Brokers /\ a.js = b.js /\ a.q.ingest = b.q.ingest /\ a.q.dlq = b.q.dlq
      /\ a.fans = b.fans /\ a.opened = b.opened
    BY DEF Sound, Brokers
<1>2. Sound(a)  BY <1>1, SameHoldings
<1>3. Trusted(a)  BY <1>1 DEF Trusted, joined, registered
<1>4. r \in Done(a) \cup apply(a, budget)  BY DEF SetMaxBytes
<1> HIDE DEF a
<1> QED  BY <1>2, <1>3, <1>4, applySound DEF Done

\* Finding a stream gone only takes what the broker believes away.
LEMMA ForgetSound ==
    ASSUME NEW b, Sound(b), NEW d \in Brokers, d.js = b.js, d.fans = b.fans,
           d.q.ingest => b.q.ingest
    PROVE  Sound(d)
    BY DEF Sound, NoneElsewhere, registered

\* reopen records whether the streams it found missing are whole again.
LEMMA reopenSound ==
    ASSUME NEW b, Sound(b), Trusted(b), NEW r \in reopen(b)
    PROVE  Sound(r.b) /\ Trusted(r.b)
<1> DEFINE known == Missing(b)
           half == [b EXCEPT !.q.ingest = known.q.ingest]
           S == Refused(b) \cup Refused(half)
<1>1. b \in Brokers  BY DEF Sound
<1>2. known = [b EXCEPT !.q.ingest = b.q.ingest /\ b.js.ingest # 0, !.q.dlq = b.q.dlq /\ b.js.dlq]
    BY <1>1 DEF Missing, Brokers
<1>3. (b.q.ingest /\ b.js.ingest # 0) \in BOOLEAN /\ (b.q.dlq /\ b.js.dlq) \in BOOLEAN  OBVIOUS
<1> HIDE DEF known
<1>4. /\ known \in Brokers /\ known.js = b.js /\ known.fans = b.fans
      /\ known.q.ingest => b.q.ingest
      /\ known.q.asked = b.q.asked /\ b.q.asked \in Nat
    <2> DEFINE i == b.q.ingest /\ b.js.ingest # 0
               l == b.q.dlq /\ b.js.dlq
    <2>1. known = [b EXCEPT !.q.ingest = i, !.q.dlq = l]  BY <1>2
    <2>2. i \in BOOLEAN /\ l \in BOOLEAN /\ (i => b.q.ingest)  BY <1>3
    <2> HIDE DEF i, l
    <2>3. known \in Brokers /\ known.js = b.js /\ known.fans = b.fans /\ known.q.asked = b.q.asked
        BY <1>1, <2>1, <2>2 DEF Brokers
    <2>4. known.q.ingest = i /\ b.q.asked \in Nat  BY <1>1, <2>1 DEF Brokers
    <2> QED  BY <2>2, <2>3, <2>4
<1>5. Sound(known)  BY <1>4, ForgetSound
<1>6. half \in Brokers /\ half.js = b.js /\ half.fans = b.fans /\ half.q.ingest = known.q.ingest
    BY <1>1, <1>4 DEF Brokers
<1>7. Sound(half)  BY <1>4, <1>6, ForgetSound
<1> HIDE DEF half
<1>8. \A s \in S : s = [b |-> s.b, ok |-> s.ok] /\ Sound(s.b)  BY <1>7 DEF Refused
<1>9. CASE r \in Recorded(S)
    <2> HIDE DEF S
    <2> QED  BY <1>8, <1>9, RecordedSound
<1>10. CASE r \in Refused(b)  BY <1>10 DEF Refused
<1>11. CASE r \in Done(record(known))  BY <1>5, <1>11, RecordSound DEF Done
<1>12. CASE r \in apply(known, known.q.asked)  BY <1>4, <1>5, <1>12, applySound
<1>13. r \in Recorded(S) \cup Refused(b) \cup Done(record(known)) \cup apply(known, known.q.asked)
    BY DEF reopen, known, half
<1> QED  BY <1>9, <1>10, <1>11, <1>12, <1>13

\* What a boot finds is sound: nobody holds anything yet.
LEMMA takeStockSound ==
    ASSUME NEW disk \in Disks
    PROVE  Sound(takeStock(disk)) /\ Trusted(takeStock(disk))
<1> DEFINE tenth == disk.cap \div dlqShare
           whole == /\ disk.ingest /\ disk.dlq # 0 /\ disk.current
                    /\ disk.dlq = tenth \/ (disk.dlq > tenth /\ disk.held > tenth)
           there == IF disk.ingest THEN 1 ELSE 0
           lies == disk.dlq # 0
           max == IF whole THEN disk.cap ELSE 0
           d == [js |-> [ingest |-> there, opens |-> there, dlq |-> lies],
                 q |-> [ingest |-> disk.ingest, dlq |-> lies, maxBytes |-> max, asked |-> disk.cap],
                 opened |-> FALSE, fans |-> [c \in Consumers |-> NoFan], paced |-> FALSE]
<1>1. disk.ingest \in BOOLEAN /\ disk.cap \in Nat /\ there \in Nat /\ lies \in BOOLEAN
    BY DEF Disks
<1>2. max \in Nat  BY <1>1
<1>3. takeStock(disk) = record(d)  BY DEF takeStock
<1>4. [c \in Consumers |-> NoFan] \in [Consumers -> [pc : FanPcs, handle : Nat, running : Nat]]
    BY DEF NoFan, FanPcs
<1> HIDE DEF there, lies, max
<1>5. d \in Brokers  BY <1>1, <1>2, <1>4 DEF Brokers
<1>6. registered(d) = {}  BY DEF registered, NoFan
<1>7. Sound(d)  BY <1>5, <1>6 DEF Sound, NoneElsewhere
<1> HIDE DEF d
<1> QED  BY <1>3, <1>7, RecordSound

\* reconcile opens, resizes and records for the adopted budgets.
LEMMA reconcileSound ==
    ASSUME SettingsType, NEW b, Sound(b), Trusted(b), NEW r \in reconcile(b)
    PROVE  Sound(r.b) /\ Trusted(r.b)
<1>1. tenant.doc.budget \in Nat  BY DEF SettingsType, Tenants
<1>2. r \in Done(b) \cup SetMaxBytes(b, tenant.doc.budget)  BY DEF reconcile
<1> QED  BY <1>1, <1>2, SetMaxBytesSound DEF Done

\* The variables after a step that leaves b are b's.
LEMMA BecomeSound ==
    ASSUME NEW b, Sound(b), Trusted(b), Become(b)
    PROVE  BrokerInv'
<1>1. b = [js |-> b.js, q |-> b.q, opened |-> b.opened, fans |-> b.fans, paced |-> b.paced]
    BY DEF Sound, Brokers
<1>2. Broker' = b  BY <1>1 DEF Become, Broker
<1>3. Sound(Broker') /\ Trusted(Broker')  BY <1>2
<1> QED  BY <1>3 DEF BrokerInv, Sound, Trusted, NoneElsewhere, joined, registered, holds

\* The parts of the broker's state have the types they are used at.
LEMMA BrokerType ==
    ASSUME BrokerInv
    PROVE  /\ js \in [ingest : Nat, opens : Nat, dlq : BOOLEAN]
           /\ q \in [ingest : BOOLEAN, dlq : BOOLEAN, maxBytes : Nat, asked : Nat]
           /\ opened \in BOOLEAN /\ paced \in BOOLEAN
           /\ fans \in [Consumers -> [pc : FanPcs, handle : Nat, running : Nat]]
           /\ opened => q.ingest /\ q.dlq
           /\ q.ingest /\ js.ingest # 0 =>
                \A c \in Consumers : fans[c].pc \in {"registered", "delivering"} =>
                    /\ fans[c].handle \in {0, js.ingest}
                    /\ fans[c].pc = "delivering" => fans[c].running \in {0, js.ingest}
           /\ opened =>
                \A c \in Consumers : fans[c].pc \in {"registered", "delivering"} =>
                    /\ fans[c].handle # 0
                    /\ fans[c].pc = "delivering" => fans[c].running # 0
<1>1. Broker \in Brokers  BY DEF BrokerInv, Sound
<1>2. /\ Broker.js = js /\ Broker.q = q /\ Broker.opened = opened /\ Broker.fans = fans
      /\ Broker.paced = paced
    BY DEF Broker
<1>3. registered(Broker) = {c \in Consumers : fans[c].pc \in {"registered", "delivering"}}
    BY <1>2 DEF registered
<1>4. NoneElsewhere(Broker) /\ Trusted(Broker)  BY DEF BrokerInv, Sound
<1>5. opened => \A c \in registered(Broker) : holds(fans[c])  BY <1>2, <1>4 DEF Trusted, joined
<1>6. q.ingest /\ js.ingest # 0 =>
        \A c \in registered(Broker) :
            /\ fans[c].handle \in {0, js.ingest}
            /\ fans[c].pc = "delivering" => fans[c].running \in {0, js.ingest}
    BY <1>2, <1>4 DEF NoneElsewhere
<1> QED  BY <1>1, <1>2, <1>3, <1>4, <1>5, <1>6 DEF Brokers, Trusted, holds

\* The same facts, read back as the invariant.
LEMMA BrokerInvFrom ==
    ASSUME NEW b \in Brokers,
           b.opened => b.q.ingest /\ b.q.dlq,
           \A c \in Consumers : b.fans[c].pc \in {"registered", "delivering"} =>
                /\ b.q.ingest /\ b.js.ingest # 0 =>
                    /\ b.fans[c].handle \in {0, b.js.ingest}
                    /\ b.fans[c].pc = "delivering" => b.fans[c].running \in {0, b.js.ingest}
                /\ b.opened =>
                    /\ b.fans[c].handle # 0
                    /\ b.fans[c].pc = "delivering" => b.fans[c].running # 0
    PROVE  Sound(b) /\ Trusted(b)
    BY DEF Sound, Trusted, NoneElsewhere, joined, registered, holds

\* A step of one consumer.
LEMMA FanSound ==
    ASSUME BrokerInv, NEW c \in Consumers,
           NEW f \in [pc : FanPcs, handle : Nat, running : Nat],
           fans' = [fans EXCEPT ![c] = f], UNCHANGED <<js, q, opened, paced>>,
           f.pc \in {"registered", "delivering"} =>
                /\ q.ingest /\ js.ingest # 0 =>
                    /\ f.handle \in {0, js.ingest}
                    /\ f.pc = "delivering" => f.running \in {0, js.ingest}
                /\ opened =>
                    /\ f.handle # 0
                    /\ f.pc = "delivering" => f.running # 0
    PROVE  BrokerInv'
<1> DEFINE fs == [fans EXCEPT ![c] = f]
           b == [js |-> js, q |-> q, opened |-> opened, fans |-> fs, paced |-> paced]
<1>1. fs \in [Consumers -> [pc : FanPcs, handle : Nat, running : Nat]]  BY BrokerType
<1>2. \A d \in Consumers : fs[d] = IF d = c THEN f ELSE fans[d]  BY BrokerType
<1> HIDE DEF fs
<1>3. b \in Brokers  BY <1>1, BrokerType DEF Brokers
<1>4. Sound(b) /\ Trusted(b)
    <2>1. b.opened => b.q.ingest /\ b.q.dlq  BY BrokerType
    <2>2. ASSUME NEW d \in Consumers, fs[d].pc \in {"registered", "delivering"}
          PROVE  /\ q.ingest /\ js.ingest # 0 =>
                    /\ fs[d].handle \in {0, js.ingest}
                    /\ fs[d].pc = "delivering" => fs[d].running \in {0, js.ingest}
                 /\ opened =>
                    /\ fs[d].handle # 0
                    /\ fs[d].pc = "delivering" => fs[d].running # 0
        BY <1>2, <2>2, BrokerType
    <2>3. b.fans = fs /\ b.q = q /\ b.js = js /\ b.opened = opened  OBVIOUS
    <2> HIDE DEF b
    <2> QED  BY <1>3, <2>1, <2>2, <2>3, BrokerInvFrom
<1>5. Become(b)  BY DEF Become, fs
<1> QED  BY <1>4, <1>5, BecomeSound

\* A consumer registers with the queue there is, or before there is one.
LEMMA RegisterSound == ASSUME BrokerInv, NEW c \in Consumers, Register(c) PROVE BrokerInv'
<1>1. fans[c] \in [pc : FanPcs, handle : Nat, running : Nat] /\ js.ingest \in Nat  BY BrokerType
<1>2. CASE ~q.ingest /\ fans' = [fans EXCEPT ![c].pc = "registered"]
    <2> DEFINE f == [fans[c] EXCEPT !.pc = "registered"]
    <2>1. f \in [pc : FanPcs, handle : Nat, running : Nat]  BY <1>1 DEF FanPcs
    <2>2. fans' = [fans EXCEPT ![c] = f]  BY <1>2
    <2>3. ~opened  BY <1>2, BrokerType
    <2> QED  BY <1>2, <2>1, <2>2, <2>3, FanSound DEF Register
<1>3. CASE q.ingest /\ js.ingest # 0 /\ fans' = [fans EXCEPT ![c].pc = "registered", ![c].handle = js.ingest]
    <2> DEFINE f == [fans[c] EXCEPT !.pc = "registered", !.handle = js.ingest]
    <2>1. f \in [pc : FanPcs, handle : Nat, running : Nat] /\ f.pc = "registered" /\ f.handle = js.ingest
        BY <1>1 DEF FanPcs
    <2>2. fans' = [fans EXCEPT ![c] = f]  BY <1>3, BrokerType
    <2> HIDE DEF f
    <2> QED  BY <1>3, <2>1, <2>2, FanSound DEF Register
<1> QED  BY <1>2, <1>3 DEF Register

\* A consumer that ended is on nothing.
LEMMA StoppedSound ==
    ASSUME BrokerInv, NEW c \in Consumers,
           fans' = [fans EXCEPT ![c] = [NoFan EXCEPT !.pc = "stopped"]],
           UNCHANGED <<js, q, opened, paced>>
    PROVE  BrokerInv'
<1> DEFINE f == [NoFan EXCEPT !.pc = "stopped"]
<1>1. f \in [pc : FanPcs, handle : Nat, running : Nat] /\ f.pc = "stopped"  BY DEF NoFan, FanPcs
<1> HIDE DEF f
<1>2. fans' = [fans EXCEPT ![c] = f]  BY DEF f
<1> QED  BY <1>1, <1>2, FanSound

\* A consumer starts its delivery from the handle it holds.
LEMMA StartSound == ASSUME BrokerInv, NEW c \in Consumers, Start(c) PROVE BrokerInv'
<1>1. fans[c] \in [pc : FanPcs, handle : Nat, running : Nat] /\ js.ingest \in Nat  BY BrokerType
<1>2. CASE fans' = [fans EXCEPT ![c].pc = "delivering", ![c].running = fans[c].handle]
    <2> DEFINE f == [fans[c] EXCEPT !.pc = "delivering", !.running = fans[c].handle]
    <2>1. /\ f \in [pc : FanPcs, handle : Nat, running : Nat] /\ f.pc = "delivering"
          /\ f.handle = fans[c].handle /\ f.running = fans[c].handle
        BY <1>1 DEF FanPcs
    <2>2. fans' = [fans EXCEPT ![c] = f]  BY <1>2, BrokerType
    <2>3. fans[c].pc = "registered"  BY DEF Start
    <2> HIDE DEF f
    <2> QED  BY <2>1, <2>2, <2>3, BrokerType, FanSound DEF Start
<1>3. CASE fans' = [fans EXCEPT ![c] = [NoFan EXCEPT !.pc = "stopped"]]
    BY <1>3, StoppedSound DEF Start
<1> QED  BY <1>2, <1>3 DEF Start

\* A step that leaves the broker as it was.
LEMMA BrokerStays ==
    ASSUME BrokerInv, UNCHANGED <<js, q, opened, fans, paced>>
    PROVE  BrokerInv'
<1>1. Sound(Broker) /\ Trusted(Broker)  BY DEF BrokerInv
<1>2. Become(Broker)  BY DEF Become, Broker
<1> QED  BY <1>1, <1>2, BecomeSound

\* A paced reopen is reopen, or nothing while its pace has not elapsed.
LEMMA reopenPacedSound == ASSUME BrokerInv, NEW pc, reopenPaced(pc) PROVE BrokerInv'
<1>1. CASE UNCHANGED <<js, q, opened, fans, paced>>  BY <1>1, BrokerStays
<1>2. CASE \E r \in reopen(Broker) : Become([r.b EXCEPT !.paced = @ \/ ~r.ok])
    <2>1. PICK r \in reopen(Broker) : Become([r.b EXCEPT !.paced = @ \/ ~r.ok])  BY <1>2
    <2>2. Sound(r.b) /\ Trusted(r.b)  BY reopenSound DEF BrokerInv
    <2> DEFINE pace == r.b.paced \/ ~r.ok
               d == [r.b EXCEPT !.paced = pace]
    <2>3. r.b \in Brokers /\ pace \in BOOLEAN  BY <2>2 DEF Sound, Brokers
    <2>4. Become(d)  BY <2>1, <2>3 DEF Brokers
    <2> HIDE DEF pace
    <2>5. /\ d \in Brokers /\ d.js = r.b.js /\ d.q = r.b.q /\ d.fans = r.b.fans
          /\ d.opened = r.b.opened
        BY <2>3 DEF Brokers
    <2> HIDE DEF d
    <2>6. Sound(d)  BY <2>2, <2>5, SameHoldings
    <2>7. Trusted(d)  BY <2>2, <2>5 DEF Trusted, joined, registered
    <2> QED  BY <2>4, <2>6, <2>7, BecomeSound
<1> QED  BY <1>1, <1>2 DEF reopenPaced

\* A stream that is lost takes no durable to another.
LEMMA LoseSound == ASSUME BrokerInv, Lose PROVE BrokerInv'
<1>1. PICK j : /\ js' = j /\ j \in [ingest : Nat, opens : Nat, dlq : BOOLEAN]
               /\ j.ingest \in {0, js.ingest}
    BY BrokerType DEF Lose
<1> DEFINE b == [js |-> j, q |-> q, opened |-> opened, fans |-> fans, paced |-> paced]
<1>2. b \in Brokers  BY <1>1, BrokerType DEF Brokers
<1>3. b.js = j /\ b.q = q /\ b.opened = opened /\ b.fans = fans  OBVIOUS
<1>4. Become(b)  BY <1>1 DEF Become, Lose
<1> HIDE DEF b
<1>5. Sound(b) /\ Trusted(b)  BY <1>1, <1>2, <1>3, BrokerType, BrokerInvFrom
<1> QED  BY <1>4, <1>5, BecomeSound

\* The pace only decides when a reopen may be tried.
LEMMA PaceElapsesSound == ASSUME BrokerInv, PaceElapses PROVE BrokerInv'
<1> DEFINE b == [js |-> js, q |-> q, opened |-> opened, fans |-> fans, paced |-> FALSE]
<1>1. b \in Brokers  BY BrokerType DEF Brokers
<1>2. b.js = js /\ b.q = q /\ b.opened = opened /\ b.fans = fans  OBVIOUS
<1>3. Become(b)  BY DEF Become, PaceElapses
<1> HIDE DEF b
<1>4. Sound(b) /\ Trusted(b)  BY <1>1, <1>2, BrokerType, BrokerInvFrom
<1> QED  BY <1>3, <1>4, BecomeSound

\* Every step of the queue's consumers and streams is sound.
LEMMA QueueStepSound == ASSUME BrokerInv, QueueStep PROVE BrokerInv'
<1>1. ASSUME NEW c \in Consumers, Register(c) \/ Start(c) \/ StopConsumer(c)  PROVE BrokerInv'
    BY <1>1, RegisterSound, StartSound, StoppedSound DEF StopConsumer
<1>2. CASE PublishBegin \/ ParkBegin  BY <1>2, BrokerStays DEF PublishBegin, ParkBegin
<1>3. CASE SendOpens  BY <1>3, reopenPacedSound DEF SendOpens
<1>4. CASE SendRow  BY <1>4, reopenPacedSound, BrokerStays DEF SendRow
<1> QED  BY <1>1, <1>2, <1>3, <1>4, PaceElapsesSound, LoseSound DEF QueueStep

\* Every step of the broker, the reloads and the losses is sound.
LEMMA BrokerInvKept == ASSUME SettingsType, BrokerInv, [Next]_vars PROVE BrokerInv'
<1>1. CASE UNCHANGED mqVars  BY <1>1, BrokerStays DEF mqVars
<1>2. CASE HandOver
    <2>1. PICK r \in reconcile(Broker) : Become(r.b)  BY <1>2 DEF HandOver
    <2>2. Sound(r.b) /\ Trusted(r.b)  BY reconcileSound DEF BrokerInv
    <2> QED  BY <2>1, <2>2, BecomeSound
<1> QED  BY <1>1, <1>2, QueueStepSound DEF Next, Adopt, Sweeping, vars

\* A boot takes stock of the disk and reconciles before anyone publishes.
LEMMA BrokerInvInit == ASSUME Init, SettingsType PROVE BrokerInv
<1>0. PICK disk \in Scene.disks : \E r \in reconcile(takeStock(disk)) :
          js = r.b.js /\ q = r.b.q /\ opened = r.b.opened /\ fans = r.b.fans /\ paced = r.b.paced
    BY DEF Init
<1>1. PICK r \in reconcile(takeStock(disk)) :
          js = r.b.js /\ q = r.b.q /\ opened = r.b.opened /\ fans = r.b.fans /\ paced = r.b.paced
    BY <1>0
<1>2. disk \in Disks  BY SceneAssumption DEF SettingsType, Scene
<1>3. Sound(takeStock(disk)) /\ Trusted(takeStock(disk))  BY <1>2, takeStockSound
<1>4. Sound(r.b) /\ Trusted(r.b)  BY <1>3, reconcileSound
<1>5. r.b = [js |-> r.b.js, q |-> r.b.q, opened |-> r.b.opened, fans |-> r.b.fans, paced |-> r.b.paced]
    BY <1>4 DEF Sound, Brokers
<1>6. Broker = r.b  BY <1>1, <1>5 DEF Broker
<1> QED  BY <1>4, <1>6 DEF BrokerInv

\* A queue publishes trust is one every registered consumer reads, whatever
\* was lost, reopened, resized or joined in part (EmbeddedNATS.opened,
\* apply), for any consumers, budgets and number of incarnations.
THEOREM OpenHeld == Spec => []OpenIsHeld
<1>1. Init => SettingsType /\ BrokerInv  BY PurgeInvInit, BrokerInvInit DEF PurgeInv
<1>2. SettingsType /\ BrokerInv /\ [Next]_vars => (SettingsType /\ BrokerInv)'
    BY SettingsKept, BrokerInvKept
<1>3. BrokerInv => OpenIsHeld
    <2> SUFFICES ASSUME BrokerInv, opened, js.ingest # 0, NEW c \in registered(Broker)
                 PROVE  /\ fans[c].handle = js.ingest
                        /\ fans[c].pc = "delivering" => fans[c].running = js.ingest
        BY DEF OpenIsHeld
    <2>1. c \in Consumers /\ fans[c].pc \in {"registered", "delivering"}  BY DEF registered, Broker
    <2> QED  BY <2>1, BrokerType
<1> QED  BY <1>1, <1>2, <1>3, PTL DEF Spec
=============================================================================
