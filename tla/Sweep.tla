-------------------------------- MODULE Sweep --------------------------------
(***************************************************************************)
(* The active sweeper (internal/ingest/sweeper.go) and the purge it asks   *)
(* of the queue (internal/mq/purge.go): one tenant's ingest stream while   *)
(* rows are stored and acked, and a sweep that reads the ack floor, finds  *)
(* the first sequence of the replay window by binary search, one lookup    *)
(* at a time, and purges below the lower of the two.                       *)
(*                                                                         *)
(* The stream is JetStream's: sequences are given in the order messages    *)
(* are stored, with the time of the server's clock, which is the           *)
(* sweeper's; a sequence below the last may hold no message any more.      *)
(* What cutoff a sweep starts with is the composing module's.              *)
(***************************************************************************)
EXTENDS Integers, FiniteSets, FiniteSetsExt, Functions

CONSTANTS
    MaxSeq,     \* bound: messages stored
    MaxClock,   \* bound: the clock
    MaxLost     \* bound: messages deleted one by one, and lookups that fail

VARIABLES
    log,        \* the stream: sequence -> the time its message was stored
    last,       \* the last sequence given
    acked,      \* sequences the buffer consumer acked
    clock,
    sweep,      \* the sweep under way
    lost        \* how many of MaxLost have happened

stream == <<log, last, acked, clock, sweep, lost>>

NoSweep == [pc |-> "idle", cutoff |-> 0, floor |-> 0, lo |-> 0, hi |-> 0, result |-> 0]

-----------------------------------------------------------------------------
(* The stream.                                                             *)

NoLog == [s \in {} |-> 0]

Store ==
    /\ last < MaxSeq
    /\ last' = last + 1
    /\ log' = [s \in DOMAIN log \cup {last + 1} |-> IF s = last + 1 THEN clock ELSE log[s]]
    /\ UNCHANGED <<acked, clock, sweep, lost>>

Ack(s) ==
    /\ s \in DOMAIN log \ acked
    /\ acked' = acked \cup {s}
    /\ UNCHANGED <<log, last, clock, sweep, lost>>

\* A message deleted on its own leaves a hole.
Delete(s) ==
    /\ s \in DOMAIN log
    /\ lost < MaxLost /\ lost' = lost + 1
    /\ log' = Restrict(log, DOMAIN log \ {s})
    /\ UNCHANGED <<last, acked, clock, sweep>>

Tick ==
    /\ clock < MaxClock /\ clock' = clock + 1
    /\ UNCHANGED <<log, last, acked, sweep, lost>>

\* consumerAckFloor: every message up to it is acked.
ackFloor == Max({n \in 0..last : \A s \in DOMAIN log : s <= n => s \in acked})

\* The sequence that FirstSeq reports.
firstSeq == IF DOMAIN log = {} THEN last + 1 ELSE Min(DOMAIN log)

-----------------------------------------------------------------------------
(* One sweep: purgeAcked and findGapSequence.                              *)

SweepTo(s) == sweep' = s /\ UNCHANGED <<log, last, acked, clock, lost>>

\* PurgeAcked: the stream is taken; cutoff was computed at the tick.
SweepStart(cutoff) ==
    /\ sweep.pc = "idle"
    /\ SweepTo([NoSweep EXCEPT !.pc = "floor", !.cutoff = cutoff])

ReadFloor ==
    /\ sweep.pc = "floor"
    /\ SweepTo([sweep EXCEPT !.pc = "state", !.floor = ackFloor])

\* An empty stream has nothing to purge.
ReadState ==
    /\ sweep.pc = "state"
    /\ SweepTo(IF firstSeq > last THEN NoSweep
               ELSE [sweep EXCEPT !.pc = "oldest", !.lo = firstSeq, !.hi = last, !.result = last + 1])

\* Nothing is older than the cutoff when the first message is not.
ReadOldest ==
    /\ sweep.pc = "oldest"
    /\ SweepTo(IF sweep.lo \in DOMAIN log /\ log[sweep.lo] >= sweep.cutoff THEN NoSweep
               ELSE [sweep EXCEPT !.pc = "search"])

Middle == sweep.lo + (sweep.hi - sweep.lo) \div 2

\* A sequence with no message is taken for one before the cutoff.
BeforeCutoffBug(s) == s \notin DOMAIN log \/ log[s] < sweep.cutoff

\* A sequence with no message gives nothing to compare, and counts as inside
\* the window.
BeforeCutoff(s) == s \in DOMAIN log /\ log[s] < sweep.cutoff

Probe ==
    /\ sweep.pc = "search" /\ sweep.lo <= sweep.hi
    /\ SweepTo(IF BeforeCutoff(Middle) THEN [sweep EXCEPT !.lo = Middle + 1]
               ELSE [sweep EXCEPT !.result = Middle, !.hi = Middle - 1])

\* The last message the sweep knew is kept.
purgeTargetBug == Min({sweep.floor, sweep.result})

purgeTarget == Min({sweep.floor + 1, sweep.result})

\* purgeBelow; a target of 1 removes nothing.
PurgeBelow ==
    /\ sweep.pc = "search" /\ sweep.lo > sweep.hi
    /\ log' = Restrict(log, {s \in DOMAIN log : s >= purgeTarget})
    /\ sweep' = NoSweep
    /\ UNCHANGED <<last, acked, clock, lost>>

\* A call to the queue fails: this tenant's purge is given up until the next
\* sweep.
SweepFails ==
    /\ sweep.pc # "idle"
    /\ lost < MaxLost /\ lost' = lost + 1
    /\ sweep' = NoSweep
    /\ UNCHANGED <<log, last, acked, clock>>

SweepStep == ReadFloor \/ ReadState \/ ReadOldest \/ Probe \/ PurgeBelow

SweepInit ==
    /\ log = NoLog /\ last = 0 /\ acked = {}
    /\ clock = 0 /\ sweep = NoSweep /\ lost = 0

StreamStep ==
    \/ Store \/ Tick \/ SweepFails
    \/ \E s \in DOMAIN log : Ack(s) \/ Delete(s)
=============================================================================
