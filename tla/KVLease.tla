------------------------------- MODULE KVLease -------------------------------
(***************************************************************************)
(* One lease in the operator's NATS KV bucket (internal/mq/lease.go), the  *)
(* coordinators of several processes campaigning for it, renewing it and   *)
(* resigning it.                                                           *)
(*                                                                         *)
(* A write is sent, stored or refused by the server for its revision, and  *)
(* answered; any of these may come late or not at all, so a write a        *)
(* process has given up waiting for may still be stored.  Reads answer at  *)
(* once or fail: what was decided on a read is written at the revision     *)
(* read, so a read that answers late differs only in being refused.        *)
(*                                                                         *)
(* Every instant is on one process's own clock, and kept as its age.       *)
(* Clocks run at one rate.  A process is late for its timers only if it is *)
(* one of Stallers.                                                        *)
(***************************************************************************)
EXTENDS Integers, FiniteSets

CONSTANTS
    Procs,           \* processes
    Stallers,        \* processes that may stop running past their timers
    LeaseDuration,   \* leaseTimings.duration, also the value's DurationMS
    RenewDeadline,   \* leaseTimings.renewDeadline
    CampaignTimeout, \* what bounds TryAcquire's requests
    MaxTerms,        \* bound: campaigns that send a write
    MaxRestarts,     \* bound: process -> times it starts again
    MaxLate,         \* bound: writes in flight that nobody waits for
    MaxRev           \* bound: revisions of the key

\* "Each must be shorter than the one before" (WithLeaseTimings).
ASSUME LeaseAssumption ==
    /\ Stallers \subseteq Procs
    /\ RenewDeadline \in Nat \ {0} /\ CampaignTimeout \in Nat \ {0}
    /\ LeaseDuration \in Nat /\ RenewDeadline < LeaseDuration
    /\ CampaignTimeout < LeaseDuration
    /\ MaxTerms \in Nat /\ MaxRestarts \in [Procs -> Nat] /\ MaxLate \in Nat /\ MaxRev \in Nat

VARIABLES
    kv,     \* the key: its revision and the value stored there
    net,    \* writes on their way to the server
    coord,  \* process -> its coordinator (natsLeases and its natsTerm)
    terms,  \* campaigns so far, for their values
    granted \* history: the tokens of the terms handed out

vars == <<kv, net, coord, terms, granted>>

\* A session is one run of a process; a value is the campaign that wrote it
\* and that campaign's session (leaseValue.Term, leaseValue.Session).  None
\* is a key that is absent or holds a delete marker.
Sessions == Procs \X Nat
None == [term |-> 0]
Values == {None} \cup [term : 1..MaxTerms, session : Sessions]

Ages == 0..LeaseDuration
Older(age) == IF age < LeaseDuration THEN age + 1 ELSE age

\* pc: where the process is in TryAcquire ("campaign" sent a write), in the
\*     renew loop ("held"; "renewing" sent a write; "adopting" another, at the
\*     revision adoptLostReply read) or in Resign ("resigning" sent a delete).
\* own, rev, token: the term's value, the revision last written, the token.
\* last: age of the renewal the deadline runs from.  sent: age of the write
\*     awaited.  req, got: the answer to it and the revision it stored.
\* seen, since: the leaseSighting.
Pcs == {"idle", "campaign", "held", "renewing", "adopting", "resigning", "closed"}
Answers == {"none", "sent", "refused", "stored"}
Fresh(session) ==
    [pc |-> "idle", own |-> None, rev |-> 0, token |-> 0, last |-> 0, sent |-> 0,
     req |-> "none", got |-> 0, seen |-> 0, since |-> 0, session |-> session, closing |-> FALSE]

\* l.held: the term handed out and not ended.
Holds(p) == coord[p].pc \in {"held", "renewing", "adopting"}

Set(p, c) == coord' = [coord EXCEPT ![p] = c]

\* late: the process no longer waits for its answer.
Write(p, val, at, kind) == [proc |-> p, val |-> val, at |-> at, kind |-> kind, late |-> FALSE]
Kinds == {"create", "update", "delete"}

\* What p stops waiting for is lost, or may still arrive.
Kept(p) == {w \in net : w.late \/ w.proc # p}
Abandoned(p) ==
    {Kept(p)} \cup
    (IF Cardinality({w \in net : w.late}) < MaxLate
     THEN {Kept(p) \cup {[w EXCEPT !.late = TRUE] : w \in net \ Kept(p)}} ELSE {})

Present == kv.val # None

Init ==
    /\ kv = [rev |-> 0, val |-> None]
    /\ net = {}
    /\ coord = [p \in Procs |-> Fresh(<<p, 0>>)]
    /\ terms = 0
    /\ granted = {}

-----------------------------------------------------------------------------
(* The bucket.                                                             *)

\* Create finds no value; an Update or a Delete finds the revision it names.
Accepted(w) == IF w.kind = "create" THEN ~Present ELSE kv.rev = w.at /\ Present

\* The server stores a write, or refuses it (casConflict), and answers.
Arrive(w) ==
    /\ w \in net
    /\ kv.rev < MaxRev
    /\ net' = net \ {w}
    /\ kv' = IF Accepted(w) THEN [rev |-> kv.rev + 1, val |-> w.val] ELSE kv
    /\ IF ~w.late
       THEN Set(w.proc, [coord[w.proc] EXCEPT !.req = IF Accepted(w) THEN "stored" ELSE "refused",
                                           !.got = IF Accepted(w) THEN kv.rev + 1 ELSE 0])
       ELSE UNCHANGED coord
    /\ UNCHANGED <<terms, granted>>

-----------------------------------------------------------------------------
(* TryAcquire and Held.                                                    *)

\* expired: the revision has been seen unchanged for the lease duration.
Expired(c) == c.seen = kv.rev /\ c.since >= LeaseDuration

\* ... and what expired remembers: the clock starts on a revision not seen before.
Sighted(c) == IF c.seen = kv.rev THEN c ELSE [c EXCEPT !.seen = kv.rev, !.since = 0]

\* This coordinator's own write outlived a term it gave up.
Mine(c) == Present /\ kv.val.session = c.session

\* TryAcquire up to the write that campaign sends.
TryAcquire(p) ==
    LET c == coord[p]
        own == [term |-> terms + 1, session |-> c.session]
        Send(kind) ==
            /\ terms < MaxTerms
            /\ terms' = terms + 1
            /\ net' = net \cup {Write(p, own, kv.rev, kind)}
            /\ Set(p, [c EXCEPT !.pc = "campaign", !.own = own, !.rev = 0, !.sent = 0, !.req = "sent"])
            /\ UNCHANGED <<kv, granted>>
    IN /\ c.pc = "idle"
       /\ \/ ~Present /\ Send("create")
          \/ Present /\ (Mine(c) \/ Expired(c)) /\ Send("update")
          \/ Present /\ ~Mine(c) /\ ~Expired(c)     \* ErrHeld
             /\ Set(p, Sighted(c)) /\ UNCHANGED <<kv, net, terms, granted>>

\* Held: another holder's lease starts or reads the same clock.
Observe(p) ==
    /\ ~Holds(p) /\ coord[p].pc # "closed"
    /\ Present /\ ~Mine(coord[p])
    /\ Set(p, Sighted(coord[p]))
    /\ UNCHANGED <<kv, net, terms, granted>>

AcquiredBug(p) ==
    [coord[p] EXCEPT !.pc = "held", !.rev = coord[p].got, !.token = coord[p].got,
                     !.last = 0, !.sent = 0, !.req = "none", !.got = 0, !.seen = 0, !.since = 0]

\* The campaign's write was stored: the term begins, its deadline running
\* from before the write.  A coordinator closed meanwhile hands it back.
Acquired(p) ==
    [coord[p] EXCEPT !.pc = "held", !.rev = coord[p].got, !.token = coord[p].got,
                     !.last = coord[p].sent, !.sent = 0, !.req = "none", !.got = 0, !.seen = 0, !.since = 0]

CampaignWon(p) ==
    /\ coord[p].pc = "campaign" /\ coord[p].req = "stored"
    /\ IF coord[p].closing
       THEN /\ net' = net \cup {Write(p, None, coord[p].got, "delete")}
            /\ Set(p, [coord[p] EXCEPT !.pc = "closed", !.own = None, !.sent = 0, !.req = "none", !.got = 0])
            /\ UNCHANGED granted
       ELSE /\ Set(p, Acquired(p))
            /\ granted' = granted \cup {coord[p].got}
            /\ UNCHANGED net
    /\ UNCHANGED <<kv, terms>>

\* Refused, or no answer in time.
CampaignLost(p) ==
    /\ coord[p].pc = "campaign" /\ coord[p].req \in {"sent", "refused"}
    /\ Set(p, [coord[p] EXCEPT !.pc = IF coord[p].closing THEN "closed" ELSE "idle", !.own = None,
                               !.sent = 0, !.req = "none", !.got = 0])
    /\ net' \in Abandoned(p)
    /\ UNCHANGED <<kv, terms, granted>>

-----------------------------------------------------------------------------
(* The renew loop.                                                         *)

\* A tick of the loop: the key is rewritten at the revision last written.
Renew(p) ==
    LET c == coord[p]
    IN /\ c.pc = "held" /\ c.last < RenewDeadline
       /\ net' = net \cup {Write(p, c.own, c.rev, "update")}
       /\ Set(p, [c EXCEPT !.pc = "renewing", !.sent = 0, !.req = "sent"])
       /\ UNCHANGED <<kv, terms, granted>>

Renewed(p) ==
    /\ coord[p].pc \in {"renewing", "adopting"} /\ coord[p].req = "stored"
    /\ Set(p, [coord[p] EXCEPT !.pc = "held", !.rev = coord[p].got, !.last = coord[p].sent,
                               !.sent = 0, !.req = "none", !.got = 0])
    /\ UNCHANGED <<kv, net, terms, granted>>

\* end: the term is over here and the name free to campaign for again.
Ended(c) == [c EXCEPT !.pc = "idle", !.own = None, !.rev = 0, !.token = 0, !.last = 0,
                      !.sent = 0, !.req = "none", !.got = 0]

AdoptableBug(c) == kv.rev > c.rev

\* This term's own value at a later revision: the answer of an earlier
\* renewal was lost.
Adoptable(c) == kv.rev > c.rev /\ kv.val = c.own

\* A refused renewal: adoptLostReply writes again at the revision it read,
\* or the lease is another holder's and the term ends.
RenewRefused(p) ==
    LET c == coord[p]
    IN /\ c.pc = "renewing" /\ c.req = "refused"
       /\ IF Adoptable(c)
          THEN /\ net' = net \cup {Write(p, c.own, kv.rev, "update")}
               /\ Set(p, [c EXCEPT !.pc = "adopting", !.req = "sent"])
          ELSE Set(p, Ended(c)) /\ UNCHANGED net
       /\ UNCHANGED <<kv, terms, granted>>

\* No answer, a read that failed, or the adopted revision was overwritten:
\* tried again on the next tick.
RenewFailed(p) ==
    /\ \/ coord[p].pc = "renewing" /\ coord[p].req \in {"sent", "refused"}
       \/ coord[p].pc = "adopting" /\ coord[p].req \in {"sent", "refused"}
    /\ Set(p, [coord[p] EXCEPT !.pc = "held", !.sent = 0, !.req = "none", !.got = 0])
    /\ net' \in Abandoned(p)
    /\ UNCHANGED <<kv, terms, granted>>

\* The deadline timer: no renewal was stored in time.
DeadlinePassed(p) ==
    /\ Holds(p) /\ coord[p].last >= RenewDeadline
    /\ Set(p, Ended(coord[p]))
    /\ net' \in Abandoned(p)
    /\ UNCHANGED <<kv, terms, granted>>

-----------------------------------------------------------------------------
(* Resign and Close.                                                       *)

\* A renewal in flight is aborted and may still be stored; the term ends,
\* then the key is deleted at the revision last written.
Resign(p) ==
    LET c == coord[p]
    IN /\ Holds(p)
       /\ \E rest \in Abandoned(p) : net' = rest \cup {Write(p, None, c.rev, "delete")}
       /\ Set(p, [c EXCEPT !.pc = "resigning", !.sent = 0, !.req = "sent"])
       /\ UNCHANGED <<kv, terms, granted>>

\* Deleted, left to run out, or refused: then this term's own later value is
\* deleted, and nothing else.
Resigned(p) ==
    LET c == coord[p]
        after == [Ended(c) EXCEPT !.pc = IF c.closing THEN "closed" ELSE "idle"]
    IN /\ c.pc = "resigning"
       /\ \/ Set(p, after) /\ net' \in Abandoned(p)
          \/ /\ c.req = "refused" /\ Adoptable(c)
             /\ net' = net \cup {Write(p, None, kv.rev, "delete")}
             /\ Set(p, [c EXCEPT !.rev = kv.rev, !.req = "sent"])
       /\ UNCHANGED <<kv, terms, granted>>

\* Close: no campaign from now on; a held term is resigned.
Close(p) ==
    LET c == coord[p]
    IN /\ ~c.closing
       /\ \/ /\ Holds(p)
             /\ \E rest \in Abandoned(p) : net' = rest \cup {Write(p, None, c.rev, "delete")}
             /\ Set(p, [c EXCEPT !.pc = "resigning", !.sent = 0, !.req = "sent", !.closing = TRUE])
          \/ /\ ~Holds(p)
             /\ Set(p, [c EXCEPT !.closing = TRUE, !.pc = IF @ = "idle" THEN "closed" ELSE @])
             /\ UNCHANGED net
       /\ UNCHANGED <<kv, terms, granted>>

\* The process dies and one starts in its place, with a session of its own.
Restart(p) ==
    /\ coord[p].session[2] < MaxRestarts[p]
    /\ Set(p, Fresh(<<p, coord[p].session[2] + 1>>))
    /\ net' \in Abandoned(p)
    /\ UNCHANGED <<kv, terms, granted>>

-----------------------------------------------------------------------------
\* Time passes where no timer that is kept is due.  The age of a sighting
\* that a newer revision has replaced no longer matters.
Overdue(p) ==
    \/ Holds(p) /\ coord[p].last >= RenewDeadline
    \/ coord[p].pc = "campaign" /\ coord[p].sent >= CampaignTimeout

Tick ==
    /\ \A p \in Procs \ Stallers : ~Overdue(p)
    /\ coord' = [p \in Procs |-> [coord[p] EXCEPT
                    !.last = IF Holds(p) THEN Older(@) ELSE @,
                    !.sent = IF coord[p].req # "none" THEN Older(@) ELSE @,
                    !.since = IF coord[p].seen = kv.rev THEN Older(@) ELSE @]]
    /\ coord' # coord
    /\ UNCHANGED <<kv, net, terms, granted>>

Step(p) ==
    \/ TryAcquire(p) \/ Observe(p) \/ CampaignWon(p) \/ CampaignLost(p)
    \/ Renew(p) \/ Renewed(p) \/ RenewRefused(p) \/ RenewFailed(p) \/ DeadlinePassed(p)
    \/ Resign(p) \/ Resigned(p) \/ Close(p) \/ Restart(p)

Next ==
    \/ \E w \in net : Arrive(w)
    \/ \E p \in Procs : Step(p)
    \/ Tick

Spec == Init /\ [][Next]_vars

-----------------------------------------------------------------------------
(* Properties.                                                             *)

TypeOK ==
    /\ kv \in [rev : 0..MaxRev, val : Values]
    /\ net \subseteq [proc : Procs, val : Values, at : 0..MaxRev, kind : Kinds, late : BOOLEAN]
    /\ coord \in [Procs -> [pc : Pcs, own : Values, rev : 0..MaxRev, token : 0..MaxRev,
                            last : Ages, sent : Ages, req : Answers, got : 0..MaxRev, seen : 0..MaxRev,
                            since : Ages, session : Sessions, closing : BOOLEAN]]
    /\ terms \in 0..MaxTerms
    /\ granted \subseteq 1..MaxRev

\* The coordinators implement the lease of coord.go, whatever writes and
\* answers are delayed or lost and whoever restarts: no process that keeps
\* its timers overlaps another term, and tokens fence the ones that do not.
Contract == INSTANCE Lease WITH
    term <- [p \in Procs |-> IF Holds(p) THEN coord[p].token ELSE 0],
    used <- granted

Implements == Contract!Spec

\* A resign or a close deletes its own term's entry and no later one: the
\* entry of a live term is there, at the revision that term last wrote or at
\* one a renewal of its own brought it to.
EntryIntact ==
    \A p \in Procs \ Stallers : Holds(p) => kv.val = coord[p].own /\ kv.rev >= coord[p].rev
=============================================================================
