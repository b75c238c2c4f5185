---------------------------- MODULE KVLeaseProofs ----------------------------
(***************************************************************************)
(* Proofs about KVLease, for any number of processes and stallers, and any *)
(* durations and bounds that LeaseAssumption allows.                       *)
(*                                                                         *)
(* A term that keeps its timers is safe because of what LeaseInv says of   *)
(* it: the entry is its own, every write in flight that names a revision   *)
(* since its token is its own renewal (Unrivalled), and nobody has watched *)
(* the revision longer than the term's own age (Watched), which is short   *)
(* of the lease duration (OnTime).  Whatever another process, a staller or *)
(* a previous run still has in flight or believes it has stored is from    *)
(* before that token (Before).  A staller's own terms need only that no    *)
(* revision is stored twice (Distinct).                                    *)
(***************************************************************************)
EXTENDS KVLease, TLAPS

-----------------------------------------------------------------------------
(* The inductive invariant.                                                *)

\* What a coordinator's state says: that it holds a term, that it was told
\* of a write of its campaign or of a renewal, that it has won a term not
\* handed out yet, and the token of that term.
Waiting == {"campaign", "renewing", "adopting"}
HoldsIn(c) == c.pc \in {"held", "renewing", "adopting"}
StoredIn(c) == c.pc \in Waiting /\ c.req = "stored"
WonIn(c) == c.pc = "campaign" /\ c.req = "stored"
LiveIn(c) == HoldsIn(c) \/ WonIn(c)
TokenIn(c) == IF HoldsIn(c) THEN c.token ELSE c.got

Stored(p) == StoredIn(coord[p])
Won(p) == WonIn(coord[p])
Live(p) == LiveIn(coord[p])
Token(p) == TokenIn(coord[p])

Punctual == Procs \ Stallers

\* No revision is known before it was stored.
Bounded ==
    /\ \A p \in Procs : /\ coord[p].rev <= kv.rev /\ coord[p].token <= kv.rev
                        /\ coord[p].got <= kv.rev /\ coord[p].seen <= kv.rev
    /\ \A w \in net : w.at <= kv.rev
    /\ \A t \in granted : t <= kv.rev

\* A process works for its own run, and its writes carry its own values.
Owned ==
    /\ \A p \in Procs :
        /\ coord[p].session[1] = p
        /\ coord[p].pc \notin {"idle", "closed"} => coord[p].own # None /\ coord[p].own.session[1] = p
    /\ \A w \in net : w.val # None => w.val.session[1] = w.proc

\* The write a process waits for is the only one it has not given up.
Awaited ==
    /\ \A w \in net : ~w.late =>
        \/ /\ coord[w.proc].pc \in Waiting
           /\ coord[w.proc].req = "sent" /\ w.val = coord[w.proc].own
        \/ coord[w.proc].pc \in {"resigning", "closed"}
    /\ \A v, w \in net :
        ~v.late /\ ~w.late /\ v.proc = w.proc /\ coord[v.proc].pc \notin {"resigning", "closed"} => v = w

\* Nobody has watched a revision for longer than it has been there.
Watched ==
    \A p, q \in Procs :
        /\ Holds(p) /\ coord[q].seen >= coord[p].rev => coord[q].since <= coord[p].last
        /\ Stored(p) /\ coord[q].seen >= coord[p].got => coord[q].since <= coord[p].sent

\* A process that keeps its timers gives up before the lease has run out.
OnTime ==
    \A p \in Punctual :
        /\ Holds(p) => coord[p].last < LeaseDuration
        /\ coord[p].pc = "campaign" => coord[p].sent < LeaseDuration
        /\ coord[p].pc \in {"renewing", "adopting"} => coord[p].sent <= coord[p].last

\* The entry of a punctual live term is its own, and so is every write that
\* names a revision stored since its token.
Unrivalled ==
    \A p \in Punctual : Live(p) =>
        /\ kv.val = coord[p].own
        /\ \A w \in net : w.kind # "create" /\ w.at >= Token(p) => w.val = coord[p].own

\* What anyone else holds, or was told it stored, is older than its token.
Before ==
    \A p \in Punctual : Live(p) =>
        /\ \A q \in Procs \ {p} :
            /\ Holds(q) => coord[q].rev < Token(p) /\ coord[q].token < Token(p)
            /\ Stored(q) => coord[q].got < Token(p)
        /\ \A t \in granted : t <= Token(p)

\* No revision is the token of two terms.
Distinct ==
    /\ \A p \in Procs : Holds(p) => coord[p].token > 0
    /\ \A p \in Procs : Stored(p) => coord[p].got > 0
    /\ \A p \in Procs : Won(p) => coord[p].got \notin granted
    /\ \A p, q \in Procs : p # q /\ Live(p) /\ Live(q) => Token(p) # Token(q)

LeaseInv ==
    /\ TypeOK /\ Bounded /\ Owned /\ Awaited /\ Watched /\ OnTime
    /\ Unrivalled /\ Before /\ Distinct

-----------------------------------------------------------------------------
(* A step of one process: what it makes of its coordinator, c, and the     *)
(* writes it sends, fresh.                                                 *)

Coords == [pc : Pcs, own : Values, rev : 0..MaxRev, token : 0..MaxRev,
           last : Ages, sent : Ages, req : Answers, got : 0..MaxRev, seen : 0..MaxRev,
           since : Ages, session : Sessions, closing : BOOLEAN]
Writes == [proc : Procs, val : Values, at : 0..MaxRev, kind : Kinds, late : BOOLEAN]

\* The same write, waited for or not any more.
Same(v, w) == v.proc = w.proc /\ v.val = w.val /\ v.at = w.at /\ v.kind = w.kind

Moves(p, c, fresh) ==
    /\ coord' = [coord EXCEPT ![p] = c] /\ c \in Coords
    /\ UNCHANGED kv /\ terms' \in 0..MaxTerms
    /\ fresh \subseteq Writes
    /\ \A w \in fresh : w.proc = p /\ w.at <= kv.rev /\ (w.val # None => w.val.session[1] = p)
    /\ net' \subseteq Writes
    /\ \A w \in net' : w \in fresh \/ \E v \in net : Same(v, w) /\ (v = w \/ w.late)
    /\ c.rev <= kv.rev /\ c.token <= kv.rev /\ c.got <= kv.rev /\ c.seen <= kv.rev
    /\ c.session[1] = p
    /\ c.pc \notin {"idle", "closed"} => c.own # None /\ c.own.session[1] = p

\* Of p's writes in flight it waits for one at most.
Awaits(p, c) ==
    /\ \A w \in net' : ~w.late /\ w.proc = p =>
        \/ c.pc \in Waiting /\ c.req = "sent" /\ w.val = c.own
        \/ c.pc \in {"resigning", "closed"}
    /\ \A v, w \in net' :
        ~v.late /\ ~w.late /\ v.proc = p /\ w.proc = p /\ c.pc \notin {"resigning", "closed"} => v = w

\* It keeps its ages, and starts its sighting again if it changes it; a
\* renewal it was told of sets its age to that of the write.
Ageing(p, c) ==
    /\ (c.seen = coord[p].seen /\ c.since = coord[p].since) \/ c.since = 0
    /\ HoldsIn(c) =>
        \/ Holds(p) /\ c.rev = coord[p].rev /\ c.last = coord[p].last
        \/ Stored(p) /\ c.rev = coord[p].got /\ c.last = coord[p].sent
    /\ StoredIn(c) => Stored(p) /\ c.got = coord[p].got /\ c.sent = coord[p].sent
    /\ c.pc = "campaign" => c.sent = 0 \/ (coord[p].pc = "campaign" /\ c.sent = coord[p].sent)
    /\ c.pc \in {"renewing", "adopting"} =>
        \/ c.sent = 0
        \/ /\ coord[p].pc \in {"renewing", "adopting"}
           /\ c.sent = coord[p].sent /\ c.last = coord[p].last

\* A term goes on as it was or ends; what p is granted it had won.
Continues(p, c, fresh) ==
    /\ LiveIn(c) => Live(p) /\ TokenIn(c) = Token(p) /\ c.own = coord[p].own
    /\ WonIn(c) => Won(p) /\ c.got = coord[p].got
    /\ \A w \in fresh : LiveIn(c) => w.val = c.own
    /\ \A q \in Punctual \ {p} : Live(q) => \A w \in fresh : w.kind = "create" \/ w.at < Token(q)
    /\ \/ granted' = granted
       \/ granted' = granted \cup {coord[p].got} /\ Won(p) /\ ~WonIn(c)

\* A step of one process that sends no write and takes no answer it did not get.
LEMMA LocalStep ==
    ASSUME LeaseInv, NEW p \in Procs, NEW c, NEW fresh,
           Moves(p, c, fresh), Awaits(p, c), Ageing(p, c), Continues(p, c, fresh)
    PROVE  LeaseInv'
<1>1. /\ coord \in [Procs -> Coords] /\ net \subseteq Writes /\ kv.rev \in 0..MaxRev /\ MaxRev \in Nat
      /\ kv \in [rev : 0..MaxRev, val : Values] /\ granted \subseteq 1..MaxRev
    BY LeaseAssumption DEF LeaseInv, TypeOK, Coords, Writes
<1>2. coord'[p] = c /\ \A q \in Procs \ {p} : coord'[q] = coord[q]
    BY <1>1 DEF Moves
<1>3. coord' \in [Procs -> Coords]  BY <1>1 DEF Moves
<1>4. kv' = kv  BY DEF Moves
<1>5. Won(p) => coord[p].got \in 1..MaxRev
    BY <1>1 DEF LeaseInv, Distinct, Stored, Won, StoredIn, WonIn, Waiting, Coords
<1>6. granted' \subseteq 1..MaxRev  BY <1>1, <1>5 DEF Continues
<1>7. TypeOK'  BY <1>1, <1>3, <1>4, <1>6 DEF TypeOK, Moves, Coords, Writes
<1>8. Bounded'
    <2>1. \A q \in Procs : /\ coord'[q].rev <= kv.rev /\ coord'[q].token <= kv.rev
                            /\ coord'[q].got <= kv.rev /\ coord'[q].seen <= kv.rev
        BY <1>2 DEF Moves, LeaseInv, Bounded
    <2>2. \A w \in net' : w.at <= kv.rev  BY DEF Moves, Same, LeaseInv, Bounded
    <2>3. \A t \in granted' : t <= kv.rev  BY DEF Continues, LeaseInv, Bounded
    <2> QED  BY <1>4, <2>1, <2>2, <2>3 DEF Bounded
<1>9. Owned'
    <2>1. \A q \in Procs :
            /\ coord'[q].session[1] = q
            /\ coord'[q].pc \notin {"idle", "closed"} =>
                coord'[q].own # None /\ coord'[q].own.session[1] = q
        BY <1>2 DEF Moves, LeaseInv, Owned
    <2>2. \A w \in net' : w.val # None => w.val.session[1] = w.proc
        BY DEF Moves, Same, LeaseInv, Owned
    <2> QED  BY <2>1, <2>2 DEF Owned
<1>10. Awaited'
    <2>1. ASSUME NEW w \in net', ~w.late, w.proc # p  PROVE w \in net
        BY <2>1 DEF Moves
    <2>2. \A w \in net' : w.proc \in Procs  BY DEF Moves, Writes
    <2>3. \A w \in net' : ~w.late =>
            \/ coord'[w.proc].pc \in Waiting /\ coord'[w.proc].req = "sent" /\ w.val = coord'[w.proc].own
            \/ coord'[w.proc].pc \in {"resigning", "closed"}
        <3> SUFFICES ASSUME NEW w \in net', ~w.late
                     PROVE  \/ coord'[w.proc].pc \in Waiting /\ coord'[w.proc].req = "sent" /\ w.val = coord'[w.proc].own
                            \/ coord'[w.proc].pc \in {"resigning", "closed"}
            OBVIOUS
        <3>1. CASE w.proc = p  BY <1>2, <3>1 DEF Awaits
        <3>2. CASE w.proc # p  BY <1>2, <2>1, <2>2, <3>2 DEF LeaseInv, Awaited
        <3> QED  BY <3>1, <3>2
    <2>4. ASSUME NEW v \in net', NEW w \in net', ~v.late, ~w.late, v.proc = w.proc,
                 coord'[v.proc].pc \notin {"resigning", "closed"}
          PROVE  v = w
        <3>1. CASE w.proc = p  BY <1>2, <2>4, <3>1 DEF Awaits
        <3>2. CASE w.proc # p  BY <1>2, <2>1, <2>2, <2>4, <3>2 DEF LeaseInv, Awaited
        <3> QED  BY <3>1, <3>2
    <2> QED  BY <2>3, <2>4 DEF Awaited
<1>11. Watched'
    <2> SUFFICES ASSUME NEW r \in Procs, NEW q \in Procs
                 PROVE  /\ HoldsIn(coord'[r]) /\ coord'[q].seen >= coord'[r].rev =>
                            coord'[q].since <= coord'[r].last
                        /\ StoredIn(coord'[r]) /\ coord'[q].seen >= coord'[r].got =>
                            coord'[q].since <= coord'[r].sent
        BY DEF Watched, Holds, Stored, HoldsIn
    <2>1. /\ coord'[r].last >= 0 /\ coord'[r].sent >= 0
          /\ coord'[q].seen \in Nat /\ coord[q].seen \in Nat
        BY <1>1, <1>3, LeaseAssumption DEF Coords, Ages
    <2>2. (coord'[q].seen = coord[q].seen /\ coord'[q].since = coord[q].since) \/ coord'[q].since = 0
        BY <1>2 DEF Ageing
    <2>3. /\ Holds(r) /\ coord[q].seen >= coord[r].rev => coord[q].since <= coord[r].last
          /\ Stored(r) /\ coord[q].seen >= coord[r].got => coord[q].since <= coord[r].sent
        BY DEF LeaseInv, Watched
    <2>4. HoldsIn(coord'[r]) =>
            \/ Holds(r) /\ coord'[r].rev = coord[r].rev /\ coord'[r].last = coord[r].last
            \/ Stored(r) /\ coord'[r].rev = coord[r].got /\ coord'[r].last = coord[r].sent
        BY <1>2 DEF Ageing, Holds, HoldsIn
    <2>5. StoredIn(coord'[r]) =>
            Stored(r) /\ coord'[r].got = coord[r].got /\ coord'[r].sent = coord[r].sent
        BY <1>2 DEF Ageing, Stored
    <2> QED  BY <2>1, <2>2, <2>3, <2>4, <2>5
<1>12. OnTime'
    <2> SUFFICES ASSUME NEW q \in Punctual
                 PROVE  /\ HoldsIn(coord'[q]) => coord'[q].last < LeaseDuration
                        /\ coord'[q].pc = "campaign" => coord'[q].sent < LeaseDuration
                        /\ coord'[q].pc \in {"renewing", "adopting"} => coord'[q].sent <= coord'[q].last
        BY DEF OnTime, Holds, HoldsIn
    <2>1. q \in Procs /\ LeaseDuration \in Nat /\ LeaseDuration > 0
        BY LeaseAssumption DEF Punctual
    <2>2. /\ Holds(q) => coord[q].last < LeaseDuration
          /\ coord[q].pc = "campaign" => coord[q].sent < LeaseDuration
          /\ coord[q].pc \in {"renewing", "adopting"} => coord[q].sent <= coord[q].last
        BY DEF LeaseInv, OnTime
    <2>3. coord[q].last \in Nat /\ coord[q].sent \in Nat /\ c.last \in Nat /\ c.sent \in Nat
        BY <1>1, <2>1 DEF Moves, Coords, Ages
    <2>4. CASE q = p
        BY <1>2, <2>1, <2>2, <2>3, <2>4 DEF Ageing, HoldsIn, Holds, Stored, StoredIn, Waiting
    <2>5. CASE q # p  BY <1>2, <2>1, <2>2, <2>5 DEF HoldsIn, Holds
    <2> QED  BY <2>4, <2>5
<1>13. ASSUME NEW q \in Procs, LiveIn(coord'[q])
       PROVE  Live(q) /\ TokenIn(coord'[q]) = Token(q) /\ coord'[q].own = coord[q].own
    BY <1>2, <1>13 DEF Continues, Live, Token
<1>14. Unrivalled'
    <2> SUFFICES ASSUME NEW q \in Punctual, LiveIn(coord'[q])
                 PROVE  /\ kv.val = coord'[q].own
                        /\ \A w \in net' : w.kind # "create" /\ w.at >= TokenIn(coord'[q]) =>
                                w.val = coord'[q].own
        BY <1>4 DEF Unrivalled, Live, Token
    <2>1. q \in Procs  BY DEF Punctual
    <2>2. Live(q) /\ TokenIn(coord'[q]) = Token(q) /\ coord'[q].own = coord[q].own
        BY <1>13, <2>1
    <2>3. kv.val = coord[q].own /\ \A w \in net : w.kind # "create" /\ w.at >= Token(q) => w.val = coord[q].own
        BY <2>2 DEF LeaseInv, Unrivalled
    <2>4. Token(q) \in Nat  BY <1>1, <2>1 DEF Token, TokenIn, Coords
    <2>5. ASSUME NEW w \in net', w.kind # "create", w.at >= Token(q)  PROVE w.val = coord[q].own
        <3>1. CASE w \in fresh
            <4>1. w.at \in Nat  BY <3>1 DEF Moves, Writes
            <4> QED  BY <1>2, <2>2, <2>4, <2>5, <3>1, <4>1 DEF Continues
        <3>2. CASE w \notin fresh  BY <2>3, <2>5, <3>2 DEF Moves, Same
        <3> QED  BY <3>1, <3>2
    <2> QED  BY <2>2, <2>3, <2>5
<1>15. \A t \in granted' : t \in granted \/ (Won(p) /\ t = coord[p].got)  BY DEF Continues
<1>16. Before'
    <2> SUFFICES ASSUME NEW q \in Punctual, LiveIn(coord'[q])
                 PROVE  /\ \A r \in Procs \ {q} :
                            /\ HoldsIn(coord'[r]) =>
                                coord'[r].rev < TokenIn(coord'[q]) /\ coord'[r].token < TokenIn(coord'[q])
                            /\ StoredIn(coord'[r]) => coord'[r].got < TokenIn(coord'[q])
                        /\ \A t \in granted' : t <= TokenIn(coord'[q])
        BY DEF Before, Live, Token, Holds, HoldsIn, Stored
    <2>1. q \in Procs  BY DEF Punctual
    <2>2. Live(q) /\ TokenIn(coord'[q]) = Token(q)  BY <1>13, <2>1
    <2>3. /\ \A r \in Procs \ {q} :
                /\ Holds(r) => coord[r].rev < Token(q) /\ coord[r].token < Token(q)
                /\ Stored(r) => coord[r].got < Token(q)
          /\ \A t \in granted : t <= Token(q)
        BY <2>2 DEF LeaseInv, Before
    <2>4. ASSUME NEW r \in Procs \ {q}, HoldsIn(coord'[r])
          PROVE  coord'[r].rev < Token(q) /\ coord'[r].token < Token(q)
        <3>1. \/ Holds(r) /\ coord'[r].rev = coord[r].rev
              \/ Stored(r) /\ coord'[r].rev = coord[r].got
            BY <1>2, <2>4 DEF Ageing, Holds, HoldsIn
        <3>2. Live(r) /\ coord'[r].token = Token(r)  BY <1>13, <2>4 DEF LiveIn, TokenIn
        <3>3. Token(r) < Token(q)
            BY <2>3, <3>2 DEF Live, LiveIn, Token, TokenIn, Holds, HoldsIn, Stored, StoredIn, WonIn, Waiting
        <3> QED  BY <2>3, <3>1, <3>2, <3>3
    <2>5. ASSUME NEW r \in Procs \ {q}, StoredIn(coord'[r])  PROVE coord'[r].got < Token(q)
        BY <1>2, <2>3, <2>5 DEF Ageing, Stored
    <2>6. ASSUME NEW t \in granted'  PROVE t <= Token(q)
        <3>1. CASE t \in granted  BY <2>3, <3>1
        <3>2. CASE Won(p) /\ t = coord[p].got
            <4>1. CASE p = q
                BY <3>2, <4>1, <1>1, <2>1 DEF Token, TokenIn, Won, WonIn, HoldsIn, Coords
            <4>2. CASE p # q
                <5>1. t < Token(q)  BY <2>3, <3>2, <4>2 DEF Won, WonIn, Stored, StoredIn, Waiting
                <5>2. t \in Nat /\ Token(q) \in Nat
                    BY <1>1, <2>1, <3>2 DEF Token, TokenIn, Coords
                <5> QED  BY <5>1, <5>2
            <4> QED  BY <4>1, <4>2
        <3> QED  BY <1>15, <3>1, <3>2
    <2> QED  BY <2>2, <2>4, <2>5, <2>6
<1>17. Distinct'
    <2>1. ASSUME NEW q \in Procs, HoldsIn(coord'[q])  PROVE coord'[q].token > 0
        <3>1. Live(q) /\ coord'[q].token = Token(q)  BY <1>13, <2>1 DEF LiveIn, TokenIn
        <3> QED
            BY <3>1 DEF LeaseInv, Distinct, Live, LiveIn, Token, TokenIn, Holds, HoldsIn, Stored, StoredIn, WonIn, Waiting
    <2>2. ASSUME NEW q \in Procs, StoredIn(coord'[q])  PROVE coord'[q].got > 0
        BY <1>2, <2>2 DEF Ageing, LeaseInv, Distinct, Stored
    <2>3. ASSUME NEW q \in Procs, WonIn(coord'[q])  PROVE coord'[q].got \notin granted'
        <3>1. Won(q) /\ coord'[q].got = coord[q].got
            BY <1>2, <2>3 DEF Continues, Won
        <3>2. coord[q].got \notin granted  BY <3>1 DEF LeaseInv, Distinct
        <3>3. CASE q = p
            <4>1. granted' = granted  BY <1>2, <2>3, <3>3 DEF Continues
            <4> QED  BY <3>1, <3>2, <4>1
        <3>4. CASE q # p
            <4>1. Won(p) => coord[p].got # coord[q].got
                BY <3>1, <3>4 DEF LeaseInv, Distinct, Won, WonIn, Live, LiveIn, Token, TokenIn, HoldsIn
            <4> QED  BY <1>15, <3>1, <3>2, <4>1
        <3> QED  BY <3>3, <3>4
    <2>4. ASSUME NEW q \in Procs, NEW r \in Procs, q # r, LiveIn(coord'[q]), LiveIn(coord'[r])
          PROVE  TokenIn(coord'[q]) # TokenIn(coord'[r])
        BY <1>13, <2>4 DEF LeaseInv, Distinct
    <2> QED  BY <2>1, <2>2, <2>3, <2>4 DEF Distinct, Holds, HoldsIn, Stored, Won, Live, Token
<1> QED  BY <1>7, <1>8, <1>9, <1>10, <1>11, <1>12, <1>14, <1>16, <1>17 DEF LeaseInv

-----------------------------------------------------------------------------
(* The writes in flight.                                                   *)

\* S holds writes that were in flight already, some given up since; ...
Old(S) == S \subseteq Writes /\ \A w \in S : \E v \in net : Same(v, w) /\ (v = w \/ w.late)

\* ... and none that p waits for.
Settled(S, p) == \A w \in S : w.proc = p => w.late

\* The writes under way were sent no later than now.
LEMMA OldNet == ASSUME LeaseInv PROVE Old(net)
<1>1. net \subseteq Writes  BY DEF LeaseInv, TypeOK, Writes
<1> QED  BY <1>1 DEF Old, Same

\* What p stops waiting for is lost or late.
LEMMA AbandonedOld ==
    ASSUME LeaseInv, NEW p \in Procs, NEW S \in Abandoned(p)
    PROVE  Old(S) /\ Settled(S, p)
<1>1. net \subseteq Writes  BY DEF LeaseInv, TypeOK, Writes
<1>2. \A w \in Writes : [w EXCEPT !.late = TRUE] \in Writes /\ Same(w, [w EXCEPT !.late = TRUE])
                        /\ [w EXCEPT !.late = TRUE].late
    BY DEF Writes, Same
<1>3. Kept(p) \subseteq net /\ Settled(Kept(p), p)  BY DEF Kept, Settled
<1>4. S = Kept(p) \/ S = Kept(p) \cup {[w EXCEPT !.late = TRUE] : w \in net \ Kept(p)}
    BY DEF Abandoned
<1>5. \A w \in S : w \in Kept(p) \/ \E v \in net : w = [v EXCEPT !.late = TRUE]
    BY <1>4
<1>6. ASSUME NEW w \in S
      PROVE  /\ w \in Writes
             /\ \E v \in net : Same(v, w) /\ (v = w \/ w.late)
             /\ w.proc = p => w.late
    <2>1. CASE w \in Kept(p)
        <3>1. w \in net /\ Same(w, w)  BY <1>3, <2>1 DEF Same
        <3> QED  BY <1>1, <1>3, <2>1, <3>1 DEF Settled
    <2>2. CASE \E v \in net : w = [v EXCEPT !.late = TRUE]
        BY <1>1, <1>2, <2>2
    <2> QED  BY <1>5, <2>1, <2>2
<1> QED  BY <1>6 DEF Old, Settled

\* A process that waits for no answer has no write it waits for.
LEMMA NoneAwaited ==
    ASSUME LeaseInv, NEW p \in Procs,
           coord[p].pc \notin {"resigning", "closed"},
           coord[p].pc \in Waiting => coord[p].req # "sent"
    PROVE  Settled(net, p)
<1>1. \A w \in net : w.late \in BOOLEAN  BY DEF LeaseInv, TypeOK
<1> QED  BY <1>1 DEF LeaseInv, Awaited, Settled

-----------------------------------------------------------------------------
(* Steps of one process.                                                   *)

\* What the invariant says of one process.
LEMMA CoordOf ==
    ASSUME LeaseInv, NEW p \in Procs
    PROVE  /\ coord[p] \in Coords /\ kv.rev \in 0..MaxRev /\ kv.rev \in Nat
           /\ 0 \in 0..MaxRev /\ 0 \in Ages /\ None \in Values /\ terms \in 0..MaxTerms
           /\ coord[p].rev <= kv.rev /\ coord[p].token <= kv.rev
           /\ coord[p].got <= kv.rev /\ coord[p].seen <= kv.rev
           /\ coord[p].session[1] = p /\ coord[p].session \in Sessions
           /\ coord[p].pc \notin {"idle", "closed"} => coord[p].own # None /\ coord[p].own.session[1] = p
    BY LeaseAssumption DEF LeaseInv, TypeOK, Bounded, Owned, Coords, Ages, Values

\* A step whose writes are S, from before, and at most one of its own.
LEMMA StepKeeps ==
    ASSUME LeaseInv, NEW p \in Procs, NEW c \in Coords, NEW S, NEW fresh \in SUBSET Writes,
           coord' = [coord EXCEPT ![p] = c], UNCHANGED kv, terms' \in 0..MaxTerms,
           net' = S \cup fresh, Old(S),
           \A w \in fresh : w.proc = p /\ w.at <= kv.rev /\ (w.val # None => w.val.session[1] = p),
           c.rev <= kv.rev, c.token <= kv.rev, c.got <= kv.rev, c.seen <= kv.rev,
           c.session[1] = p,
           c.pc \notin {"idle", "closed"} => c.own # None /\ c.own.session[1] = p,
           Awaits(p, c), Ageing(p, c), Continues(p, c, fresh)
    PROVE  LeaseInv'
<1>1. Moves(p, c, fresh)  BY DEF Moves, Old
<1> QED  BY <1>1, LocalStep

\* The write a process now waits for is its only one.
LEMMA AwaitsOne ==
    ASSUME NEW p, NEW c, NEW S, Settled(S, p), NEW w, net' = S \cup {w}, w.val = c.own,
           c.pc \in Waiting, c.req = "sent"
    PROVE  Awaits(p, c)
    BY DEF Awaits, Settled

\* Once every write of p has landed, p awaits none.
LEMMA AwaitsNone ==
    ASSUME NEW p, NEW c, Settled(net', p)
    PROVE  Awaits(p, c)
    BY DEF Awaits, Settled

\* A process past its term awaits no answer.
LEMMA AwaitsEnded ==
    ASSUME NEW p, NEW c, c.pc \in {"resigning", "closed"}
    PROVE  Awaits(p, c)
    BY DEF Awaits

\* What it waited for, it still does.
LEMMA AwaitsStill ==
    ASSUME LeaseInv, NEW p \in Procs, NEW c, net' = net,
           c.pc = coord[p].pc, c.req = coord[p].req, c.own = coord[p].own
    PROVE  Awaits(p, c)
    BY DEF Awaits, LeaseInv, Awaited

\* Nobody can write over the entry of a punctual live term: it is not the
\* writer's own, and has not been watched for the lease duration.
LEMMA NobodyElse ==
    ASSUME LeaseInv, NEW p \in Procs, NEW q \in Punctual \ {p}, Live(q)
    PROVE  /\ kv.val # None /\ kv.val.session[1] = q /\ Token(q) \in Nat
           /\ ~Mine(coord[p]) /\ ~Expired(coord[p])
           /\ coord[p].pc \notin {"idle", "closed"} => kv.val # coord[p].own
<1>1. q \in Procs /\ q # p  BY DEF Punctual
<1>2. kv.val = coord[q].own  BY DEF LeaseInv, Unrivalled
<1>3. coord[q].pc \notin {"idle", "closed"}
    BY DEF Live, LiveIn, HoldsIn, WonIn
<1>4. kv.val # None /\ kv.val.session[1] = q  BY <1>1, <1>2, <1>3, CoordOf
<1>5. ~Mine(coord[p])
    <2>1. coord[p].session[1] = p  BY CoordOf
    <2> QED  BY <1>1, <1>4, <2>1 DEF Mine
<1>6. ~Expired(coord[p])
    <2>1. /\ coord[q].last \in Nat /\ coord[q].sent \in Nat /\ coord[p].since \in Nat
          /\ LeaseDuration \in Nat /\ coord[q].rev \in Nat /\ coord[q].got \in Nat
        BY <1>1, CoordOf, LeaseAssumption DEF Coords, Ages
    <2>2. kv.rev >= coord[q].rev /\ kv.rev >= coord[q].got /\ kv.rev \in Nat
        BY <1>1, <2>1, CoordOf
    <2>3. CASE Holds(q)
        <3>1. coord[q].last < LeaseDuration  BY <2>3 DEF LeaseInv, OnTime
        <3>2. coord[p].seen = kv.rev => coord[p].since <= coord[q].last
            BY <1>1, <2>2, <2>3 DEF LeaseInv, Watched
        <3> QED  BY <2>1, <3>1, <3>2 DEF Expired
    <2>4. CASE Won(q)
        <3>1. coord[q].sent < LeaseDuration /\ Stored(q)
            BY <2>4 DEF LeaseInv, OnTime, Won, WonIn, Stored, StoredIn, Waiting
        <3>2. coord[p].seen = kv.rev => coord[p].since <= coord[q].sent
            BY <1>1, <2>2, <3>1 DEF LeaseInv, Watched
        <3> QED  BY <2>1, <3>1, <3>2 DEF Expired
    <2> QED  BY <2>3, <2>4 DEF Live, LiveIn, Holds, HoldsIn, Won
<1>7. coord[p].pc \notin {"idle", "closed"} => kv.val # coord[p].own
    BY <1>1, <1>4, CoordOf
<1>8. Token(q) \in Nat  BY <1>1, CoordOf DEF Token, TokenIn, Coords
<1> QED  BY <1>4, <1>5, <1>6, <1>7, <1>8

\* A step that changes the coordinator and sends nothing, of a process whose
\* term goes on as it was or is not live after it.
LEMMA SilentKeeps ==
    ASSUME LeaseInv, NEW p \in Procs, NEW c \in Coords,
           coord' = [coord EXCEPT ![p] = c], UNCHANGED <<kv, terms, granted>>, Old(net'),
           c.rev <= kv.rev, c.token <= kv.rev, c.got <= kv.rev, c.seen <= kv.rev,
           c.session[1] = p,
           c.pc \notin {"idle", "closed"} => c.own # None /\ c.own.session[1] = p,
           Awaits(p, c), Ageing(p, c),
           LiveIn(c) => Live(p) /\ TokenIn(c) = Token(p) /\ c.own = coord[p].own,
           WonIn(c) => Won(p) /\ c.got = coord[p].got
    PROVE  LeaseInv'
<1>1. Continues(p, c, {})  BY DEF Continues
<1>2. terms' \in 0..MaxTerms /\ UNCHANGED kv  BY CoordOf
<1> DEFINE fresh == {}
<1>3. fresh \in SUBSET Writes /\ net' = net' \cup fresh /\ Continues(p, c, fresh)
      /\ \A w \in fresh : w.proc = p /\ w.at <= kv.rev /\ (w.val # None => w.val.session[1] = p)
    BY <1>1
<1> HIDE DEF fresh
<1> QED  BY <1>2, <1>3, StepKeeps

\* A coordinator that has no term, and waits for nothing.
AtRest(p, c) ==
    /\ c \in Coords /\ c.pc \in {"idle", "closed"} /\ c.session[1] = p
    /\ c.rev <= kv.rev /\ c.token <= kv.rev /\ c.got <= kv.rev /\ c.seen <= kv.rev
    /\ (c.seen = coord[p].seen /\ c.since = coord[p].since) \/ c.since = 0

\* A process with nothing under way keeps the invariant.
LEMMA RestKeeps ==
    ASSUME LeaseInv, NEW p \in Procs, NEW c, AtRest(p, c),
           coord' = [coord EXCEPT ![p] = c], UNCHANGED <<kv, terms, granted>>,
           Old(net'), Settled(net', p) \/ c.pc = "closed"
    PROVE  LeaseInv'
<1>1. Awaits(p, c)  BY AwaitsNone, AwaitsEnded
<1>2. Ageing(p, c)
    BY DEF AtRest, Ageing, HoldsIn, StoredIn, Waiting
<1>3. ~LiveIn(c) /\ ~WonIn(c)  BY DEF AtRest, LiveIn, HoldsIn, WonIn
<1> QED  BY <1>1, <1>2, <1>3, SilentKeeps DEF AtRest

\* What a process reads of the entry decides no term.
LEMMA SightedKeeps ==
    ASSUME LeaseInv, NEW p \in Procs, coord[p].pc # "closed", ~Holds(p),
           Set(p, Sighted(coord[p])), UNCHANGED <<kv, net, terms, granted>>
    PROVE  LeaseInv'
<1> DEFINE c == Sighted(coord[p])
<1>1. /\ c \in Coords /\ c.pc = coord[p].pc /\ c.own = coord[p].own /\ c.rev = coord[p].rev
      /\ c.token = coord[p].token /\ c.got = coord[p].got /\ c.req = coord[p].req
      /\ c.sent = coord[p].sent /\ c.last = coord[p].last /\ c.session = coord[p].session
      /\ c.seen = kv.rev /\ (c.since = 0 \/ (c.since = coord[p].since /\ c.seen = coord[p].seen))
    <2>1. coord[p] \in Coords /\ kv.rev \in 0..MaxRev /\ 0 \in Ages  BY CoordOf
    <2>2. CASE coord[p].seen = kv.rev  BY <2>1, <2>2 DEF Sighted
    <2>3. CASE coord[p].seen # kv.rev
        <3>1. c = [coord[p] EXCEPT !.seen = kv.rev, !.since = 0]  BY <2>3 DEF Sighted
        <3> HIDE DEF c
        <3> QED  BY <2>1, <3>1 DEF Coords
    <2> QED  BY <2>2, <2>3
<1>2. coord' = [coord EXCEPT ![p] = c]  BY DEF Set
<1> HIDE DEF c
<1>3. Old(net')
    <2>1. net' = net  OBVIOUS
    <2> QED  BY <2>1, OldNet
<1>4. Awaits(p, c)  BY <1>1, AwaitsStill
<1>5. Ageing(p, c)  BY <1>1 DEF Ageing, HoldsIn, Holds, StoredIn, Stored, Waiting
<1>6. /\ LiveIn(c) => Live(p) /\ TokenIn(c) = Token(p)
      /\ WonIn(c) => Won(p)
    BY <1>1 DEF LiveIn, Live, TokenIn, Token, WonIn, Won, HoldsIn
<1>7. /\ c.rev <= kv.rev /\ c.token <= kv.rev /\ c.got <= kv.rev /\ c.seen <= kv.rev
      /\ c.session[1] = p
      /\ c.pc \notin {"idle", "closed"} => c.own # None /\ c.own.session[1] = p
    BY <1>1, CoordOf
<1> QED  BY <1>1, <1>2, <1>3, <1>4, <1>5, <1>6, <1>7, SilentKeeps

\* A process sends its create or takeover.
LEMMA TryAcquireKeeps == ASSUME LeaseInv, NEW p \in Procs, TryAcquire(p) PROVE LeaseInv'
<1> DEFINE own == [term |-> terms + 1, session |-> coord[p].session]
           c == [coord[p] EXCEPT !.pc = "campaign", !.own = own, !.rev = 0, !.sent = 0, !.req = "sent"]
<1>1. ASSUME NEW kind \in {"create", "update"}, kind = "update" => Mine(coord[p]) \/ Expired(coord[p]),
             coord[p].pc = "idle", terms < MaxTerms, terms' = terms + 1,
             net' = net \cup {Write(p, own, kv.rev, kind)}, Set(p, c), UNCHANGED <<kv, granted>>
      PROVE  LeaseInv'
    <2> DEFINE w == Write(p, own, kv.rev, kind)
    <2>1. /\ terms + 1 \in 1..MaxTerms /\ own.term = terms + 1 /\ terms + 1 # 0
          /\ own.session = coord[p].session
        BY <1>1, CoordOf, LeaseAssumption
    <2>2. own \in Values /\ own # None /\ own.session[1] = p
        BY <2>1, CoordOf DEF Values, None
    <2> HIDE DEF own
    <2>3. /\ c \in Coords /\ c.pc = "campaign" /\ c.own = own /\ c.rev = 0 /\ c.sent = 0 /\ c.req = "sent"
          /\ c.token = coord[p].token /\ c.got = coord[p].got /\ c.seen = coord[p].seen
          /\ c.since = coord[p].since /\ c.session = coord[p].session
        <3>1. coord[p] \in Coords /\ 0 \in 0..MaxRev /\ 0 \in Ages  BY CoordOf
        <3>2. "campaign" \in Pcs /\ "sent" \in Answers  BY DEF Pcs, Answers
        <3> QED  BY <2>2, <3>1, <3>2 DEF Coords
    <2>4. coord' = [coord EXCEPT ![p] = c]  BY <1>1 DEF Set
    <2> HIDE DEF c
    <2>5. w \in Writes /\ w.proc = p /\ w.val = own /\ w.at = kv.rev /\ w.kind = kind
        BY <1>1, <2>2, CoordOf DEF Write, Writes, Kinds
    <2>6. net' = net \cup {w}  BY <1>1
    <2> HIDE DEF w
    <2>7. Settled(net, p)  BY <1>1, NoneAwaited DEF Waiting
    <2>8. Awaits(p, c)  BY <2>3, <2>5, <2>6, <2>7, AwaitsOne DEF Waiting
    <2>9. Ageing(p, c)  BY <2>3 DEF Ageing, HoldsIn, StoredIn
    <2>10. Continues(p, c, {w})
        <3>1. ~LiveIn(c) /\ ~WonIn(c)  BY <2>3 DEF LiveIn, HoldsIn, WonIn
        <3>2. \A q \in Punctual \ {p} : Live(q) => w.kind = "create"
            BY <1>1, <2>5, NobodyElse
        <3> QED  BY <1>1, <3>1, <3>2 DEF Continues
    <2>11. \A x \in {w} : x.proc = p /\ x.at <= kv.rev /\ (x.val # None => x.val.session[1] = p)
        BY <2>2, <2>5, CoordOf
    <2>12. /\ c.rev <= kv.rev /\ c.token <= kv.rev /\ c.got <= kv.rev /\ c.seen <= kv.rev
           /\ c.session[1] = p /\ c.own # None /\ c.own.session[1] = p
        BY <2>2, <2>3, CoordOf
    <2>13. terms' \in 0..MaxTerms /\ UNCHANGED kv /\ {w} \in SUBSET Writes
        BY <1>1, <2>1, <2>5, LeaseAssumption
    <2> QED  BY <2>3, <2>4, <2>6, <2>8, <2>9, <2>10, <2>11, <2>12, <2>13, OldNet, StepKeeps
<1>2. CASE Set(p, Sighted(coord[p])) /\ UNCHANGED <<kv, net, terms, granted>>
    BY <1>2, SightedKeeps DEF TryAcquire, Holds
<1> HIDE DEF c
<1>3. \/ Set(p, Sighted(coord[p])) /\ UNCHANGED <<kv, net, terms, granted>>
      \/ \E kind \in {"create", "update"} :
            /\ kind = "update" => Mine(coord[p]) \/ Expired(coord[p])
            /\ coord[p].pc = "idle" /\ terms < MaxTerms /\ terms' = terms + 1
            /\ net' = net \cup {Write(p, own, kv.rev, kind)} /\ Set(p, c) /\ UNCHANGED <<kv, granted>>
    BY DEF TryAcquire, c
<1> QED  BY <1>1, <1>2, <1>3

\* A process looks at the entry.
LEMMA ObserveKeeps == ASSUME LeaseInv, NEW p \in Procs, Observe(p) PROVE LeaseInv'
    BY SightedKeeps DEF Observe

\* A term begins when its own entry was stored and is still in time.
LEMMA CampaignWonKeeps == ASSUME LeaseInv, NEW p \in Procs, CampaignWon(p) PROVE LeaseInv'
<1>1. /\ Won(p) /\ Stored(p) /\ Live(p) /\ ~Holds(p) /\ coord[p].pc = "campaign"
      /\ coord[p].req = "stored" /\ Token(p) = coord[p].got
    BY DEF CampaignWon, Won, WonIn, Stored, StoredIn, Waiting, Live, LiveIn, Holds, HoldsIn, Token, TokenIn
<1>2. Settled(net, p)  BY <1>1, NoneAwaited
<1>3. CASE coord[p].closing
    <2> DEFINE c == [coord[p] EXCEPT !.pc = "closed", !.own = None, !.sent = 0, !.req = "none", !.got = 0]
               w == Write(p, None, coord[p].got, "delete")
    <2>1. /\ c \in Coords /\ c.pc = "closed" /\ c.rev = coord[p].rev /\ c.token = coord[p].token
          /\ c.got = 0 /\ c.seen = coord[p].seen /\ c.since = coord[p].since
          /\ c.session = coord[p].session
        <3>1. coord[p] \in Coords /\ 0 \in 0..MaxRev /\ 0 \in Ages /\ None \in Values  BY CoordOf
        <3>2. "closed" \in Pcs /\ "none" \in Answers  BY DEF Pcs, Answers
        <3> QED  BY <3>1, <3>2 DEF Coords
    <2>2. coord' = [coord EXCEPT ![p] = c] /\ net' = net \cup {w} /\ UNCHANGED <<kv, terms, granted>>
        BY <1>3 DEF CampaignWon, Set
    <2> HIDE DEF c
    <2>3. w \in Writes /\ w.proc = p /\ w.val = None /\ w.at = coord[p].got
        BY CoordOf DEF Write, Writes, Kinds, Coords
    <2> HIDE DEF w
    <2>4. Awaits(p, c)  BY <2>1, AwaitsEnded
    <2>5. Ageing(p, c)  BY <2>1 DEF Ageing, HoldsIn, StoredIn, Waiting
    <2>6. Continues(p, c, {w})
        <3>1. ~LiveIn(c) /\ ~WonIn(c)  BY <2>1 DEF LiveIn, HoldsIn, WonIn
        <3>2. \A q \in Punctual \ {p} : Live(q) => coord[p].got < Token(q)
            BY <1>1 DEF LeaseInv, Before
        <3> QED  BY <2>2, <2>3, <3>1, <3>2 DEF Continues
    <2>7. /\ c.rev <= kv.rev /\ c.token <= kv.rev /\ c.got <= kv.rev /\ c.seen <= kv.rev
          /\ c.session[1] = p /\ terms' \in 0..MaxTerms /\ {w} \in SUBSET Writes
        BY <2>1, <2>2, <2>3, CoordOf
    <2>8. \A x \in {w} : x.proc = p /\ x.at <= kv.rev /\ (x.val # None => x.val.session[1] = p)
        BY <2>3, CoordOf
    <2> QED  BY <2>1, <2>2, <2>4, <2>5, <2>6, <2>7, <2>8, OldNet, StepKeeps
<1>4. CASE ~coord[p].closing
    <2> DEFINE c == Acquired(p)
    <2>1. /\ c \in Coords /\ c.pc = "held" /\ c.own = coord[p].own /\ c.rev = coord[p].got
          /\ c.token = coord[p].got /\ c.last = coord[p].sent /\ c.req = "none" /\ c.got = 0
          /\ c.seen = 0 /\ c.since = 0 /\ c.session = coord[p].session
        <3>1. coord[p] \in Coords /\ 0 \in 0..MaxRev /\ 0 \in Ages  BY CoordOf
        <3>2. "held" \in Pcs /\ "none" \in Answers  BY DEF Pcs, Answers
        <3>3. /\ coord[p].got \in 0..MaxRev /\ coord[p].sent \in Ages  BY <3>1 DEF Coords
        <3> QED  BY <3>1, <3>2, <3>3 DEF Coords, Acquired
    <2>2. /\ coord' = [coord EXCEPT ![p] = c] /\ net' = net /\ UNCHANGED <<kv, terms>>
          /\ granted' = granted \cup {coord[p].got}
        BY <1>4 DEF CampaignWon, Set
    <2> HIDE DEF c
    <2>3. Awaits(p, c)  BY <1>2, <2>2, AwaitsNone
    <2>4. Ageing(p, c)  BY <1>1, <2>1 DEF Ageing, HoldsIn, StoredIn, Waiting
    <2>5. Continues(p, c, {})
        <3>1. LiveIn(c) /\ ~WonIn(c) /\ TokenIn(c) = Token(p)
            BY <1>1, <2>1 DEF LiveIn, HoldsIn, WonIn, TokenIn
        <3> QED  BY <1>1, <2>1, <2>2, <3>1 DEF Continues
    <2>6. /\ c.rev <= kv.rev /\ c.token <= kv.rev /\ c.got <= kv.rev /\ c.seen <= kv.rev
          /\ c.session[1] = p /\ c.own # None /\ c.own.session[1] = p
          /\ terms' \in 0..MaxTerms
        BY <1>1, <2>1, <2>2, CoordOf
    <2> DEFINE fresh == {}
    <2>7. fresh \in SUBSET Writes /\ net' = net \cup fresh /\ Continues(p, c, fresh)
          /\ \A w \in fresh : w.proc = p /\ w.at <= kv.rev /\ (w.val # None => w.val.session[1] = p)
        BY <2>2, <2>5
    <2> HIDE DEF fresh
    <2> QED  BY <2>1, <2>2, <2>3, <2>4, <2>6, <2>7, OldNet, StepKeeps
<1> QED  BY <1>3, <1>4

\* A campaign is refused, or its answer comes too late.
LEMMA CampaignLostKeeps == ASSUME LeaseInv, NEW p \in Procs, CampaignLost(p) PROVE LeaseInv'
<1> DEFINE c == [coord[p] EXCEPT !.pc = IF coord[p].closing THEN "closed" ELSE "idle", !.own = None,
                                 !.sent = 0, !.req = "none", !.got = 0]
<1>1. AtRest(p, c)
    <2>1. coord[p] \in Coords /\ 0 \in 0..MaxRev /\ 0 \in Ages /\ None \in Values  BY CoordOf
    <2>2. "none" \in Answers /\ (IF coord[p].closing THEN "closed" ELSE "idle") \in Pcs
        BY DEF Pcs, Answers
    <2>3. /\ c \in Coords /\ c.pc \in {"idle", "closed"} /\ c.session = coord[p].session
          /\ c.rev = coord[p].rev /\ c.token = coord[p].token /\ c.got = 0
          /\ c.seen = coord[p].seen /\ c.since = coord[p].since
        BY <2>1, <2>2 DEF Coords
    <2> HIDE DEF c
    <2> QED  BY <2>3, CoordOf DEF AtRest
<1>2. coord' = [coord EXCEPT ![p] = c]  BY DEF CampaignLost, Set
<1> HIDE DEF c
<1> QED  BY <1>1, <1>2, AbandonedOld, RestKeeps DEF CampaignLost

\* A write of p's own value or a delete, at a revision that is not a
\* punctual live term's.
OwnWrite(p, c, w) ==
    /\ w \in Writes /\ w.proc = p /\ w.at <= kv.rev
    /\ w.val \in {None, coord[p].own}
    /\ LiveIn(c) => w.val = c.own
    /\ \A q \in Punctual \ {p} : Live(q) => w.at < Token(q)

\* A step of a process with a term, which it goes on with or resigns, that
\* sends a write.
LEMMA SendKeeps ==
    ASSUME LeaseInv, NEW p \in Procs, coord[p].pc \notin {"idle", "closed"},
           NEW c \in Coords, NEW S, Old(S), NEW w, OwnWrite(p, c, w),
           coord' = [coord EXCEPT ![p] = c], UNCHANGED <<kv, terms, granted>>,
           net' = S \cup {w},
           c.rev <= kv.rev, c.token <= kv.rev, c.got <= kv.rev, c.seen <= kv.rev,
           c.session[1] = p, c.own = coord[p].own,
           Awaits(p, c), Ageing(p, c), ~WonIn(c),
           LiveIn(c) => Live(p) /\ TokenIn(c) = Token(p)
    PROVE  LeaseInv'
<1>1. c.own # None /\ c.own.session[1] = p /\ UNCHANGED kv  BY CoordOf
<1>2. Continues(p, c, {w})  BY DEF Continues, OwnWrite
<1>3. terms' \in 0..MaxTerms /\ {w} \in SUBSET Writes  BY CoordOf DEF OwnWrite
<1>4. \A x \in {w} : x.proc = p /\ x.at <= kv.rev /\ (x.val # None => x.val.session[1] = p)
    BY <1>1 DEF OwnWrite
<1> QED  BY <1>1, <1>2, <1>3, <1>4, StepKeeps

\* A term that is held, by what is known of a punctual one.
LEMMA HeldBefore ==
    ASSUME LeaseInv, NEW p \in Procs, Holds(p), NEW q \in Punctual \ {p}, Live(q)
    PROVE  coord[p].rev < Token(q)
    BY DEF LeaseInv, Before

\* A holder sends its renewal over the revision it knows.
LEMMA RenewKeeps == ASSUME LeaseInv, NEW p \in Procs, Renew(p) PROVE LeaseInv'
<1> DEFINE c == [coord[p] EXCEPT !.pc = "renewing", !.sent = 0, !.req = "sent"]
           w == Write(p, coord[p].own, coord[p].rev, "update")
<1>1. /\ c \in Coords /\ c.pc = "renewing" /\ c.req = "sent" /\ c.sent = 0
      /\ c.own = coord[p].own /\ c.rev = coord[p].rev /\ c.token = coord[p].token
      /\ c.last = coord[p].last /\ c.got = coord[p].got /\ c.seen = coord[p].seen
      /\ c.since = coord[p].since /\ c.session = coord[p].session
    <2>1. coord[p] \in Coords /\ 0 \in Ages  BY CoordOf
    <2>2. "renewing" \in Pcs /\ "sent" \in Answers  BY DEF Pcs, Answers
    <2> QED  BY <2>1, <2>2 DEF Coords
<1>2. /\ coord' = [coord EXCEPT ![p] = c] /\ net' = net \cup {w} /\ UNCHANGED <<kv, terms, granted>>
      /\ coord[p].pc = "held"
    BY DEF Renew, Set
<1> HIDE DEF c
<1>3. Holds(p) /\ Live(p) /\ Token(p) = coord[p].token
    BY <1>2 DEF Holds, Live, LiveIn, HoldsIn, Token, TokenIn
<1>4. LiveIn(c) /\ TokenIn(c) = Token(p) /\ ~WonIn(c)
    BY <1>1, <1>3 DEF LiveIn, HoldsIn, TokenIn, WonIn
<1>5. w \in Writes /\ w.proc = p /\ w.val = coord[p].own /\ w.at = coord[p].rev
    BY CoordOf DEF Write, Writes, Kinds, Coords
<1> HIDE DEF w
<1>6. OwnWrite(p, c, w)  BY <1>1, <1>3, <1>5, HeldBefore, CoordOf DEF OwnWrite
<1>7. Settled(net, p)  BY <1>2, NoneAwaited DEF Waiting
<1>8. Awaits(p, c)  BY <1>1, <1>2, <1>5, <1>7, AwaitsOne DEF Waiting
<1>9. Ageing(p, c)  BY <1>1, <1>3 DEF Ageing, HoldsIn, StoredIn
<1>10. /\ c.rev <= kv.rev /\ c.token <= kv.rev /\ c.got <= kv.rev /\ c.seen <= kv.rev
       /\ c.session[1] = p
    BY <1>1, CoordOf
<1>11. coord[p].pc \notin {"idle", "closed"}  BY <1>2
<1> QED  BY <1>1, <1>2, <1>3, <1>4, <1>6, <1>8, <1>9, <1>10, <1>11, OldNet, SendKeeps

\* A renewal that was stored extends the term from when it was sent.
LEMMA RenewedKeeps == ASSUME LeaseInv, NEW p \in Procs, Renewed(p) PROVE LeaseInv'
<1> DEFINE c == [coord[p] EXCEPT !.pc = "held", !.rev = coord[p].got, !.last = coord[p].sent,
                                 !.sent = 0, !.req = "none", !.got = 0]
<1>1. /\ c \in Coords /\ c.pc = "held" /\ c.rev = coord[p].got /\ c.last = coord[p].sent
      /\ c.own = coord[p].own /\ c.token = coord[p].token /\ c.got = 0
      /\ c.seen = coord[p].seen /\ c.since = coord[p].since /\ c.session = coord[p].session
    <2>1. coord[p] \in Coords /\ 0 \in Ages /\ 0 \in 0..MaxRev  BY CoordOf
    <2>2. "held" \in Pcs /\ "none" \in Answers  BY DEF Pcs, Answers
    <2>3. coord[p].got \in 0..MaxRev /\ coord[p].sent \in Ages  BY <2>1 DEF Coords
    <2> QED  BY <2>1, <2>2, <2>3 DEF Coords
<1>2. /\ coord' = [coord EXCEPT ![p] = c] /\ net' = net /\ UNCHANGED <<kv, terms, granted>>
      /\ coord[p].pc \in {"renewing", "adopting"} /\ coord[p].req = "stored"
    BY DEF Renewed, Set
<1> HIDE DEF c
<1>3. Holds(p) /\ Stored(p) /\ Live(p) /\ Token(p) = coord[p].token
    BY <1>2 DEF Holds, Stored, StoredIn, Waiting, Live, LiveIn, HoldsIn, Token, TokenIn
<1>4. LiveIn(c) /\ TokenIn(c) = Token(p) /\ ~WonIn(c)
    BY <1>1, <1>3 DEF LiveIn, HoldsIn, TokenIn, WonIn
<1>5. Awaits(p, c)  BY <1>2, NoneAwaited, AwaitsNone
<1>6. Ageing(p, c)  BY <1>1, <1>3 DEF Ageing, HoldsIn, StoredIn, Waiting
<1>7. /\ c.rev <= kv.rev /\ c.token <= kv.rev /\ c.got <= kv.rev /\ c.seen <= kv.rev
      /\ c.session[1] = p /\ c.own # None /\ c.own.session[1] = p
    BY <1>1, <1>2, CoordOf
<1>8. Old(net')  BY <1>2, OldNet
<1> QED  BY <1>1, <1>2, <1>3, <1>4, <1>5, <1>6, <1>7, <1>8, SilentKeeps

\* A term that ends leaves its coordinator at rest.
LEMMA EndedRests ==
    ASSUME LeaseInv, NEW p \in Procs
    PROVE  AtRest(p, Ended(coord[p]))
<1> DEFINE c == Ended(coord[p])
<1>1. coord[p] \in Coords /\ 0 \in Ages /\ 0 \in 0..MaxRev /\ None \in Values  BY CoordOf
<1>2. "idle" \in Pcs /\ "none" \in Answers  BY DEF Pcs, Answers
<1>3. /\ c \in Coords /\ c.pc = "idle" /\ c.rev = 0 /\ c.token = 0 /\ c.got = 0
      /\ c.seen = coord[p].seen /\ c.since = coord[p].since /\ c.session = coord[p].session
    BY <1>1, <1>2 DEF Coords, Ended
<1> HIDE DEF c
<1>4. /\ c.rev <= kv.rev /\ c.token <= kv.rev /\ c.got <= kv.rev /\ c.seen <= kv.rev
      /\ c.session[1] = p
    BY <1>3, CoordOf
<1>5. AtRest(p, c)  BY <1>3, <1>4 DEF AtRest
<1> QED  BY <1>5 DEF c

\* A refused renewal adopts the entry only if it is the term's own.
LEMMA RenewRefusedKeeps == ASSUME LeaseInv, NEW p \in Procs, RenewRefused(p) PROVE LeaseInv'
<1>1. coord[p].pc = "renewing" /\ coord[p].req = "refused" /\ UNCHANGED <<kv, terms, granted>>
    BY DEF RenewRefused
<1>2. Settled(net, p)  BY <1>1, NoneAwaited
<1>3. CASE Adoptable(coord[p])
    <2> DEFINE c == [coord[p] EXCEPT !.pc = "adopting", !.req = "sent"]
               w == Write(p, coord[p].own, kv.rev, "update")
    <2>1. /\ c \in Coords /\ c.pc = "adopting" /\ c.req = "sent" /\ c.sent = coord[p].sent
          /\ c.own = coord[p].own /\ c.rev = coord[p].rev /\ c.token = coord[p].token
          /\ c.last = coord[p].last /\ c.got = coord[p].got /\ c.seen = coord[p].seen
          /\ c.since = coord[p].since /\ c.session = coord[p].session
        <3>1. coord[p] \in Coords  BY CoordOf
        <3>2. "adopting" \in Pcs /\ "sent" \in Answers  BY DEF Pcs, Answers
        <3> QED  BY <3>1, <3>2 DEF Coords
    <2>2. coord' = [coord EXCEPT ![p] = c] /\ net' = net \cup {w}
        BY <1>3 DEF RenewRefused, Set
    <2> HIDE DEF c
    <2>3. Holds(p) /\ Live(p) /\ Token(p) = coord[p].token
        BY <1>1 DEF Holds, Live, LiveIn, HoldsIn, Token, TokenIn
    <2>4. LiveIn(c) /\ TokenIn(c) = Token(p) /\ ~WonIn(c)
        BY <2>1, <2>3 DEF LiveIn, HoldsIn, TokenIn, WonIn
    <2>5. w \in Writes /\ w.proc = p /\ w.val = coord[p].own /\ w.at = kv.rev
        BY CoordOf DEF Write, Writes, Kinds, Coords
    <2> HIDE DEF w
    <2>6. \A q \in Punctual \ {p} : ~Live(q)  BY <1>1, <1>3, NobodyElse DEF Adoptable
    <2>7. OwnWrite(p, c, w)  BY <2>1, <2>5, <2>6, CoordOf DEF OwnWrite
    <2>8. Awaits(p, c)  BY <1>2, <2>1, <2>2, <2>5, AwaitsOne DEF Waiting
    <2>9. Ageing(p, c)  BY <1>1, <2>1, <2>3 DEF Ageing, HoldsIn, StoredIn
    <2>10. /\ c.rev <= kv.rev /\ c.token <= kv.rev /\ c.got <= kv.rev /\ c.seen <= kv.rev
           /\ c.session[1] = p
        BY <2>1, CoordOf
    <2>11. coord[p].pc \notin {"idle", "closed"}  BY <1>1
    <2> QED  BY <1>1, <2>1, <2>2, <2>3, <2>4, <2>7, <2>8, <2>9, <2>10, <2>11, OldNet, SendKeeps
<1>4. CASE ~Adoptable(coord[p])
    <2>1. coord' = [coord EXCEPT ![p] = Ended(coord[p])] /\ net' = net
        BY <1>4 DEF RenewRefused, Set
    <2>2. Old(net') /\ Settled(net', p)  BY <1>2, <2>1, OldNet
    <2> QED  BY <1>1, <2>1, <2>2, EndedRests, RestKeeps
<1> QED  BY <1>3, <1>4

\* A renewal that was not answered leaves the term to its deadline.
LEMMA RenewFailedKeeps == ASSUME LeaseInv, NEW p \in Procs, RenewFailed(p) PROVE LeaseInv'
<1> DEFINE c == [coord[p] EXCEPT !.pc = "held", !.sent = 0, !.req = "none", !.got = 0]
<1>1. /\ c \in Coords /\ c.pc = "held" /\ c.rev = coord[p].rev /\ c.last = coord[p].last
      /\ c.own = coord[p].own /\ c.token = coord[p].token /\ c.got = 0
      /\ c.seen = coord[p].seen /\ c.since = coord[p].since /\ c.session = coord[p].session
    <2>1. coord[p] \in Coords /\ 0 \in Ages /\ 0 \in 0..MaxRev  BY CoordOf
    <2>2. "held" \in Pcs /\ "none" \in Answers  BY DEF Pcs, Answers
    <2> QED  BY <2>1, <2>2 DEF Coords
<1>2. /\ coord' = [coord EXCEPT ![p] = c] /\ net' \in Abandoned(p) /\ UNCHANGED <<kv, terms, granted>>
      /\ coord[p].pc \in {"renewing", "adopting"}
    BY DEF RenewFailed, Set
<1> HIDE DEF c
<1>3. Holds(p) /\ Live(p) /\ Token(p) = coord[p].token
    BY <1>2 DEF Holds, Live, LiveIn, HoldsIn, Token, TokenIn
<1>4. LiveIn(c) /\ TokenIn(c) = Token(p) /\ ~WonIn(c)
    BY <1>1, <1>3 DEF LiveIn, HoldsIn, TokenIn, WonIn
<1>5. Old(net') /\ Awaits(p, c)  BY <1>2, AbandonedOld, AwaitsNone
<1>6. Ageing(p, c)  BY <1>1, <1>3 DEF Ageing, HoldsIn, StoredIn, Waiting
<1>7. /\ c.rev <= kv.rev /\ c.token <= kv.rev /\ c.got <= kv.rev /\ c.seen <= kv.rev
      /\ c.session[1] = p /\ c.own # None /\ c.own.session[1] = p
    BY <1>1, <1>2, CoordOf
<1> QED  BY <1>1, <1>2, <1>3, <1>4, <1>5, <1>6, <1>7, SilentKeeps

\* A term ends at its deadline, whatever is under way.
LEMMA DeadlinePassedKeeps == ASSUME LeaseInv, NEW p \in Procs, DeadlinePassed(p) PROVE LeaseInv'
<1>1. coord' = [coord EXCEPT ![p] = Ended(coord[p])]  BY DEF DeadlinePassed, Set
<1> QED  BY <1>1, AbandonedOld, EndedRests, RestKeeps DEF DeadlinePassed

\* Resign, and Close of a term that is held: closing says which.
LEMMA ResignKeeps ==
    ASSUME LeaseInv, NEW p \in Procs, Holds(p), NEW S \in Abandoned(p), NEW closing \in BOOLEAN,
           net' = S \cup {Write(p, None, coord[p].rev, "delete")}, UNCHANGED <<kv, terms, granted>>,
           Set(p, [coord[p] EXCEPT !.pc = "resigning", !.sent = 0, !.req = "sent", !.closing = closing])
    PROVE  LeaseInv'
<1> DEFINE c == [coord[p] EXCEPT !.pc = "resigning", !.sent = 0, !.req = "sent", !.closing = closing]
           w == Write(p, None, coord[p].rev, "delete")
<1>1. /\ c \in Coords /\ c.pc = "resigning"
      /\ c.own = coord[p].own /\ c.rev = coord[p].rev /\ c.token = coord[p].token
      /\ c.got = coord[p].got /\ c.seen = coord[p].seen
      /\ c.since = coord[p].since /\ c.session = coord[p].session
    <2>1. coord[p] \in Coords /\ 0 \in Ages  BY CoordOf
    <2>2. "resigning" \in Pcs /\ "sent" \in Answers  BY DEF Pcs, Answers
    <2> QED  BY <2>1, <2>2 DEF Coords
<1>2. coord' = [coord EXCEPT ![p] = c] /\ net' = S \cup {w}  BY DEF Set
<1> HIDE DEF c
<1>3. ~LiveIn(c) /\ ~WonIn(c)  BY <1>1 DEF LiveIn, HoldsIn, WonIn
<1>4. w \in Writes /\ w.proc = p /\ w.val = None /\ w.at = coord[p].rev
    BY CoordOf DEF Write, Writes, Kinds, Coords
<1> HIDE DEF w
<1>5. OwnWrite(p, c, w)  BY <1>3, <1>4, HeldBefore, CoordOf DEF OwnWrite
<1>6. Awaits(p, c)  BY <1>1, AwaitsEnded
<1>7. Ageing(p, c)  BY <1>1 DEF Ageing, HoldsIn, StoredIn, Waiting
<1>8. /\ c.rev <= kv.rev /\ c.token <= kv.rev /\ c.got <= kv.rev /\ c.seen <= kv.rev
      /\ c.session[1] = p /\ coord[p].pc \notin {"idle", "closed"}
    BY <1>1, CoordOf DEF Holds
<1> QED  BY <1>1, <1>2, <1>3, <1>5, <1>6, <1>7, <1>8, AbandonedOld, SendKeeps

\* A resignation is over.
LEMMA ResignedKeeps == ASSUME LeaseInv, NEW p \in Procs, Resigned(p) PROVE LeaseInv'
<1>1. coord[p].pc = "resigning" /\ UNCHANGED <<kv, terms, granted>>  BY DEF Resigned
<1> DEFINE after == [Ended(coord[p]) EXCEPT !.pc = IF coord[p].closing THEN "closed" ELSE "idle"]
<1>2. CASE Set(p, after) /\ net' \in Abandoned(p)
    <2>1. AtRest(p, Ended(coord[p]))  BY EndedRests
    <2>2. (IF coord[p].closing THEN "closed" ELSE "idle") \in Pcs \cap {"idle", "closed"}  BY DEF Pcs
    <2>3. AtRest(p, after)  BY <2>1, <2>2 DEF AtRest, Coords
    <2>4. coord' = [coord EXCEPT ![p] = after]  BY <1>2 DEF Set
    <2> HIDE DEF after
    <2> QED  BY <1>1, <1>2, <2>3, <2>4, AbandonedOld, RestKeeps
<1>3. CASE /\ Adoptable(coord[p])
           /\ net' = net \cup {Write(p, None, kv.rev, "delete")}
           /\ Set(p, [coord[p] EXCEPT !.rev = kv.rev, !.req = "sent"])
    <2> DEFINE c == [coord[p] EXCEPT !.rev = kv.rev, !.req = "sent"]
               w == Write(p, None, kv.rev, "delete")
    <2>1. /\ c \in Coords /\ c.pc = "resigning" /\ c.own = coord[p].own /\ c.rev = kv.rev
          /\ c.token = coord[p].token /\ c.got = coord[p].got /\ c.seen = coord[p].seen
          /\ c.since = coord[p].since /\ c.session = coord[p].session
        <3>1. coord[p] \in Coords /\ kv.rev \in 0..MaxRev  BY CoordOf
        <3>2. "sent" \in Answers  BY DEF Answers
        <3> QED  BY <1>1, <3>1, <3>2 DEF Coords
    <2>2. coord' = [coord EXCEPT ![p] = c] /\ net' = net \cup {w}  BY <1>3 DEF Set
    <2> HIDE DEF c
    <2>3. ~LiveIn(c) /\ ~WonIn(c)  BY <2>1 DEF LiveIn, HoldsIn, WonIn
    <2>4. w \in Writes /\ w.proc = p /\ w.val = None /\ w.at = kv.rev
        BY CoordOf DEF Write, Writes, Kinds, Coords
    <2> HIDE DEF w
    <2>5. \A q \in Punctual \ {p} : ~Live(q)  BY <1>1, <1>3, NobodyElse DEF Adoptable
    <2>6. OwnWrite(p, c, w)  BY <2>3, <2>4, <2>5, CoordOf DEF OwnWrite
    <2>7. Awaits(p, c)  BY <2>1, AwaitsEnded
    <2>8. Ageing(p, c)  BY <2>1 DEF Ageing, HoldsIn, StoredIn, Waiting
    <2>9. /\ c.rev <= kv.rev /\ c.token <= kv.rev /\ c.got <= kv.rev /\ c.seen <= kv.rev
          /\ c.session[1] = p /\ coord[p].pc \notin {"idle", "closed"}
        BY <1>1, <2>1, CoordOf
    <2> QED  BY <1>1, <2>1, <2>2, <2>3, <2>6, <2>7, <2>8, <2>9, OldNet, SendKeeps
<1> QED  BY <1>2, <1>3 DEF Resigned

\* A process that closes resigns what it holds.
LEMMA CloseKeeps == ASSUME LeaseInv, NEW p \in Procs, Close(p) PROVE LeaseInv'
<1>1. CASE Holds(p)
    <2>1. PICK S \in Abandoned(p) : net' = S \cup {Write(p, None, coord[p].rev, "delete")}
        BY <1>1 DEF Close
    <2> QED  BY <1>1, <2>1, ResignKeeps DEF Close
<1>2. CASE ~Holds(p)
    <2> DEFINE pc == IF coord[p].pc = "idle" THEN "closed" ELSE coord[p].pc
               c == [coord[p] EXCEPT !.closing = TRUE, !.pc = pc]
    <2>1. /\ coord' = [coord EXCEPT ![p] = c] /\ net' = net /\ UNCHANGED <<kv, terms, granted>>
        BY <1>2, CoordOf DEF Close, Set, Coords
    <2>2. pc \in Pcs
        BY CoordOf DEF Pcs, Coords
    <2> HIDE DEF pc
    <2>3. /\ c \in Coords /\ c.pc = pc /\ c.req = coord[p].req /\ c.sent = coord[p].sent
          /\ c.own = coord[p].own /\ c.rev = coord[p].rev /\ c.token = coord[p].token
          /\ c.last = coord[p].last /\ c.got = coord[p].got /\ c.seen = coord[p].seen
          /\ c.since = coord[p].since /\ c.session = coord[p].session
        <3>1. coord[p] \in Coords /\ TRUE \in BOOLEAN  BY CoordOf
        <3> QED  BY <2>2, <3>1 DEF Coords
    <2> HIDE DEF c
    <2>4. /\ c.rev <= kv.rev /\ c.token <= kv.rev /\ c.got <= kv.rev /\ c.seen <= kv.rev
          /\ c.session[1] = p
        BY <2>3, CoordOf
    <2>5. CASE coord[p].pc = "idle"
        <3>1. AtRest(p, c)  BY <2>3, <2>4, <2>5 DEF AtRest, pc
        <3>2. c.pc = "closed" /\ Old(net')  BY <2>1, <2>3, <2>5, OldNet DEF pc
        <3> QED  BY <2>1, <3>1, <3>2, RestKeeps
    <2>6. CASE coord[p].pc # "idle"
        <3>1. c.pc = coord[p].pc  BY <2>3, <2>6 DEF pc
        <3>2. Awaits(p, c)  BY <2>1, <2>3, <3>1, AwaitsStill
        <3>3. Ageing(p, c)  BY <2>3, <3>1 DEF Ageing, HoldsIn, Holds, StoredIn, Stored
        <3>4. /\ LiveIn(c) => Live(p) /\ TokenIn(c) = Token(p)
              /\ WonIn(c) => Won(p)
            BY <2>3, <3>1 DEF LiveIn, Live, TokenIn, Token, WonIn, Won, HoldsIn
        <3>5. c.pc \notin {"idle", "closed"} => c.own # None /\ c.own.session[1] = p
            BY <2>3, <3>1, CoordOf
        <3>6. Old(net')  BY <2>1, OldNet
        <3> QED  BY <2>1, <2>3, <2>4, <3>2, <3>3, <3>4, <3>5, <3>6, SilentKeeps
    <2> QED  BY <2>5, <2>6
<1> QED  BY <1>1, <1>2

\* A process that restarts is another session.
LEMMA RestartKeeps == ASSUME LeaseInv, NEW p \in Procs, Restart(p) PROVE LeaseInv'
<1> DEFINE session == <<p, coord[p].session[2] + 1>>
           c == Fresh(session)
<1>1. session \in Sessions /\ session[1] = p
    <2>1. coord[p].session \in Procs \X Nat  BY CoordOf DEF Sessions
    <2>2. coord[p].session[2] + 1 \in Nat  BY <2>1
    <2> QED  BY <2>2 DEF Sessions
<1> HIDE DEF session
<1>2. /\ c \in Coords /\ c.pc = "idle" /\ c.rev = 0 /\ c.token = 0 /\ c.got = 0 /\ c.seen = 0
      /\ c.since = 0 /\ c.session = session
    <2>1. 0 \in Ages /\ 0 \in 0..MaxRev /\ None \in Values  BY CoordOf
    <2>2. "idle" \in Pcs /\ "none" \in Answers  BY DEF Pcs, Answers
    <2> QED  BY <1>1, <2>1, <2>2 DEF Coords, Fresh
<1>3. coord' = [coord EXCEPT ![p] = c]  BY DEF Restart, Set, session
<1> HIDE DEF c
<1>4. AtRest(p, c)  BY <1>1, <1>2, CoordOf DEF AtRest
<1> QED  BY <1>3, <1>4, AbandonedOld, RestKeeps DEF Restart

-----------------------------------------------------------------------------
(* The server takes up a write.                                            *)

\* A write is stored over the entry of a punctual live term only if it is
\* that term's own.
LEMMA OnlyOwnAccepted ==
    ASSUME LeaseInv, NEW w \in net, Accepted(w), NEW q \in Punctual, Live(q)
    PROVE  w.proc = q /\ w.val = coord[q].own
<1>1. q \in Procs  BY DEF Punctual
<1>2. coord[q].pc \notin {"idle", "closed"}  BY DEF Live, LiveIn, HoldsIn, WonIn
<1>3. coord[q].own # None /\ coord[q].own.session[1] = q  BY <1>1, <1>2, CoordOf
<1>4. kv.val = coord[q].own  BY DEF LeaseInv, Unrivalled
<1>5. w.kind # "create" /\ kv.rev = w.at  BY <1>3, <1>4 DEF Accepted, Present
<1>6. Token(q) <= kv.rev  BY <1>1, CoordOf DEF Token, TokenIn
<1>7. kv.rev \in Nat /\ Token(q) \in Nat  BY <1>1, CoordOf DEF Token, TokenIn, Coords
<1>8. w.val = coord[q].own  BY <1>5, <1>6, <1>7 DEF LeaseInv, Unrivalled
<1> QED  BY <1>3, <1>8 DEF LeaseInv, Owned

\* A write over a revision that is gone changes nothing.
LEMMA ArriveRefusedKeeps ==
    ASSUME LeaseInv, NEW w \in net, Arrive(w), ~Accepted(w)
    PROVE  LeaseInv'
<1> DEFINE p == w.proc
           c == IF w.late THEN coord[p] ELSE [coord[p] EXCEPT !.req = "refused", !.got = 0]
<1>1. p \in Procs /\ w.late \in BOOLEAN  BY DEF LeaseInv, TypeOK
<1>2. /\ c \in Coords /\ c.pc = coord[p].pc /\ c.own = coord[p].own /\ c.rev = coord[p].rev
      /\ c.token = coord[p].token /\ c.last = coord[p].last /\ c.sent = coord[p].sent
      /\ c.seen = coord[p].seen /\ c.since = coord[p].since /\ c.session = coord[p].session
      /\ \/ c.req = coord[p].req /\ c.got = coord[p].got
         \/ c.req = "refused" /\ c.got = 0 /\ ~w.late
      /\ w.late => c = coord[p]
    <2>1. coord[p] \in Coords /\ 0 \in 0..MaxRev /\ "refused" \in Answers
        BY <1>1, CoordOf DEF Answers
    <2>2. CASE w.late  BY <2>1, <2>2
    <2>3. CASE ~w.late  BY <2>1, <2>3 DEF Coords
    <2> QED  BY <2>2, <2>3
<1>3. /\ coord' = [coord EXCEPT ![p] = c] /\ net' = net \ {w} /\ UNCHANGED <<kv, terms, granted>>
    <2>1. coord \in [Procs -> Coords]  BY DEF LeaseInv, TypeOK, Coords
    <2>2. CASE w.late  BY <1>1, <2>1, <2>2 DEF Arrive
    <2>3. CASE ~w.late  BY <2>3 DEF Arrive, Set
    <2> QED  BY <2>2, <2>3
<1> HIDE DEF c, p
<1>4. Old(net')  BY <1>3, OldNet DEF Old
<1>5. Awaits(p, c)
    <2>1. CASE w.late
        BY <1>2, <1>3, <2>1 DEF Awaits, LeaseInv, Awaited
    <2>2. CASE ~w.late /\ coord[p].pc \in {"resigning", "closed"}  BY <1>2, <2>2, AwaitsEnded
    <2>3. CASE ~w.late /\ coord[p].pc \notin {"resigning", "closed"}
        <3>1. \A v \in net : ~v.late /\ v.proc = p => v = w
            BY <2>3 DEF LeaseInv, Awaited, p
        <3>2. \A v \in net : v.late \in BOOLEAN  BY DEF LeaseInv, TypeOK
        <3>3. Settled(net', p)  BY <1>3, <3>1, <3>2 DEF Settled
        <3> QED  BY <3>3, AwaitsNone
    <2> QED  BY <1>1, <2>1, <2>2, <2>3
<1>6. Ageing(p, c)  BY <1>2 DEF Ageing, HoldsIn, Holds, StoredIn, Stored
<1>7. /\ LiveIn(c) => Live(p) /\ TokenIn(c) = Token(p)
      /\ WonIn(c) => Won(p) /\ c.got = coord[p].got
    BY <1>2 DEF LiveIn, Live, TokenIn, Token, WonIn, Won, HoldsIn
<1>8. /\ c.rev <= kv.rev /\ c.token <= kv.rev /\ c.got <= kv.rev /\ c.seen <= kv.rev
      /\ c.session[1] = p
      /\ c.pc \notin {"idle", "closed"} => c.own # None /\ c.own.session[1] = p
    BY <1>1, <1>2, CoordOf
<1> QED  BY <1>1, <1>2, <1>3, <1>4, <1>5, <1>6, <1>7, <1>8, SilentKeeps

\* A write that is stored ends no term of a process that keeps its timers.
LEMMA ArriveStoredKeeps ==
    ASSUME LeaseInv, NEW w \in net, Arrive(w), Accepted(w)
    PROVE  LeaseInv'
<1> DEFINE p == w.proc
           c == [coord[p] EXCEPT !.req = "stored", !.got = kv.rev + 1]
<1>1. /\ coord \in [Procs -> Coords] /\ net \subseteq Writes /\ kv.rev \in Nat /\ MaxRev \in Nat
      /\ kv \in [rev : 0..MaxRev, val : Values] /\ granted \subseteq 1..MaxRev
      /\ p \in Procs /\ w.late \in BOOLEAN /\ w.val \in Values
    BY LeaseAssumption DEF LeaseInv, TypeOK, Coords, Writes
<1>2. /\ kv' = [rev |-> kv.rev + 1, val |-> w.val] /\ net' = net \ {w} /\ UNCHANGED <<terms, granted>>
      /\ kv.rev + 1 \in 0..MaxRev
    BY <1>1 DEF Arrive
<1>3. kv'.rev = kv.rev + 1 /\ kv'.val = w.val  BY <1>2
<1>4. IF w.late THEN coord' = coord ELSE coord' = [coord EXCEPT ![p] = c]
    BY DEF Arrive, Set
<1>5. /\ c \in Coords /\ c.pc = coord[p].pc /\ c.own = coord[p].own /\ c.rev = coord[p].rev
      /\ c.token = coord[p].token /\ c.last = coord[p].last /\ c.sent = coord[p].sent
      /\ c.seen = coord[p].seen /\ c.since = coord[p].since /\ c.session = coord[p].session
      /\ c.req = "stored" /\ c.got = kv.rev + 1
    <2>1. coord[p] \in Coords /\ "stored" \in Answers  BY <1>1 DEF Answers
    <2> QED  BY <1>2, <2>1 DEF Coords
<1> HIDE DEF c, p
<1>6. coord' \in [Procs -> Coords]  BY <1>1, <1>4, <1>5
<1>7. ASSUME NEW q \in Procs
      PROVE  /\ coord'[q].pc = coord[q].pc /\ coord'[q].own = coord[q].own
             /\ coord'[q].rev = coord[q].rev /\ coord'[q].token = coord[q].token
             /\ coord'[q].last = coord[q].last /\ coord'[q].sent = coord[q].sent
             /\ coord'[q].seen = coord[q].seen /\ coord'[q].since = coord[q].since
             /\ coord'[q].session = coord[q].session
    BY <1>1, <1>4, <1>5
<1>8. ASSUME NEW q \in Procs
      PROVE  \/ coord'[q].req = coord[q].req /\ coord'[q].got = coord[q].got
             \/ q = p /\ ~w.late /\ coord'[q].got = kv.rev + 1
    BY <1>1, <1>4, <1>5
<1>9. ~w.late /\ coord[p].pc \in Waiting => coord[p].req = "sent" /\ w.val = coord[p].own
    BY DEF LeaseInv, Awaited, Waiting, p
\* What is told of a stored write, and of the term it wins.
<1>10. ASSUME NEW q \in Procs, StoredIn(coord'[q])
       PROVE  \/ Stored(q) /\ coord'[q].got = coord[q].got
              \/ q = p /\ coord'[q].got = kv.rev + 1
    BY <1>7, <1>8, <1>10 DEF StoredIn, Stored
<1>11. ASSUME NEW q \in Procs, LiveIn(coord'[q])
       PROVE  \/ Live(q) /\ TokenIn(coord'[q]) = Token(q)
              \/ /\ q = p /\ WonIn(coord'[q]) /\ TokenIn(coord'[q]) = kv.rev + 1
                 /\ w.val = coord[q].own
    <2>1. CASE HoldsIn(coord'[q])
        BY <1>7, <2>1 DEF HoldsIn, Live, LiveIn, Token, TokenIn
    <2>2. CASE WonIn(coord'[q]) /\ ~HoldsIn(coord'[q])
        <3>1. coord[q].pc = "campaign"  BY <1>7, <2>2 DEF WonIn
        <3>2. CASE coord'[q].req = coord[q].req /\ coord'[q].got = coord[q].got
            BY <2>2, <3>1, <3>2 DEF WonIn, Live, LiveIn, Token, TokenIn, HoldsIn
        <3>3. CASE q = p /\ ~w.late /\ coord'[q].got = kv.rev + 1
            BY <1>9, <2>2, <3>1, <3>3 DEF TokenIn, Waiting
        <3> QED  BY <1>8, <3>2, <3>3
    <2> QED  BY <1>11, <2>1, <2>2 DEF LiveIn
<1>12. TypeOK'  BY <1>1, <1>2, <1>6 DEF LeaseInv, TypeOK, Coords, Writes
<1>13. Bounded'
    <2>1. ASSUME NEW q \in Procs
          PROVE  /\ coord'[q].rev <= kv.rev + 1 /\ coord'[q].token <= kv.rev + 1
                 /\ coord'[q].got <= kv.rev + 1 /\ coord'[q].seen <= kv.rev + 1
        <3>1. /\ coord[q].rev <= kv.rev /\ coord[q].token <= kv.rev
              /\ coord[q].got <= kv.rev /\ coord[q].seen <= kv.rev
              /\ coord[q].rev \in Nat /\ coord[q].token \in Nat
              /\ coord[q].got \in Nat /\ coord[q].seen \in Nat
            BY CoordOf DEF Coords
        <3> QED  BY <1>1, <1>7, <1>8, <3>1
    <2>2. \A v \in net' : v.at <= kv.rev + 1
        BY <1>1, <1>2 DEF LeaseInv, Bounded, Writes
    <2>3. \A t \in granted' : t <= kv.rev + 1
        BY <1>1, <1>2 DEF LeaseInv, Bounded
    <2> QED  BY <1>3, <2>1, <2>2, <2>3 DEF Bounded
<1>14. Owned'  BY <1>2, <1>7 DEF LeaseInv, Owned
<1>15. Awaited'
    <2>1. \A v \in net : v.proc \in Procs  BY <1>1 DEF Writes
    <2>2. ASSUME NEW v \in net', ~v.late
          PROVE  \/ coord'[v.proc].pc \in Waiting /\ coord'[v.proc].req = "sent" /\ v.val = coord'[v.proc].own
                 \/ coord'[v.proc].pc \in {"resigning", "closed"}
        <3>1. v \in net /\ v # w /\ v.proc \in Procs  BY <1>2, <2>1
        <3>2. \/ coord[v.proc].pc \in Waiting /\ coord[v.proc].req = "sent" /\ v.val = coord[v.proc].own
              \/ coord[v.proc].pc \in {"resigning", "closed"}
            BY <2>2, <3>1 DEF LeaseInv, Awaited
        <3>3. CASE coord[v.proc].pc \in {"resigning", "closed"}  BY <1>7, <3>1, <3>3
        <3>4. CASE coord[v.proc].pc \notin {"resigning", "closed"}
            <4>1. ~(v.proc = p /\ ~w.late)
                BY <2>2, <3>1, <3>4 DEF LeaseInv, Awaited, p
            <4> QED  BY <1>7, <1>8, <3>1, <3>2, <3>4, <4>1
        <3> QED  BY <3>3, <3>4
    <2>3. ASSUME NEW v \in net', NEW x \in net', ~v.late, ~x.late, v.proc = x.proc,
                 coord'[v.proc].pc \notin {"resigning", "closed"}
          PROVE  v = x
        <3>1. v \in net /\ x \in net /\ coord'[v.proc].pc = coord[v.proc].pc
            BY <1>2, <1>7, <2>1
        <3> QED  BY <2>3, <3>1 DEF LeaseInv, Awaited
    <2> QED  BY <2>2, <2>3 DEF Awaited
<1>16. Watched'
    <2> SUFFICES ASSUME NEW r \in Procs, NEW q \in Procs
                 PROVE  /\ HoldsIn(coord'[r]) /\ coord'[q].seen >= coord'[r].rev =>
                            coord'[q].since <= coord'[r].last
                        /\ StoredIn(coord'[r]) /\ coord'[q].seen >= coord'[r].got =>
                            coord'[q].since <= coord'[r].sent
        BY DEF Watched, Holds, Stored, HoldsIn
    <2>1. /\ Holds(r) /\ coord[q].seen >= coord[r].rev => coord[q].since <= coord[r].last
          /\ Stored(r) /\ coord[q].seen >= coord[r].got => coord[q].since <= coord[r].sent
        BY DEF LeaseInv, Watched
    <2>2. coord[q].seen <= kv.rev /\ coord[q].seen \in Nat  BY CoordOf DEF Coords
    <2>3. HoldsIn(coord'[r]) => Holds(r)  BY <1>7 DEF HoldsIn, Holds
    <2>4. StoredIn(coord'[r]) =>
            (Stored(r) /\ coord'[r].got = coord[r].got) \/ coord'[r].got = kv.rev + 1
        BY <1>10
    <2> QED  BY <1>1, <1>7, <2>1, <2>2, <2>3, <2>4
<1>17. OnTime'
    <2>1. \A q \in Punctual : q \in Procs  BY DEF Punctual
    <2> QED  BY <1>7, <2>1 DEF LeaseInv, OnTime, Holds
<1>18. Unrivalled'
    <2> SUFFICES ASSUME NEW q \in Punctual, LiveIn(coord'[q])
                 PROVE  /\ kv'.val = coord'[q].own
                        /\ \A v \in net' : v.kind # "create" /\ v.at >= TokenIn(coord'[q]) =>
                                v.val = coord'[q].own
        BY DEF Unrivalled, Live, Token
    <2>1. q \in Procs  BY DEF Punctual
    <2>2. CASE Live(q) /\ TokenIn(coord'[q]) = Token(q)
        <3>1. w.val = coord[q].own  BY <2>2, OnlyOwnAccepted
        <3> QED  BY <1>2, <1>3, <1>7, <2>1, <2>2, <3>1 DEF LeaseInv, Unrivalled
    <2>3. CASE TokenIn(coord'[q]) = kv.rev + 1 /\ w.val = coord[q].own
        <3>1. \A v \in net' : v.at \in Nat /\ v.at <= kv.rev
            BY <1>1, <1>2 DEF LeaseInv, Bounded, Writes
        <3> QED  BY <1>1, <1>3, <1>7, <2>1, <2>3, <3>1
    <2> QED  BY <1>11, <2>1, <2>2, <2>3
<1>19. ASSUME NEW q \in Procs, q # p  PROVE coord'[q] = coord[q]
    BY <1>1, <1>4, <1>19
<1>20. Before'
    <2> SUFFICES ASSUME NEW q \in Punctual, LiveIn(coord'[q])
                 PROVE  /\ \A r \in Procs \ {q} :
                            /\ HoldsIn(coord'[r]) =>
                                coord'[r].rev < TokenIn(coord'[q]) /\ coord'[r].token < TokenIn(coord'[q])
                            /\ StoredIn(coord'[r]) => coord'[r].got < TokenIn(coord'[q])
                        /\ \A t \in granted : t <= TokenIn(coord'[q])
        BY <1>2 DEF Before, Live, Token, Holds, HoldsIn, Stored
    <2>1. q \in Procs  BY DEF Punctual
    <2>2. CASE Live(q) /\ TokenIn(coord'[q]) = Token(q)
        <3>1. q = p  BY <2>2, OnlyOwnAccepted DEF p
        <3>2. \A r \in Procs \ {q} : coord'[r] = coord[r]  BY <1>19, <3>1
        <3> QED  BY <2>2, <3>2 DEF LeaseInv, Before, Holds, HoldsIn, Stored
    <2>3. CASE q = p /\ TokenIn(coord'[q]) = kv.rev + 1
        <3>1. \A r \in Procs \ {q} : coord'[r] = coord[r]  BY <1>19, <2>3
        <3>2. ASSUME NEW r \in Procs \ {q}
              PROVE  coord[r].rev < kv.rev + 1 /\ coord[r].token < kv.rev + 1 /\ coord[r].got < kv.rev + 1
            <4>1. /\ coord[r].rev \in Nat /\ coord[r].token \in Nat /\ coord[r].got \in Nat
                  /\ coord[r].rev <= kv.rev /\ coord[r].token <= kv.rev /\ coord[r].got <= kv.rev
                BY CoordOf DEF Coords
            <4> QED  BY <1>1, <4>1
        <3>3. \A t \in granted : t <= kv.rev + 1  BY <1>1 DEF LeaseInv, Bounded
        <3> QED  BY <2>3, <3>1, <3>2, <3>3
    <2> QED  BY <1>11, <2>1, <2>2, <2>3
<1>21. Distinct'
    <2>1. \A q \in Procs : HoldsIn(coord'[q]) => coord'[q].token > 0
        BY <1>7 DEF LeaseInv, Distinct, Holds, HoldsIn
    <2>2. \A q \in Procs : StoredIn(coord'[q]) => coord'[q].got > 0
        BY <1>1, <1>10 DEF LeaseInv, Distinct
    <2>3. ASSUME NEW q \in Procs, WonIn(coord'[q])  PROVE coord'[q].got \notin granted
        <3>1. coord[q].pc = "campaign" /\ StoredIn(coord'[q])
            BY <1>7, <2>3 DEF WonIn, StoredIn, Waiting
        <3>2. CASE Stored(q) /\ coord'[q].got = coord[q].got
            BY <3>1, <3>2 DEF LeaseInv, Distinct, Stored, StoredIn, Won, WonIn
        <3>3. CASE coord'[q].got = kv.rev + 1
            BY <1>1, <3>3 DEF LeaseInv, Bounded
        <3> QED  BY <1>10, <3>1, <3>2, <3>3
    <2>4. ASSUME NEW q \in Procs, NEW r \in Procs, q # r, LiveIn(coord'[q]), LiveIn(coord'[r])
          PROVE  TokenIn(coord'[q]) # TokenIn(coord'[r])
        <3>1. Token(q) \in Nat /\ Token(q) <= kv.rev /\ Token(r) \in Nat /\ Token(r) <= kv.rev
            BY CoordOf DEF Token, TokenIn, Coords
        <3>2. Live(q) /\ Live(r) => Token(q) # Token(r)
            BY <2>4 DEF LeaseInv, Distinct
        <3> QED  BY <1>1, <1>11, <2>4, <3>1, <3>2
    <2> QED  BY <1>2, <2>1, <2>2, <2>3, <2>4 DEF Distinct, Holds, HoldsIn, Stored, Won, Live, Token
<1> QED  BY <1>12, <1>13, <1>14, <1>15, <1>16, <1>17, <1>18, <1>20, <1>21 DEF LeaseInv

-----------------------------------------------------------------------------
(* Time.                                                                   *)

\* A tick ages by at most one.
LEMMA OlderGrows ==
    ASSUME NEW a \in Ages, NEW b \in Ages
    PROVE  /\ Older(a) \in Ages /\ a <= Older(a) /\ Older(a) <= a + 1
           /\ a <= b => Older(a) <= Older(b) /\ a <= Older(b)
    BY LeaseAssumption DEF Older, Ages

\* A tick passes no deadline of a process that keeps its timers.
LEMMA TickKeeps == ASSUME LeaseInv, Tick PROVE LeaseInv'
<1>1. /\ coord \in [Procs -> Coords] /\ net \subseteq Writes /\ kv.rev \in Nat
      /\ UNCHANGED <<kv, net, terms, granted>>
    <2>1. coord \in [Procs -> Coords] /\ net \subseteq Writes  BY DEF LeaseInv, TypeOK, Coords, Writes
    <2>2. kv.rev \in Nat  BY LeaseAssumption DEF LeaseInv, TypeOK
    <2> QED  BY <2>1, <2>2 DEF Tick
<1>2. ASSUME NEW q \in Procs
      PROVE  /\ coord'[q] \in Coords
             /\ coord'[q].pc = coord[q].pc /\ coord'[q].own = coord[q].own
             /\ coord'[q].rev = coord[q].rev /\ coord'[q].token = coord[q].token
             /\ coord'[q].req = coord[q].req /\ coord'[q].got = coord[q].got
             /\ coord'[q].seen = coord[q].seen /\ coord'[q].session = coord[q].session
             /\ coord'[q].last = (IF Holds(q) THEN Older(coord[q].last) ELSE coord[q].last)
             /\ coord'[q].sent = (IF coord[q].req # "none" THEN Older(coord[q].sent) ELSE coord[q].sent)
             /\ coord'[q].since \in {coord[q].since, Older(coord[q].since)}
    <2> DEFINE last == IF Holds(q) THEN Older(coord[q].last) ELSE coord[q].last
               sent == IF coord[q].req # "none" THEN Older(coord[q].sent) ELSE coord[q].sent
               since == IF coord[q].seen = kv.rev THEN Older(coord[q].since) ELSE coord[q].since
    <2>1. coord[q] \in Coords /\ coord[q].last \in Ages /\ coord[q].sent \in Ages /\ coord[q].since \in Ages
        BY <1>1 DEF Coords
    <2>2. last \in Ages /\ sent \in Ages /\ since \in Ages /\ since \in {coord[q].since, Older(coord[q].since)}
        BY <2>1, OlderGrows
    <2>3. coord'[q] = [coord[q] EXCEPT !.last = last, !.sent = sent, !.since = since]
        BY DEF Tick
    <2> HIDE DEF last, sent, since
    <2>4. /\ coord'[q] \in Coords
          /\ coord'[q].pc = coord[q].pc /\ coord'[q].own = coord[q].own
          /\ coord'[q].rev = coord[q].rev /\ coord'[q].token = coord[q].token
          /\ coord'[q].req = coord[q].req /\ coord'[q].got = coord[q].got
          /\ coord'[q].seen = coord[q].seen /\ coord'[q].session = coord[q].session
          /\ coord'[q].last = last /\ coord'[q].sent = sent /\ coord'[q].since = since
        BY <2>1, <2>2, <2>3 DEF Coords
    <2> QED  BY <2>2, <2>4 DEF last, sent
<1>3. TypeOK'
    <2>1. coord' \in [Procs -> Coords]
        <3>1. coord' = [q \in Procs |-> coord'[q]]  BY DEF Tick
        <3> QED  BY <1>2, <3>1
    <2> QED  BY <1>1, <2>1 DEF LeaseInv, TypeOK, Coords
<1>4. Bounded'  BY <1>1, <1>2 DEF LeaseInv, Bounded
<1>5. Owned'  BY <1>1, <1>2 DEF LeaseInv, Owned
<1>6. Awaited'
    <2>1. \A w \in net : w.proc \in Procs  BY <1>1 DEF Writes
    <2> QED  BY <1>1, <1>2, <2>1 DEF LeaseInv, Awaited
<1>7. Watched'
    <2> SUFFICES ASSUME NEW r \in Procs, NEW q \in Procs
                 PROVE  /\ HoldsIn(coord'[r]) /\ coord'[q].seen >= coord'[r].rev =>
                            coord'[q].since <= coord'[r].last
                        /\ StoredIn(coord'[r]) /\ coord'[q].seen >= coord'[r].got =>
                            coord'[q].since <= coord'[r].sent
        BY DEF Watched, Holds, Stored, HoldsIn
    <2>1. /\ Holds(r) /\ coord[q].seen >= coord[r].rev => coord[q].since <= coord[r].last
          /\ Stored(r) /\ coord[q].seen >= coord[r].got => coord[q].since <= coord[r].sent
        BY DEF LeaseInv, Watched
    <2>2. /\ coord[r].last \in Ages /\ coord[r].sent \in Ages /\ coord[q].since \in Ages
        BY <1>1 DEF Coords
    <2>3. ASSUME HoldsIn(coord'[r]), coord'[q].seen >= coord'[r].rev
          PROVE  coord'[q].since <= coord'[r].last
        <3>1. Holds(r) /\ coord'[r].last = Older(coord[r].last)
            BY <1>2, <2>3 DEF Holds, HoldsIn
        <3>2. coord[q].since <= coord[r].last  BY <1>2, <2>1, <2>3, <3>1
        <3> QED  BY <1>2, <2>2, <3>1, <3>2, OlderGrows
    <2>4. ASSUME StoredIn(coord'[r]), coord'[q].seen >= coord'[r].got
          PROVE  coord'[q].since <= coord'[r].sent
        <3>1. Stored(r) /\ coord'[r].sent = Older(coord[r].sent)
            BY <1>2, <2>4 DEF Stored, StoredIn
        <3>2. coord[q].since <= coord[r].sent  BY <1>2, <2>1, <2>4, <3>1
        <3> QED  BY <1>2, <2>2, <3>1, <3>2, OlderGrows
    <2> QED  BY <2>3, <2>4
<1>8. OnTime'
    <2> SUFFICES ASSUME NEW q \in Punctual
                 PROVE  /\ HoldsIn(coord'[q]) => coord'[q].last < LeaseDuration
                        /\ coord'[q].pc = "campaign" => coord'[q].sent < LeaseDuration
                        /\ coord'[q].pc \in {"renewing", "adopting"} => coord'[q].sent <= coord'[q].last
        BY DEF OnTime, Holds, HoldsIn
    <2>1. q \in Procs /\ ~Overdue(q)  BY DEF Punctual, Tick
    <2>2. /\ coord[q].last \in Ages /\ coord[q].sent \in Ages
          /\ coord[q].last \in Nat /\ coord[q].sent \in Nat
          /\ LeaseDuration \in Nat /\ RenewDeadline \in Nat /\ RenewDeadline < LeaseDuration
          /\ CampaignTimeout \in Nat /\ CampaignTimeout < LeaseDuration
        BY <1>1, <2>1, LeaseAssumption DEF Coords, Ages
    <2>3. /\ HoldsIn(coord'[q]) <=> Holds(q)
          /\ coord'[q].pc = coord[q].pc
          /\ coord'[q].last = (IF Holds(q) THEN Older(coord[q].last) ELSE coord[q].last)
          /\ coord'[q].sent \in {coord[q].sent, Older(coord[q].sent)}
        BY <1>2, <2>1 DEF HoldsIn, Holds
    <2>4. /\ Older(coord[q].last) \in Nat /\ Older(coord[q].sent) \in Nat
          /\ Older(coord[q].last) <= coord[q].last + 1
          /\ Older(coord[q].sent) <= coord[q].sent + 1
          /\ coord[q].sent <= coord[q].last =>
                /\ Older(coord[q].sent) <= Older(coord[q].last)
                /\ coord[q].sent <= Older(coord[q].last)
        BY <2>2, OlderGrows DEF Ages
    <2>5. Holds(q) => coord[q].last < RenewDeadline  BY <2>1, <2>2 DEF Overdue
    <2>6. coord[q].pc = "campaign" => coord[q].sent < CampaignTimeout  BY <2>1, <2>2 DEF Overdue
    <2>7. coord[q].pc \in {"renewing", "adopting"} => Holds(q) /\ coord[q].sent <= coord[q].last
        BY DEF LeaseInv, OnTime, Holds
    <2>8. HoldsIn(coord'[q]) => coord'[q].last < LeaseDuration
        BY <2>2, <2>3, <2>4, <2>5
    <2>9. coord'[q].pc = "campaign" => coord'[q].sent < LeaseDuration
        BY <2>2, <2>3, <2>4, <2>6
    <2>10. coord'[q].pc \in {"renewing", "adopting"} => coord'[q].sent <= coord'[q].last
        BY <2>3, <2>4, <2>7
    <2> QED  BY <2>8, <2>9, <2>10
<1>9. ASSUME NEW q \in Procs
      PROVE  /\ LiveIn(coord'[q]) <=> Live(q)
             /\ TokenIn(coord'[q]) = Token(q) /\ coord'[q].own = coord[q].own
             /\ HoldsIn(coord'[q]) <=> Holds(q)
             /\ StoredIn(coord'[q]) <=> Stored(q)
             /\ WonIn(coord'[q]) <=> Won(q)
    BY <1>2 DEF LiveIn, Live, TokenIn, Token, HoldsIn, Holds, StoredIn, Stored, WonIn, Won
<1>10. Punctual \subseteq Procs  BY DEF Punctual
<1>11. Unrivalled'
    <2>1. \A q \in Punctual : LiveIn(coord'[q]) =>
            /\ kv.val = coord'[q].own
            /\ \A w \in net : w.kind # "create" /\ w.at >= TokenIn(coord'[q]) => w.val = coord'[q].own
        BY <1>9, <1>10 DEF LeaseInv, Unrivalled
    <2> QED  BY <1>1, <2>1 DEF Unrivalled, Live, Token
<1>12. Before'
    <2>1. \A q \in Punctual : LiveIn(coord'[q]) =>
            /\ \A r \in Procs \ {q} :
                /\ HoldsIn(coord'[r]) =>
                    coord'[r].rev < TokenIn(coord'[q]) /\ coord'[r].token < TokenIn(coord'[q])
                /\ StoredIn(coord'[r]) => coord'[r].got < TokenIn(coord'[q])
            /\ \A t \in granted : t <= TokenIn(coord'[q])
        BY <1>2, <1>9, <1>10 DEF LeaseInv, Before
    <2> QED  BY <1>1, <2>1 DEF Before, Live, Token, Holds, HoldsIn, Stored
<1>13. Distinct'
    <2>1. /\ \A q \in Procs : HoldsIn(coord'[q]) => coord'[q].token > 0
          /\ \A q \in Procs : StoredIn(coord'[q]) => coord'[q].got > 0
          /\ \A q \in Procs : WonIn(coord'[q]) => coord'[q].got \notin granted
          /\ \A q, r \in Procs : q # r /\ LiveIn(coord'[q]) /\ LiveIn(coord'[r]) =>
                TokenIn(coord'[q]) # TokenIn(coord'[r])
        BY <1>2, <1>9 DEF LeaseInv, Distinct
    <2> QED  BY <1>1, <2>1 DEF Distinct, Holds, HoldsIn, Stored, Won, Live, Token
<1> QED  BY <1>3, <1>4, <1>5, <1>6, <1>7, <1>8, <1>11, <1>12, <1>13 DEF LeaseInv

-----------------------------------------------------------------------------
(* The invariant.                                                          *)

\* The bucket starts empty and no process holds a term.
LEMMA LeaseInvInit == Init => LeaseInv
<1> SUFFICES ASSUME Init PROVE LeaseInv  OBVIOUS
<1>1. /\ kv.rev = 0 /\ kv.val = None /\ kv \in [rev : 0..MaxRev, val : Values]
      /\ net = {} /\ terms \in 0..MaxTerms /\ granted = {}
    BY LeaseAssumption DEF Init, Values
<1>2. ASSUME NEW p \in Procs
      PROVE  /\ Fresh(<<p, 0>>) \in Coords /\ Fresh(<<p, 0>>).pc = "idle"
             /\ Fresh(<<p, 0>>).rev = 0 /\ Fresh(<<p, 0>>).token = 0 /\ Fresh(<<p, 0>>).got = 0
             /\ Fresh(<<p, 0>>).seen = 0 /\ Fresh(<<p, 0>>).session[1] = p
    <2> DEFINE session == <<p, 0>>
    <2>1. session \in Sessions /\ session[1] = p  BY DEF Sessions
    <2>2. 0 \in Ages /\ 0 \in 0..MaxRev /\ None \in Values  BY LeaseAssumption DEF Ages, Values
    <2>3. "idle" \in Pcs /\ "none" \in Answers  BY DEF Pcs, Answers
    <2> HIDE DEF session
    <2>4. /\ Fresh(session) \in Coords /\ Fresh(session).pc = "idle"
          /\ Fresh(session).rev = 0 /\ Fresh(session).token = 0 /\ Fresh(session).got = 0
          /\ Fresh(session).seen = 0 /\ Fresh(session).session[1] = p
        BY <2>1, <2>2, <2>3 DEF Coords, Fresh
    <2> QED  BY <2>4 DEF session
<1>3. ASSUME NEW p \in Procs
      PROVE  /\ coord[p] \in Coords /\ coord[p].pc = "idle"
             /\ coord[p].rev = 0 /\ coord[p].token = 0 /\ coord[p].got = 0
             /\ coord[p].seen = 0 /\ coord[p].session[1] = p
    <2>1. coord[p] = Fresh(<<p, 0>>)  BY DEF Init
    <2> QED  BY <1>2, <2>1
<1>4. coord \in [Procs -> Coords]
    <2>1. coord = [p \in Procs |-> coord[p]]  BY DEF Init
    <2> QED  BY <1>3, <2>1
<1>5. \A p \in Procs : ~Holds(p) /\ ~Stored(p) /\ ~Won(p) /\ ~Live(p)
    BY <1>3 DEF Holds, Stored, StoredIn, Waiting, Won, WonIn, Live, LiveIn, HoldsIn
<1>6. Punctual \subseteq Procs  BY DEF Punctual
<1>7. TypeOK  BY <1>1, <1>4 DEF TypeOK, Coords
<1>8. Bounded /\ Owned /\ Awaited  BY <1>1, <1>3 DEF Bounded, Owned, Awaited
<1>9. Watched /\ OnTime  BY <1>3, <1>5, <1>6 DEF Watched, OnTime
<1>10. Unrivalled /\ Before /\ Distinct  BY <1>5, <1>6 DEF Unrivalled, Before, Distinct
<1> QED  BY <1>7, <1>8, <1>9, <1>10 DEF LeaseInv

\* A holder resigns: its term is over before its delete is sent.
LEMMA ResignStepKeeps == ASSUME LeaseInv, NEW p \in Procs, Resign(p) PROVE LeaseInv'
<1>1. coord[p].closing \in BOOLEAN /\ coord[p] \in Coords  BY CoordOf DEF Coords
<1>2. PICK S \in Abandoned(p) : net' = S \cup {Write(p, None, coord[p].rev, "delete")}
    BY DEF Resign
<1> DEFINE closing == coord[p].closing
<1>3. [coord[p] EXCEPT !.pc = "resigning", !.sent = 0, !.req = "sent"]
        = [coord[p] EXCEPT !.pc = "resigning", !.sent = 0, !.req = "sent", !.closing = closing]
    BY <1>1 DEF Coords
<1>4. Set(p, [coord[p] EXCEPT !.pc = "resigning", !.sent = 0, !.req = "sent", !.closing = closing])
    BY <1>3 DEF Resign
<1> HIDE DEF closing
<1> QED  BY <1>1, <1>2, <1>4, ResignKeeps DEF Resign, closing

\* Every step keeps the invariant.
LEMMA LeaseInvKept == LeaseInv /\ [Next]_vars => LeaseInv'
<1> SUFFICES ASSUME LeaseInv, [Next]_vars PROVE LeaseInv'  OBVIOUS
<1>1. CASE \E w \in net : Arrive(w)  BY <1>1, ArriveStoredKeeps, ArriveRefusedKeeps
<1>2. CASE Tick  BY <1>2, TickKeeps
<1>3. ASSUME NEW p \in Procs, Step(p)  PROVE LeaseInv'
    BY <1>3, TryAcquireKeeps, ObserveKeeps, CampaignWonKeeps, CampaignLostKeeps, RenewKeeps,
       RenewedKeeps, RenewRefusedKeeps, RenewFailedKeeps, DeadlinePassedKeeps, ResignStepKeeps,
       ResignedKeeps, CloseKeeps, RestartKeeps
    DEF Step
<1>4. CASE UNCHANGED vars
    BY <1>4 DEF vars, LeaseInv, TypeOK, Bounded, Owned, Awaited, Watched, OnTime, Unrivalled,
       Before, Distinct, Holds, Stored, Won, Live, Token
<1> QED  BY <1>1, <1>2, <1>3, <1>4 DEF Next

\* LeaseInv is an invariant of the specification.
LEMMA LeaseInvHolds == Spec => []LeaseInv
<1> QED  BY LeaseInvInit, LeaseInvKept, PTL DEF Spec

\* A resign or a close deletes no later term's entry: while a term of a
\* process that keeps its timers lives, its own entry is in the bucket.
THEOREM EntryKept == Spec => []EntryIntact
<1>1. LeaseInv => EntryIntact
    <2> SUFFICES ASSUME LeaseInv, NEW p \in Punctual, Holds(p)
                 PROVE  kv.val = coord[p].own /\ kv.rev >= coord[p].rev
        BY DEF EntryIntact, Punctual
    <2>1. p \in Procs /\ Live(p)  BY DEF Punctual, Live, LiveIn, HoldsIn, Holds
    <2>2. kv.val = coord[p].own  BY <2>1 DEF LeaseInv, Unrivalled
    <2>3. coord[p].rev <= kv.rev /\ coord[p].rev \in Nat /\ kv.rev \in Nat  BY <2>1, CoordOf DEF Coords
    <2> QED  BY <2>2, <2>3
<1> QED  BY <1>1, LeaseInvHolds, PTL

-----------------------------------------------------------------------------
(* The coordinators implement the lease.                                   *)

\* The terms, as Lease sees them.
Terms == [p \in Procs |-> IF Holds(p) THEN coord[p].token ELSE 0]

\* What a step makes of its process's term: nothing, its end, or a new one.
Keeps(p, c) == (HoldsIn(c) <=> Holds(p)) /\ (Holds(p) => c.token = coord[p].token) /\ granted' = granted
Ends(p, c) == Holds(p) /\ ~HoldsIn(c) /\ granted' = granted
Begins(p, c) ==
    /\ Won(p) /\ HoldsIn(c) /\ c.token = coord[p].got
    /\ granted' = granted \cup {coord[p].got}

\* A process's step changes its own term, and how.
LEMMA TermStep ==
    ASSUME LeaseInv, NEW p \in Procs, Step(p)
    PROVE  \E c : /\ coord' = [coord EXCEPT ![p] = c]
                  /\ Keeps(p, c) \/ Ends(p, c) \/ Begins(p, c)
<1>1. coord[p] \in Coords  BY CoordOf
<1> USE DEF Set, Keeps, Holds, HoldsIn
<1>2. CASE TryAcquire(p)
    <2> DEFINE own == [term |-> terms + 1, session |-> coord[p].session]
               c == [coord[p] EXCEPT !.pc = "campaign", !.own = own, !.rev = 0, !.sent = 0, !.req = "sent"]
    <2>1. c.pc = "campaign" /\ Sighted(coord[p]).pc = coord[p].pc
        BY <1>1 DEF Coords, Sighted
    <2>2. coord[p].pc = "idle" /\ granted' = granted  BY <1>2 DEF TryAcquire
    <2>3. Keeps(p, c) /\ Keeps(p, Sighted(coord[p]))  BY <2>1, <2>2
    <2>4. coord' = [coord EXCEPT ![p] = c] \/ coord' = [coord EXCEPT ![p] = Sighted(coord[p])]
        BY <1>2 DEF TryAcquire
    <2> HIDE DEF c
    <2> QED  BY <2>3, <2>4
<1>3. CASE Observe(p)
    <2>1. Sighted(coord[p]).pc = coord[p].pc  BY <1>1 DEF Coords, Sighted
    <2> QED  BY <1>3, <2>1 DEF Observe
<1>4. CASE CampaignWon(p)
    <2>1. CASE coord[p].closing
        <3> DEFINE c == [coord[p] EXCEPT !.pc = "closed", !.own = None, !.sent = 0, !.req = "none", !.got = 0]
        <3>1. c.pc = "closed"  BY <1>1 DEF Coords
        <3>2. coord' = [coord EXCEPT ![p] = c] /\ coord[p].pc = "campaign" /\ granted' = granted
            BY <1>4, <2>1 DEF CampaignWon
        <3> HIDE DEF c
        <3> QED  BY <3>1, <3>2
    <2>2. CASE ~coord[p].closing
        <3> DEFINE c == Acquired(p)
        <3>1. c.pc = "held" /\ c.token = coord[p].got  BY <1>1 DEF Coords, Acquired
        <3>2. /\ coord' = [coord EXCEPT ![p] = c] /\ granted' = granted \cup {coord[p].got} /\ Won(p)
            BY <1>4, <2>2 DEF CampaignWon, Won, WonIn
        <3> HIDE DEF c
        <3> QED  BY <3>1, <3>2 DEF Begins
    <2> QED  BY <2>1, <2>2
<1>5. CASE CampaignLost(p)
    <2> DEFINE c == [coord[p] EXCEPT !.pc = IF coord[p].closing THEN "closed" ELSE "idle", !.own = None,
                                     !.sent = 0, !.req = "none", !.got = 0]
    <2>1. c.pc \in {"closed", "idle"}  BY <1>1 DEF Coords
    <2>2. coord' = [coord EXCEPT ![p] = c] /\ coord[p].pc = "campaign" /\ granted' = granted
        BY <1>5 DEF CampaignLost
    <2> HIDE DEF c
    <2> QED  BY <2>1, <2>2
<1>6. CASE Renew(p)
    <2> DEFINE c == [coord[p] EXCEPT !.pc = "renewing", !.sent = 0, !.req = "sent"]
    <2>1. c.pc = "renewing" /\ c.token = coord[p].token  BY <1>1 DEF Coords
    <2>2. coord' = [coord EXCEPT ![p] = c] /\ coord[p].pc = "held" /\ granted' = granted
        BY <1>6 DEF Renew
    <2> HIDE DEF c
    <2> QED  BY <2>1, <2>2
<1>7. CASE Renewed(p)
    <2> DEFINE c == [coord[p] EXCEPT !.pc = "held", !.rev = coord[p].got, !.last = coord[p].sent,
                                     !.sent = 0, !.req = "none", !.got = 0]
    <2>1. c.pc = "held" /\ c.token = coord[p].token  BY <1>1 DEF Coords
    <2>2. coord' = [coord EXCEPT ![p] = c] /\ Holds(p) /\ granted' = granted
        BY <1>7 DEF Renewed
    <2> HIDE DEF c
    <2> QED  BY <2>1, <2>2
<1>8. Ended(coord[p]).pc = "idle"  BY <1>1 DEF Coords, Ended
<1>9. CASE RenewRefused(p)
    <2> DEFINE c == [coord[p] EXCEPT !.pc = "adopting", !.req = "sent"]
    <2>1. c.pc = "adopting" /\ c.token = coord[p].token  BY <1>1 DEF Coords
    <2>2. Holds(p) /\ granted' = granted  BY <1>9 DEF RenewRefused
    <2>3. coord' = [coord EXCEPT ![p] = c] \/ coord' = [coord EXCEPT ![p] = Ended(coord[p])]
        BY <1>9 DEF RenewRefused
    <2>4. Keeps(p, c) /\ Ends(p, Ended(coord[p]))  BY <1>8, <2>1, <2>2 DEF Ends
    <2> HIDE DEF c
    <2> QED  BY <2>3, <2>4
<1>10. CASE RenewFailed(p)
    <2> DEFINE c == [coord[p] EXCEPT !.pc = "held", !.sent = 0, !.req = "none", !.got = 0]
    <2>1. c.pc = "held" /\ c.token = coord[p].token  BY <1>1 DEF Coords
    <2>2. coord' = [coord EXCEPT ![p] = c] /\ Holds(p) /\ granted' = granted
        BY <1>10 DEF RenewFailed
    <2> HIDE DEF c
    <2> QED  BY <2>1, <2>2
<1>11. CASE DeadlinePassed(p)
    BY <1>8, <1>11 DEF DeadlinePassed, Ends
<1>12. CASE Resign(p)
    <2> DEFINE c == [coord[p] EXCEPT !.pc = "resigning", !.sent = 0, !.req = "sent"]
    <2>1. c.pc = "resigning"  BY <1>1 DEF Coords
    <2>2. coord' = [coord EXCEPT ![p] = c] /\ Holds(p) /\ granted' = granted
        BY <1>12 DEF Resign
    <2> HIDE DEF c
    <2>3. Ends(p, c)  BY <2>1, <2>2 DEF Ends
    <2> QED  BY <2>2, <2>3
<1>13. CASE Resigned(p)
    <2> DEFINE after == [Ended(coord[p]) EXCEPT !.pc = IF coord[p].closing THEN "closed" ELSE "idle"]
               c == [coord[p] EXCEPT !.rev = kv.rev, !.req = "sent"]
    <2>1. after.pc \in {"closed", "idle"} /\ c.pc = coord[p].pc  BY <1>1 DEF Coords, Ended
    <2>2. coord[p].pc = "resigning" /\ granted' = granted  BY <1>13 DEF Resigned
    <2>3. coord' = [coord EXCEPT ![p] = after] \/ coord' = [coord EXCEPT ![p] = c]
        BY <1>13 DEF Resigned
    <2> HIDE DEF after, c
    <2>4. Keeps(p, after) /\ Keeps(p, c)  BY <2>1, <2>2
    <2> QED  BY <2>3, <2>4
<1>14. CASE Close(p)
    <2>1. granted' = granted  BY <1>14 DEF Close
    <2>2. CASE Holds(p)
        <3> DEFINE c == [coord[p] EXCEPT !.pc = "resigning", !.sent = 0, !.req = "sent", !.closing = TRUE]
        <3>1. c.pc = "resigning"  BY <1>1 DEF Coords
        <3>2. coord' = [coord EXCEPT ![p] = c]  BY <1>14, <2>2 DEF Close
        <3> HIDE DEF c
        <3>3. Ends(p, c)  BY <2>1, <2>2, <3>1 DEF Ends
        <3> QED  BY <3>2, <3>3
    <2>3. CASE ~Holds(p)
        <3> DEFINE c == [coord[p] EXCEPT !.closing = TRUE,
                                         !.pc = IF coord[p].pc = "idle" THEN "closed" ELSE coord[p].pc]
        <3>1. c.pc \in {"closed", coord[p].pc}  BY <1>1 DEF Coords
        <3>2. coord' = [coord EXCEPT ![p] = c]  BY <1>1, <1>14, <2>3 DEF Close, Coords
        <3> HIDE DEF c
        <3> QED  BY <2>1, <2>3, <3>1, <3>2
    <2> QED  BY <2>2, <2>3
<1>15. CASE Restart(p)
    <2> DEFINE c == Fresh(<<p, coord[p].session[2] + 1>>)
    <2>1. c.pc = "idle"  BY DEF Fresh
    <2>2. coord' = [coord EXCEPT ![p] = c] /\ granted' = granted  BY <1>15 DEF Restart
    <2> HIDE DEF c
    <2>3. Keeps(p, c) \/ Ends(p, c)  BY <2>1, <2>2 DEF Ends
    <2> QED  BY <2>2, <2>3
<1> QED
    BY <1>2, <1>3, <1>4, <1>5, <1>6, <1>7, <1>9, <1>10, <1>11, <1>12, <1>13, <1>14, <1>15 DEF Step

\* A term is handed out only where the lease of coord.go allows one.
LEMMA MayBegin ==
    ASSUME LeaseInv, NEW p \in Procs, Won(p)
    PROVE  /\ coord[p].got \in Nat \ (granted \cup {0}) /\ ~Holds(p)
           /\ \A q \in Procs : Holds(q) =>
                \/ q \in Stallers /\ coord[q].token < coord[p].got
                \/ p \in Stallers /\ coord[p].got < coord[q].token
           /\ p \in Stallers \/ \A t \in granted : t < coord[p].got
<1>1. /\ Live(p) /\ Stored(p) /\ ~Holds(p) /\ Token(p) = coord[p].got
    BY DEF Won, WonIn, Live, LiveIn, Stored, StoredIn, Waiting, Holds, HoldsIn, Token, TokenIn
<1>2. coord[p].got \in Nat /\ coord[p].got > 0 /\ coord[p].got \notin granted
    BY <1>1, CoordOf DEF LeaseInv, Distinct, Coords
<1>3. ASSUME NEW q \in Procs, Holds(q)
      PROVE  \/ q \in Stallers /\ coord[q].token < coord[p].got
             \/ p \in Stallers /\ coord[p].got < coord[q].token
    <2>1. q # p /\ Live(q) /\ Token(q) = coord[q].token
        BY <1>1, <1>3 DEF Live, LiveIn, Holds, HoldsIn, Token, TokenIn
    <2>2. coord[q].token \in Nat  BY CoordOf DEF Coords
    <2>3. coord[q].token # coord[p].got  BY <1>1, <2>1 DEF LeaseInv, Distinct
    <2>4. p \in Punctual => coord[q].token < coord[p].got
        BY <1>1, <1>3, <2>1 DEF LeaseInv, Before
    <2>5. q \in Punctual => coord[p].got < coord[q].token
        BY <1>1, <2>1 DEF LeaseInv, Before
    <2> QED  BY <1>2, <2>2, <2>3, <2>4, <2>5 DEF Punctual
<1>4. p \in Punctual => \A t \in granted : t < coord[p].got
    <2>1. p \in Punctual => \A t \in granted : t <= coord[p].got
        BY <1>1 DEF LeaseInv, Before
    <2>2. granted \subseteq 1..MaxRev  BY DEF LeaseInv, TypeOK
    <2> QED  BY <1>2, <2>1, <2>2, LeaseAssumption
<1> QED  BY <1>1, <1>2, <1>3, <1>4 DEF Punctual

\* Every step of the protocol is a step of the abstract lease, or none.
LEMMA LeaseStep ==
    ASSUME LeaseInv, [Next]_vars
    PROVE  [Contract!Next]_(Contract!lvars)
<1>1. coord \in [Procs -> Coords]  BY DEF LeaseInv, TypeOK, Coords
<1>2. SUFFICES Contract!Next \/ (Terms' = Terms /\ granted' = granted)
    BY DEF Contract!lvars, Terms
<1>3. CASE \E w \in net : Arrive(w)
    <2>1. PICK w \in net : Arrive(w)  BY <1>3
    <2>2. w.proc \in Procs /\ coord[w.proc] \in Coords  BY <1>1 DEF LeaseInv, TypeOK
    <2>3. \A p \in Procs : coord'[p].pc = coord[p].pc /\ coord'[p].token = coord[p].token
        <3> DEFINE at == w.proc
        <3>1. \/ coord' = coord
              \/ \E req, got : coord' = [coord EXCEPT ![at] = [coord[at] EXCEPT !.req = req, !.got = got]]
            BY <2>1 DEF Arrive, Set
        <3>2. CASE coord' = coord  BY <3>2
        <3>3. CASE \E req, got : coord' = [coord EXCEPT ![at] = [coord[at] EXCEPT !.req = req, !.got = got]]
            <4>1. PICK req, got : coord' = [coord EXCEPT ![at] = [coord[at] EXCEPT !.req = req, !.got = got]]
                BY <3>3
            <4>2. /\ [coord[at] EXCEPT !.req = req, !.got = got].pc = coord[at].pc
                  /\ [coord[at] EXCEPT !.req = req, !.got = got].token = coord[at].token
                BY <2>2 DEF Coords
            <4> QED  BY <1>1, <4>1, <4>2
        <3> QED  BY <3>1, <3>2, <3>3
    <2>4. granted' = granted  BY <2>1 DEF Arrive
    <2> QED  BY <2>3, <2>4 DEF Terms, Holds
<1>4. CASE Tick
    <2>1. \A p \in Procs : coord'[p].pc = coord[p].pc /\ coord'[p].token = coord[p].token
        BY <1>1, <1>4 DEF Tick, Coords
    <2>2. granted' = granted  BY <1>4 DEF Tick
    <2> QED  BY <2>1, <2>2 DEF Terms, Holds
<1>5. ASSUME NEW p \in Procs, Step(p)
      PROVE  Contract!Next \/ (Terms' = Terms /\ granted' = granted)
    <2>1. PICK c : /\ coord' = [coord EXCEPT ![p] = c]
                   /\ Keeps(p, c) \/ Ends(p, c) \/ Begins(p, c)
        BY <1>5, TermStep
    <2>2. Terms' = [Terms EXCEPT ![p] = IF HoldsIn(c) THEN c.token ELSE 0]
        BY <1>1, <2>1 DEF Terms, Holds, HoldsIn
    <2>3. Terms \in [Procs -> Nat]
        <3>1. \A q \in Procs : coord[q].token \in Nat  BY CoordOf DEF Coords
        <3> QED  BY <3>1 DEF Terms
    <2>4. CASE Keeps(p, c)
        BY <2>2, <2>3, <2>4 DEF Keeps, Terms
    <2>5. CASE Ends(p, c)
        <3>1. Terms[p] # 0  BY <2>5 DEF Ends, Terms, LeaseInv, Distinct
        <3>2. Terms' = [Terms EXCEPT ![p] = 0]  BY <2>2, <2>5 DEF Ends
        <3>3. Contract!End(p)  BY <2>5, <3>1, <3>2 DEF Contract!End, Terms, Ends
        <3> QED  BY <3>3 DEF Contract!Next
    <2>6. CASE Begins(p, c)
        <3> DEFINE token == coord[p].got
        <3>1. /\ token \in Nat \ (granted \cup {0}) /\ ~Holds(p)
              /\ \A q \in Procs : Holds(q) =>
                    \/ q \in Stallers /\ coord[q].token < token
                    \/ p \in Stallers /\ token < coord[q].token
              /\ p \in Stallers \/ \A t \in granted : t < token
            BY <2>6, MayBegin DEF Begins
        <3>2. Terms' = [Terms EXCEPT ![p] = token] /\ granted' = granted \cup {token}
            BY <2>2, <2>6 DEF Begins
        <3> HIDE DEF token
        <3>3. Terms[p] = 0 /\ Terms'[p] = token  BY <2>3, <3>1, <3>2 DEF Terms
        <3>4. \A q \in Procs : Terms[q] = 0 \/ (Holds(q) /\ Terms[q] = coord[q].token)
            BY DEF Terms
        <3>5. \A q \in Procs :
                \/ Terms[q] = 0
                \/ q \in Stallers /\ Terms[q] < token
                \/ p \in Stallers /\ token < Terms[q]
            BY <3>1, <3>4
        <3>6. Contract!Acquire(p)
            BY <3>1, <3>2, <3>3, <3>5 DEF Contract!Acquire, Terms
        <3> QED  BY <3>6 DEF Contract!Next
    <2> QED  BY <2>1, <2>4, <2>5, <2>6
<1>6. CASE UNCHANGED vars  BY <1>6 DEF vars, Terms, Holds
<1> QED  BY <1>3, <1>4, <1>5, <1>6 DEF Next

\* The coordinators of lease.go keep the promise of coord.go: with any
\* writes and answers delayed, lost or stored after they were given up, any
\* restarts, and any processes that stall, a process that keeps its timers
\* shares the lease with no live term but a staller's older one, and tokens
\* order the terms.
THEOREM LeaseImplements == Spec => Implements
<1>1. Init => Contract!Init  BY DEF Init, Contract!Init, Holds, Fresh
<1>2. LeaseInv /\ [Next]_vars => [Contract!Next]_(Contract!lvars)  BY LeaseStep
<1> QED  BY <1>1, <1>2, LeaseInvHolds, PTL DEF Spec, Implements, Contract!Spec
=============================================================================
