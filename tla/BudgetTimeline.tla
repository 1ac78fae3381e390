--------------------------- MODULE BudgetTimeline ---------------------------
(***************************************************************************)
(* A budget's revisions, the periods they tile and the status of a window: *)
(* what was allocated, what was spent and what was carried in.             *)
(*                                                                         *)
(* revs is a budget's revisions in the order of their first day, under     *)
(* which a revision reigns until the next one begins.  Days and amounts    *)
(* are integers; a period is a number of days, amounts are cents of one    *)
(* commodity, and a revision without a target has the target NoTarget.     *)
(***************************************************************************)
EXTENDS Integers, SequencesExt

CONSTANTS
    Tag, NoTag, TagParent,  \* the tags and each one's parent tag, or NoTag
    NoTarget,               \* the target of a revision that only tracks
    CarryForward, CapAtTarget, ResetToZero,  \* what a period lets in
    NoQuery                 \* the view that hides no posting

ASSUME TagAssumption == TagParent \in [Tag -> Tag \cup {NoTag}] /\ NoTag \notin Tag

Earlier(d, e) == IF d < e THEN d ELSE e
Later(d, e) == IF d > e THEN d ELSE e

\* The number of the revision governing day, 0 before the first.
GoverningRevision(revs, day) ==
    Max({0} \cup {i \in DOMAIN revs : revs[i].from <= day})

----------------------------------------------------------------------------
\* The periods

\* The days the i-th reign's grid starts a period on, before the day to.
Starts(revs, i, to) ==
    {s \in revs[i].from .. (to - 1) :
        /\ (s - revs[i].from) % revs[i].length = 0
        /\ i < Len(revs) => s < revs[i + 1].from}

\* slip: the next revision does not cut the period.
NaturalEnd(revs, i, s) == s + revs[i].length

\* A reign's last period stops short where the next revision begins.
PeriodEnd(revs, i, s) ==
    LET natural == s + revs[i].length
    IN IF i < Len(revs) THEN Earlier(natural, revs[i + 1].from) ELSE natural

PeriodsOverlapping(revs, from, to) ==
    {q \in UNION {{[start |-> s, end |-> PeriodEnd(revs, i, s), rev |-> revs[i]] :
                     s \in Starts(revs, i, to)} : i \in DOMAIN revs} :
        from < q.end /\ from < to}

Carries(rev) == rev.rollover # ResetToZero

\* slip: the walk goes on past a custom grid.
UnbrokenChain(revs, start) ==
    LET g == GoverningRevision(revs, start)
        prior == {q \in PeriodsOverlapping(revs, revs[1].from, start) : q.end <= start}
    IN IF g = 0 \/ ~Carries(revs[g]) \/ revs[g].custom
       THEN {}
       ELSE {q \in prior : \A n \in prior : n.start >= q.start => Carries(n.rev)}

\* The periods before start, back to the first whose surplus can reach it: all
\* of them pass theirs on, and none but the first has a custom grid.
CarryChain(revs, start) ==
    LET g == GoverningRevision(revs, start)
        prior == {q \in PeriodsOverlapping(revs, revs[1].from, start) : q.end <= start}
    IN IF g = 0 \/ ~Carries(revs[g]) \/ revs[g].custom
       THEN {}
       ELSE {q \in prior : \A n \in prior :
                /\ n.start >= q.start => Carries(n.rev)
                /\ n.start > q.start => ~n.rev.custom}

----------------------------------------------------------------------------
\* Targets

\* n / d to the nearest integer, a half to the even one.
Rounded(n, d) ==
    LET q == n \div d
        twice == 2 * (n % d)
    IN IF twice > d \/ (twice = d /\ q % 2 = 1) THEN q + 1 ELSE q

PeriodShare(rev, from, to) ==
    IF rev.target = NoTarget THEN 0 ELSE Rounded(rev.target * (to - from), rev.length)

ProratedTarget(revs, from, to) ==
    LET share(q) == PeriodShare(q.rev, Later(q.start, from), Earlier(q.end, to))
    IN MapThenSumSet(share, PeriodsOverlapping(revs, from, to))

----------------------------------------------------------------------------
\* The status of the window from ws until we, of the postings on the budget's
\* account and below it that query, the user's view, does not hide.

TagChain[t \in Tag] ==
    IF TagParent[t] = NoTag THEN <<t>> ELSE Append(TagChain[TagParent[t]], t)

\* A revision's filter admits what carries its tag or one below it.
Admits(rev, p) ==
    \/ rev.tag = NoTag
    \/ \E t \in p.tags : IsPrefix(TagChain[rev.tag], TagChain[t])

\* What is read: the carry chain whole, the window as the query narrows it.
Loads(revs, chain, first, ws, we, query) ==
    LET from == Min({q.start : q \in chain})
        ranges == IF chain = {}
                  THEN {[from |-> ws, to |-> we, narrow |-> query # NoQuery]}
                  ELSE IF query # NoQuery
                  THEN {[from |-> from, to |-> first, narrow |-> FALSE],
                        [from |-> ws, to |-> we, narrow |-> TRUE]}
                  ELSE {[from |-> from, to |-> we, narrow |-> FALSE]}
    IN UNION {{[rev |-> revs[i],
                from |-> Later(r.from, revs[i].from),
                to |-> IF i < Len(revs) THEN Earlier(r.to, revs[i + 1].from) ELSE r.to,
                narrow |-> r.narrow] : r \in ranges} : i \in DOMAIN revs}

\* Pairs, so that a posting two loads read would be counted twice.
Fetch(loads, postings, query) ==
    {<<l, p>> \in loads \X postings :
        /\ l.from <= p.day /\ p.day < l.to
        /\ Admits(l.rev, p)
        /\ l.narrow => p \in query}

Spent(read, from, to) ==
    MapThenSumSet(LAMBDA lp : lp[2].amount,
                  {lp \in read : from <= lp[2].day /\ lp[2].day < to})

\* The postings a budget's row counts: no chain is read.
WindowPostings(revs, postings, query, ws, we) ==
    LET read == Fetch(Loads(revs, {}, ws, ws, we, query), postings, query)
        during(p, q) == Later(q.start, ws) <= p.day /\ p.day < Earlier(q.end, we)
    IN {p \in {lp[2] : lp \in read} :
            \E q \in PeriodsOverlapping(revs, ws, we) : during(p, q)}

ApplyRolloverPolicy(rev, surplus) ==
    CASE rev.rollover = CarryForward -> surplus
      [] rev.rollover = CapAtTarget -> Earlier(Later(surplus, 0), rev.target)
      [] OTHER -> 0

\* What the chain's periods leave, each passing its surplus on to the next and
\* the last of them to the period under dst.
FoldRollover(dst, chain, read) ==
    LET before(q) == {n \in chain : n.end = q.start}
        surplus[q \in chain] ==
            PeriodShare(q.rev, q.start, q.end) - Spent(read, q.start, q.end)
            + MapThenSumSet(LAMBDA n : ApplyRolloverPolicy(q.rev, surplus[n]), before(q))
        last == CHOOSE q \in chain : \A n \in chain : n.start <= q.start
    IN IF chain = {} THEN 0 ELSE ApplyRolloverPolicy(dst, surplus[last])

StatusForWindow(revs, postings, query, ws, we) ==
    LET periods == PeriodsOverlapping(revs, ws, we)
        first == Min({q.start : q \in periods})
        chain == IF periods = {} THEN {} ELSE CarryChain(revs, first)
        read == Fetch(Loads(revs, chain, first, ws, we, query), postings, query)
        allocated == ProratedTarget(revs, ws, we)
        actuals == MapThenSumSet(
            LAMBDA q : Spent(read, Later(q.start, ws), Earlier(q.end, we)), periods)
        rollover == IF periods = {} THEN 0
                    ELSE FoldRollover(revs[GoverningRevision(revs, first)], chain, read)
    IN [allocated |-> allocated, actuals |-> actuals, rollover |-> rollover,
        available |-> allocated + rollover - actuals]
=============================================================================
