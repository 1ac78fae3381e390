----------------------------- MODULE BudgetTree -----------------------------
(***************************************************************************)
(* The budget page of one window: which budget owns a posting, which       *)
(* budget's row nests under which, and the postings behind each row.       *)
(*                                                                         *)
(* L is the active budgets in the order of their creation, each with its   *)
(* account, the chain of the tag it filters on (empty when it takes all)   *)
(* and the postings it matched in the window.                              *)
(***************************************************************************)
EXTENDS BudgetTimeline

CONSTANTS
    Account, NoAccount, Parent,  \* the accounts and each one's parent
    Archived,                    \* those the page does not load (list_active)
    Flow,                        \* the Income and Expense type roots
    NoRow

ASSUME AccountAssumption ==
    /\ Parent \in [Account -> Account \cup {NoAccount}]
    /\ NoAccount \notin Account
    /\ Flow \subseteq {a \in Account : Parent[a] = NoAccount}
    /\ Archived \subseteq Account /\ \A a \in Account : Parent[a] \in Archived => a \in Archived

Chain[a \in Account] ==
    IF Parent[a] = NoAccount THEN <<a>> ELSE Append(Chain[Parent[a]], a)

Under(a, b) == IsPrefix(Chain[b], Chain[a])

----------------------------------------------------------------------------
\* The partition

Scope(L, i) == [accounts |-> Chain[L[i].account], tags |-> L[i].tags]

Covers(s, t) == IsPrefix(s.accounts, t.accounts) /\ IsPrefix(s.tags, t.tags)

MoreSpecific(b, a) == a # b /\ Covers(a, b)

\* Of the scopes around i the one on the deepest account, then with the deepest
\* tag, then the first; 0 when there is none.
EnvelopeParent(L, i) ==
    LET around == {j \in DOMAIN L : MoreSpecific(Scope(L, i), Scope(L, j))}
        depth(j) == <<Len(Chain[L[j].account]), Len(L[j].tags)>>
        before(j, k) == \/ depth(j)[1] > depth(k)[1]
                        \/ depth(j)[1] = depth(k)[1] /\ depth(j)[2] > depth(k)[2]
                        \/ depth(j) = depth(k) /\ j < k
    IN IF around = {} THEN 0
       ELSE CHOOSE j \in around : \A k \in around \ {j} : before(j, k)

Matched(L, p) == {i \in DOMAIN L : p \in L[i].postings}

\* The most specific of the budgets that matched p: one owns it outright, more
\* share it.
Owners(L, p) ==
    {i \in Matched(L, p) :
        \A j \in Matched(L, p) : ~MoreSpecific(Scope(L, j), Scope(L, i))}

----------------------------------------------------------------------------
\* The rows

AccountRow(a) == [kind |-> "Account", of |-> a]
BudgetRow(i) == [kind |-> "Budget", of |-> i]
UnallocatedRow(i) == [kind |-> "Unallocated", of |-> i]
UnbudgetedRow(a) == [kind |-> "Unbudgeted", of |-> a]

\* slip: a lone budget takes the account's row whatever it filters on.
StandingAnyTag(L, env, a) ==
    LET direct == {i \in DOMAIN L : env[i] = 0 /\ L[i].account = a}
    IN IF Cardinality(direct) = 1
       THEN BudgetRow(CHOOSE i \in direct : TRUE)
       ELSE AccountRow(a)

\* The row that stands for account a: an unfiltered budget that alone was placed
\* under a's row takes its place.
Standing(L, env, a) ==
    LET direct == {i \in DOMAIN L : env[i] = 0 /\ L[i].account = a}
    IN IF \E i \in direct : direct = {i} /\ L[i].tags = <<>>
       THEN BudgetRow(CHOOSE i \in direct : TRUE)
       ELSE AccountRow(a)

\* The account rows that were neither merged away nor left without a row below.
AccountRows(L, env, standing) ==
    {standing[a] : a \in {b \in DOMAIN standing :
        /\ standing[b] = AccountRow(b)
        /\ \E i \in DOMAIN L : env[i] = 0 /\ Under(L[i].account, b)}}

RowAbove(standing, a) == IF Parent[a] = NoAccount THEN NoRow ELSE standing[Parent[a]]

ParentRow(L, env, standing, r) ==
    IF r.kind = "Account" THEN RowAbove(standing, r.of)
    ELSE LET a == L[r.of].account
         IN IF env[r.of] # 0 THEN BudgetRow(env[r.of])
            ELSE IF standing[a] = r THEN RowAbove(standing, a)
            ELSE standing[a]

Skeleton(L) ==
    LET env == [i \in DOMAIN L |-> EnvelopeParent(L, i)]
        spine == UNION {Range(Chain[L[i].account]) : i \in DOMAIN L}
        standing == [a \in spine |-> Standing(L, env, a)]
        rows == AccountRows(L, env, standing) \cup {BudgetRow(i) : i \in DOMAIN L}
    IN [env |-> env, standing |-> standing,
        parent |-> [r \in rows |-> ParentRow(L, env, standing, r)]]

\* Where the walk up from account a looks, by depth: it asks the loaded accounts for
\* each next one, and an archived account is not among them.
Walked(a) == IF a \in Archived THEN {Len(Chain[a])} ELSE DOMAIN Chain[a]

\* The account whose row a posting on account a falls under when no budget matches
\* it: the nearest with an account row, else the nearest with a row.
UnbudgetedParent(sk, a) ==
    LET live == {k \in Walked(a) :
                    /\ Chain[a][k] \in DOMAIN sk.standing
                    /\ sk.standing[Chain[a][k]] \in DOMAIN sk.parent}
        accounts == {k \in live : sk.standing[Chain[a][k]].kind = "Account"}
    IN IF accounts # {} THEN Chain[a][Max(accounts)]
       ELSE IF live # {} THEN Chain[a][Max(live)]
       ELSE NoAccount

\* The postings of the window under a type root that tracks flow and holds a
\* budget, and those of them no budget matches.
Tracked(L, window) ==
    {p \in window :
        /\ Chain[p.account][1] \in Flow
        /\ \E i \in DOMAIN L : Chain[L[i].account][1] = Chain[p.account][1]}

Unmatched(L, window) == {p \in Tracked(L, window) : Matched(L, p) = {}}

\* The postings behind the unbudgeted rows: one under each row whose unmatched
\* postings do not sum to zero.  A posting that falls under none is dropped.
Unbudgeted(L, sk, window) ==
    LET at(a) == {p \in Unmatched(L, window) : UnbudgetedParent(sk, p.account) = a}
    IN [u \in {UnbudgetedRow(a) : a \in {b \in DOMAIN sk.standing :
                    MapThenSumSet(LAMBDA p : p.amount, at(b)) # 0}} |-> at(u.of)]

\* The postings an envelope owns outright.
Owned(L, i) == {p \in L[i].postings : Owners(L, p) = {i}}

Path(sk, row) ==
    LET up[r \in DOMAIN sk.parent] ==
            IF sk.parent[r] = NoRow THEN <<r>> ELSE Append(up[sk.parent[r]], r)
    IN up[row]

\* Each posting that two budgets count of which neither row is above the other,
\* and the row where the two rows' paths part, if there is one.
DoubleCounted(L, sk) ==
    LET path == [i \in DOMAIN L |-> Path(sk, BudgetRow(i))]
        meet(i, j) == LongestCommonPrefix({path[i], path[j]})
        pairs == {ij \in (DOMAIN L) \X (DOMAIN L) :
                    /\ ij[1] < ij[2]
                    /\ ~IsPrefix(path[ij[1]], path[ij[2]])
                    /\ ~IsPrefix(path[ij[2]], path[ij[1]])
                    /\ L[ij[1]].postings \cap L[ij[2]].postings # {}}
    IN [keys |-> UNION {L[ij[1]].postings \cap L[ij[2]].postings : ij \in pairs},
        rows |-> {Last(meet(ij[1], ij[2])) :
                    ij \in {q \in pairs : meet(q[1], q[2]) # <<>>}}]

\* The finished tree: every row's parent, and what the rows that sum nothing
\* else count.
Assemble(L, window) ==
    LET sk == Skeleton(L)
        unallocated == {sk.env[i] : i \in DOMAIN L} \ {0}
        unbudgeted == Unbudgeted(L, sk, window)
    IN [parent |-> sk.parent
            @@ [u \in {UnallocatedRow(i) : i \in unallocated} |-> BudgetRow(u.of)]
            @@ [u \in DOMAIN unbudgeted |-> sk.standing[u.of]],
        counts |-> [r \in {BudgetRow(i) : i \in DOMAIN L} |-> L[r.of].postings]
            @@ [u \in {UnallocatedRow(i) : i \in unallocated} |-> Owned(L, u.of)]
            @@ unbudgeted,
        double |-> DoubleCounted(L, sk)]
=============================================================================
