------------------------------ MODULE Budgets ------------------------------
(***************************************************************************)
(* The budgets of a ledger and their revisions, written by callers at once,*)
(* over fixed accounts, tags and postings.                                 *)
(***************************************************************************)
EXTENDS BudgetTree

CONSTANTS
    MaxBudgets,          \* bound: budgets created
    MaxArchived,         \* bound: budgets archived
    Revision, NoRevision,
    Offer,               \* the revisions callers ask for, each with its account; one
                         \*   on an archived account fails every page (load)
    Posting,             \* the ledger's postings
    Window,              \* the windows looked at
    View,                \* the postings a query leaves, or NoQuery
    Horizon,             \* bound: the last day looked at
    Remover, Idle        \* who removes a revision

ASSUME OfferAssumption == \A o \in Offer : o.account \in Account \ Archived

VARIABLES budgets, revisions, removing

vars == <<budgets, revisions, removing>>

Init ==
    /\ budgets = <<>>
    /\ revisions = [r \in Revision |-> NoRevision]
    /\ removing = [c \in Remover |-> Idle]

RevisionsOf(b) ==
    {r \in Revision : revisions[r] # NoRevision /\ revisions[r].budget = b}

Revs(b) ==
    LET rows == {revisions[r] : r \in RevisionsOf(b)}
        earlier(q) == {n \in rows : n.from < q.from}
    IN [i \in 1 .. Cardinality(rows) |->
            CHOOSE q \in rows : Cardinality(earlier(q)) = i - 1]

\* An id no row holds and no caller is about to remove.
Fresh(r) == revisions[r] = NoRevision /\ \A c \in Remover : removing[c] # r

Row(b, o) == o @@ [budget |-> b]

Create(o, r) ==
    /\ Len(budgets) < MaxBudgets
    /\ Fresh(r)
    /\ budgets' = Append(budgets, [account |-> o.account, archived |-> FALSE])
    /\ revisions' = [revisions EXCEPT ![r] = Row(Len(budgets'), o)]
    /\ UNCHANGED removing

Archive(b) ==
    /\ ~budgets[b].archived
    /\ Cardinality({d \in DOMAIN budgets : budgets[d].archived}) < MaxArchived
    /\ budgets' = [budgets EXCEPT ![b].archived = TRUE]
    /\ UNCHANGED <<revisions, removing>>

\* A new revision, or one amended in place; no two begin on one day.
Revise(b, r, o) ==
    /\ ~budgets[b].archived
    /\ o.account = budgets[b].account
    /\ r \in RevisionsOf(b) \/ Fresh(r)
    /\ \A s \in RevisionsOf(b) \ {r} : revisions[s].from # o.from
    /\ revisions' = [revisions EXCEPT ![r] = Row(b, o)]
    /\ UNCHANGED <<budgets, removing>>

\* What remove_revision reads and decides before its transaction begins ...
BeginRemove(c, r) ==
    /\ removing[c] = Idle
    /\ revisions[r] # NoRevision
    /\ Cardinality(RevisionsOf(revisions[r].budget)) > 1
    /\ removing' = [removing EXCEPT ![c] = r]
    /\ UNCHANGED <<budgets, revisions>>

\* ... and the deletion, of whatever is left of it by then.
EndRemove(c) ==
    /\ removing[c] # Idle
    /\ revisions' = [revisions EXCEPT ![removing[c]] = NoRevision]
    /\ removing' = [removing EXCEPT ![c] = Idle]
    /\ UNCHANGED budgets

Next ==
    \/ \E o \in Offer, r \in Revision : Create(o, r)
    \/ \E b \in DOMAIN budgets : Archive(b)
    \/ \E b \in DOMAIN budgets, r \in Revision, o \in Offer : Revise(b, r, o)
    \/ \E c \in Remover, r \in Revision : BeginRemove(c, r)
    \/ \E c \in Remover : EndRemove(c)

Spec == Init /\ [][Next]_vars
----------------------------------------------------------------------------
\* What is shown of a window

\* The revision a budget's row takes its tag from: the one that governs the
\* window's first day, else the first of the window, else the first of all.
Config(revs, w) ==
    LET g == GoverningRevision(revs, w.start)
        inside == {q.rev : q \in PeriodsOverlapping(revs, w.start, w.end)}
    IN IF g # 0 THEN revs[g]
       ELSE IF inside # {} THEN CHOOSE r \in inside : \A q \in inside : r.from <= q.from
       ELSE revs[1]

PostingsUnder(a) == {p \in Posting : Under(p.account, a)}

\* The postings budget b's row counts.
Counted(b, w) ==
    WindowPostings(Revs(b), PostingsUnder(budgets[b].account), NoQuery, w.start, w.end)

Loaded(w) ==
    LET isActive(b) == ~budgets[b].archived
        active == SelectSeq([b \in DOMAIN budgets |-> b], isActive)
        load(b) == LET revs == Revs(b)
                       tag == IF revs = <<>> THEN NoTag ELSE Config(revs, w).tag
                   IN [account |-> budgets[b].account,
                       tags |-> IF tag = NoTag THEN <<>> ELSE TagChain[tag],
                       postings |-> Counted(b, w)]
    IN [k \in DOMAIN active |-> load(active[k])]

InWindow(w) == {p \in Posting : w.start <= p.day /\ p.day < w.end}

NativePeriods(b, w) ==
    LET revs == Revs(b)
        row(q) == LET from == Later(q.start, w.start)
                      to == Earlier(q.end, w.end)
                  IN [from |-> from,
                      target |-> ProratedTarget(revs, from, to),
                      actuals |-> MapThenSumSet(LAMBDA p : p.amount,
                                    {p \in Counted(b, w) : from <= p.day /\ p.day < to})]
    IN {row(q) : q \in PeriodsOverlapping(revs, w.start, w.end)}

Status(b, query, ws, we) ==
    StatusForWindow(Revs(b), PostingsUnder(budgets[b].account), query, ws, we)

----------------------------------------------------------------------------
\* Properties

Children(t, r) == {c \in DOMAIN t.parent : t.parent[c] = r}

\* The postings behind each row of tree t: its own, or those of its children.
Behind(t) ==
    LET behind[r \in DOMAIN t.parent] ==
            IF r \in DOMAIN t.counts THEN t.counts[r]
            ELSE UNION {behind[c] : c \in Children(t, r)}
    IN behind

\* p is not one that a budget counts and a budget whose scope holds its does not.
\* Revisions that begin or change their filter on other days make such postings.
Consistent(L, p) ==
    \A i, j \in DOMAIN L :
        MoreSpecific(Scope(L, j), Scope(L, i)) /\ p \in L[j].postings
            => p \in L[i].postings

\* The children a row is the sum of: an unbudgeted row under a merged root is no
\* part of the root's own count.
Summed(t, r) == {c \in Children(t, r) : r.kind = "Budget" => c.kind # "Unbudgeted"}

SumsUp(t, behind, p, r) ==
    LET holding == {c \in Summed(t, r) : p \in behind[c]}
    IN Summed(t, r) # {} =>
         /\ holding # {} => p \in behind[r]
         /\ r \notin t.double.rows => Cardinality(holding) <= 1
         /\ p \in behind[r] \ t.double.keys => holding # {}

Shown(t, behind, p) ==
    \E r \in DOMAIN t.parent :
        p \in behind[r] /\ (t.parent[r] = NoRow \/ r.kind = "Unbudgeted")

\* The unmatched postings that fall under the row p would.
Beside(L, p, window) ==
    LET sk == Skeleton(L)
    IN {q \in Unmatched(L, window) :
           UnbudgetedParent(sk, q.account) = UnbudgetedParent(sk, p.account)}

\* Postings on archived accounts that no budget matches; no row is found for them.
Dropped(L, window) == {p \in Unmatched(L, window) : p.account \in Archived}

(***************************************************************************)
(* The budget page accounts for every posting but those it drops.  A row's *)
(* children sum to the row, but where the page says it counts a posting    *)
(* twice; and a posting under a type root that tracks flow and holds a     *)
(* budget is behind the root's row or an unbudgeted one, unless the        *)
(* unmatched postings that share its place sum to zero or it is an         *)
(* unmatched one on an archived account.  Nesting (envelope_parents),      *)
(* ownership (owners), merging and pruning (Skeleton), the place of what   *)
(* no budget matches (unbudgeted_parent) and the flag (double_counted) are *)
(* separate passes that must agree.                                        *)
(***************************************************************************)
PageAddsUp ==
    \A w \in Window :
        LET L == Loaded(w)
            t == Assemble(L, InWindow(w))
            behind == Behind(t)
        IN \A p \in InWindow(w) : Consistent(L, p) =>
              /\ \A r \in DOMAIN t.parent : SumsUp(t, behind, p, r)
              /\ p \in Tracked(L, InWindow(w)) \ Dropped(L, InWindow(w)) =>
                    \/ Shown(t, behind, p)
                    \/ MapThenSumSet(LAMBDA q : q.amount, Beside(L, p, InWindow(w))) = 0

PassesOn(q, n) == Carries(q.rev) /\ Carries(n.rev) /\ ~n.rev.custom

(***************************************************************************)
(* What a period is carried is its policy applied to what the period       *)
(* before it left, itself carried in: carry_chain_start, plan_loads and    *)
(* fold_rollover rebuild that from the whole history at every status, over *)
(* revisions of other lengths, policies and filters, and the user's view   *)
(* does not change it.                                                     *)
(***************************************************************************)
CarriesChain ==
    \A b \in DOMAIN budgets :
        LET revs == Revs(b)
            all == PeriodsOverlapping(revs, 0, Horizon)
            own == [q \in all |-> Status(b, NoQuery, q.start, q.end)]
        IN \A q, n \in all : q.end = n.start =>
              \A view \in View : Status(b, view, n.start, n.end).rollover =
                 IF PassesOn(q, n)
                 THEN ApplyRolloverPolicy(n.rev, own[q].available)
                 ELSE 0

(***************************************************************************)
(* The rows of a budget's own periods (native_periods) sum to what its     *)
(* status says of the window (status_for_window): the window may cut its   *)
(* first and last period, and revisions cut others, each prorated and      *)
(* rounded by itself.                                                      *)
(***************************************************************************)
SubRowsSum ==
    \A b \in DOMAIN budgets, w \in Window :
        LET rows == NativePeriods(b, w)
            whole == Status(b, NoQuery, w.start, w.end)
        IN /\ MapThenSumSet(LAMBDA n : n.target, rows) = whole.allocated
           /\ MapThenSumSet(LAMBDA n : n.actuals, rows) = whole.actuals
=============================================================================
