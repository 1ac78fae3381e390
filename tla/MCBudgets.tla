----------------------------- MODULE MCBudgets -----------------------------
(***************************************************************************)
(* A chain of three expense accounts, with an archived one beside the      *)
(* lowest, and two tags: tracking budgets at every depth for the page, and *)
(* on the lowest account budgets that carry, revised into every policy,    *)
(* another length and a custom grid.                                       *)
(***************************************************************************)
EXTENDS Budgets, TLC

CONSTANTS expenses, food, groceries, takeaway, h, k

MCParent ==
    (expenses :> NoAccount) @@ (food :> expenses) @@ (groceries :> food) @@ (takeaway :> food)
MCTagParent == (h :> NoTag) @@ (k :> NoTag)

Tracking(a, d, t) ==
    [account |-> a, from |-> d, tag |-> t, length |-> 2, custom |-> FALSE,
     rollover |-> ResetToZero, target |-> NoTarget]

Carrying(d, n, c, x, t) ==
    [account |-> groceries, from |-> d, tag |-> NoTag, length |-> n, custom |-> c,
     rollover |-> x, target |-> t]

MCOffer ==
    {Tracking(expenses, 0, h), Tracking(expenses, 2, NoTag), Tracking(food, 2, NoTag),
     Tracking(groceries, 0, h)}
    \cup {Tracking(food, 0, t) : t \in {NoTag, h, k}}
    \cup {Carrying(0, 2, FALSE, CarryForward, 5), Carrying(3, 2, FALSE, CapAtTarget, 3),
          Carrying(3, 2, FALSE, ResetToZero, 5), Carrying(3, 1, TRUE, CarryForward, 3),
          Carrying(5, 1, FALSE, CarryForward, 3)}

Spend(a, tags, d, x) == [account |-> a, tags |-> tags, day |-> d, amount |-> x]

MCPosting ==
    {Spend(a, tags, 1, 2) : a \in Account \ Archived, tags \in {{}, {h}, {h, k}}}
    \cup {Spend(takeaway, tags, 1, 2) : tags \in {{}, {h}}}
    \cup {Spend(groceries, {}, d, d) : d \in {3, 4, 5}}

MCWindow == {[start |-> 0, end |-> 4], [start |-> 3, end |-> 6]}
MCView == {NoQuery, {p \in MCPosting : p.tags = {}}}
Symmetry == Permutations(Revision)
=============================================================================
