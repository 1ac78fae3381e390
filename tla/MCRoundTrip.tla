----------------------------- MODULE MCRoundTrip ----------------------------
(***************************************************************************)
(* Instances of RoundTrip for TLC.                                         *)
(***************************************************************************)
EXTENDS RoundTrip, TLC

\* One transaction of two equal legs, the first a statement's.
One == 1 :> <<[id |-> 1, value |-> 1], [id |-> 2, value |-> 1]>>
OneSourced == 1 :> [line |-> 1, txn |-> 1, leg |-> 1]

Scope(D, new, n, m, k, E) ==
    [drafts |-> D, new |-> new, twins |-> n, changes |-> m, runs |-> k, editors |-> E]

\* Two changes beside deletions and edits that drop a leg; one beside edits that change
\* or add one, and beside new transactions of two legs; added legs and new transactions
\* that compete for the same slots; twins; and three runs beside a change.
Dropped == Scope({<<>>, <<1>>}, <<1>>, 0, 2, 2, {})
Edited == Scope({<<>>, <<1>>, <<1, 2>>, <<2, 1, 1>>}, <<1>>, 0, 1, 2, {})
Added == Scope({}, <<1, 2>>, 1, 1, 2, {})
Competing == Scope({<<1, 1, 1>>}, <<1>>, 1, 0, 2, {})
Twins == Scope({}, <<1>>, 2, 0, 2, {})
Thrice == Scope({}, <<1>>, 1, 1, 3, {})
\* A command-line edit that writes an old reading: as the one change, beside files that
\* delete a transaction, drop a leg or change one; and as one of two changes.
Behind == Scope({<<>>, <<1>>, <<1, 2>>}, <<1>>, 0, 1, 2, Editor)
BehindTwo == Scope({<<1>>}, <<1>>, 0, 2, 2, Editor)
All == {Dropped, Edited, Added, Competing, Twins, Thrice, Behind, BehindTwo}

Runs == Permutations(Run)
=============================================================================
