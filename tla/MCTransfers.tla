----------------------------- MODULE MCTransfers ----------------------------
(***************************************************************************)
(* Instances of Transfers for TLC.                                         *)
(***************************************************************************)
EXTENDS Transfers, TLC

CONSTANTS tag, note, aud, t1, t2, t3, c1, c2, e1

\* Two headers that differ in everything a merge joins; the second was reconciled,
\* and edited out of balance since.
Plain == [date |-> 2, tags |-> {}, meta |-> [e \in Entry |-> 0], settled |-> 0]
Full == [date |-> 1, tags |-> {tag}, meta |-> [e \in Entry |-> 1], settled |-> 2]
Two == {Plain, Full}

BothWays == {-1, 1}
Ends == {0, 2}

Scope(T, C, E, n) == [txns |-> T, callers |-> C, editors |-> E, edits |-> n]

Alone == {Scope({t1, t2}, {c1}, {}, 3)}

\* Two transactions and more edits, or two callers beside edits of both, or a
\* command-line edit and another; three, so that merges nest, with an edit between
\* them or two callers at once.
Both == {Scope({t1, t2}, {c1, c2}, {}, 2), Scope({t1, t2, t3}, {c1, c2}, {}, 0),
         Scope({t1, t2, t3}, {c1}, {}, 1), Scope({t1, t2}, {c1}, {e1}, 2)} \cup Alone

One == {[amount |-> 1, commodity |-> aud]}

Callers == Permutations(Caller)
=============================================================================
