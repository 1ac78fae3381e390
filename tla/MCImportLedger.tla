--------------------------- MODULE MCImportLedger ---------------------------
(***************************************************************************)
(* Instances of ImportLedger for TLC: a statement whose row has a leg on a *)
(* bank account and one on an account opened late, and a statement of the  *)
(* first account alone.                                                    *)
(***************************************************************************)
EXTENDS ImportLedger, TLC

CONSTANTS bank, food, s1, s2

MCValueOf == (s1 :> <<bank, 1>>) @@ (s2 :> <<food, 1>>)

StatedValue == {<<bank, 1>>, <<food, 1>>}

OneRow == {<<{s1, s2}>>}
RowAndPart == OneRow \cup {<<{s1}>>}

BankOnly == {s1}
Both == Slot

Symmetry == Permutations(Tx) \cup Permutations(Posting)
=============================================================================
