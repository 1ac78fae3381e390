---------------------------- MODULE MCBackupPool ----------------------------
(***************************************************************************)
(* Instances of BackupPool for TLC: a policy by count, one by age, and the *)
(* union of the two.                                                       *)
(***************************************************************************)
EXTENDS BackupPool, TLC

Limits(c, d) == [count |-> c, days |-> d]

ByEither == {Limits(1, None), Limits(None, 1), Limits(1, 1), Limits(None, None)}

Symmetry == Permutations(Db) \cup Permutations(Id) \cup Permutations(Command)
=============================================================================
