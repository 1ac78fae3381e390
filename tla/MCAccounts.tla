----------------------------- MODULE MCAccounts -----------------------------
(***************************************************************************)
(* Instances of Accounts for TLC: two segment names, of which only one is a *)
(* root that derives a type, and the paths of one and of three segments    *)
(* over them.                                                              *)
(***************************************************************************)
EXTENDS Accounts, TLC

CONSTANTS assets, other, asset, expense

MCName == {assets, other}
MCRootType == (assets :> asset) @@ (other :> NoType)

\* One name only: every tree is a chain.
OneName == {assets}
OneRootType == assets :> asset

\* Two paths that share their first segment, and one no root type derives.
MCPath == {<<assets>>, <<assets, other, other>>, <<other, assets>>}

\* Fewer paths, for the runs about the accounts' lives.
NoPath == {}

Symmetry == Permutations(Account) \cup Permutations(Creator)
=============================================================================
