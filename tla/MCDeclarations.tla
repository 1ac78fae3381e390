--------------------------- MODULE MCDeclarations ---------------------------
(***************************************************************************)
(* Instances of Declarations for TLC: documents that open a leaf with its  *)
(* ancestors, open and close parents and children, and state different     *)
(* dates for one account.                                                  *)
(***************************************************************************)
EXTENDS Declarations, TLC

CONSTANT aud

\* The paths of one branch.
Names == {"Assets", "Cash", "Wallet"}
bank == <<"Assets">>
cash == <<"Assets", "Cash">>
sub == <<"Assets", "Cash", "Wallet">>
TwoDeep == {bank, cash}
ThreeDeep == {bank, cash, sub}

Open(p, on) == [kind |-> "open", path |-> p, date |-> on, codes |-> None]
OpenIn(p, on) == [kind |-> "open", path |-> p, date |-> on, codes |-> aud]
Shut(p, on) == [kind |-> "close", path |-> p, date |-> on, codes |-> None]

\* A leaf and its ancestor group, then the group's own opening; a later file
\* that closes both; and one with other dates.
Ledgers == {<<OpenIn(cash, 1), Open(bank, 1)>>,
            <<Shut(bank, 2), Shut(cash, 2)>>,
            <<OpenIn(cash, 2)>>}

\* Openings at different depths of one branch.
Deep == {<<Open(sub, 1)>>, <<Open(cash, 1)>>}
=============================================================================
