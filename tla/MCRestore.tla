----------------------------- MODULE MCRestore ------------------------------
(***************************************************************************)
(* Instances of Restore for TLC: two hosts, or a host beside the restore   *)
(* command and another one.                                                *)
(***************************************************************************)
EXTENDS Restore

CONSTANTS h1, h2, r1, c1

TwoHosts == {h1, h2}
HostAndCommands == {h1, r1, c1}

MCCasts == {TwoHosts, HostAndCommands}
=============================================================================
