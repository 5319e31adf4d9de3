------------------------------ MODULE MCCalls ------------------------------
(* Instances of Calls for TLC. *)
EXTENDS Calls, TLC

CONSTANTS c1, c2, sys

MCCpvt  == {c1, c2}
Tasks2  == 1 .. 2
Tasks3  == 1 .. 3
Tasks6  == 1 .. 6
OneDialer  == {1}
TwoDialers == {1, 2}
Plain == {"none"}
Hold  == {"none", "holdother"}
AllOpts == Opts
NoClir == {FALSE}
AnyClir == BOOLEAN
Symmetry == Permutations(MCCpvt)
=============================================================================
