---------------------------- MODULE MCDashboard ----------------------------
(***************************************************************************)
(* A small instance of Dashboard for TLC: an administrator and somebody    *)
(* else.  Campaigns and waiting functions are interchangeable.             *)
(***************************************************************************)
EXTENDS Dashboard, TLC

Symmetry == Permutations(Campaigns) \union Permutations(Calls)
=============================================================================
