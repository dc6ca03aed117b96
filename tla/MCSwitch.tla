------------------------------ MODULE MCSwitch ------------------------------
(***************************************************************************)
(* AutoSwitch for TLC: the symmetry of its slots and nodes.                *)
(***************************************************************************)
EXTENDS AutoSwitch, TLC

Symmetry ==
    Permutations(Requests) \cup Permutations(Jobs) \cup Permutations(Nodes)
=============================================================================
