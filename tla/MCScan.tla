------------------------------- MODULE MCScan -------------------------------
(***************************************************************************)
(* NodeScan for TLC: the symmetry of its scans and nodes.                  *)
(***************************************************************************)
EXTENDS NodeScan, TLC

Symmetry == Permutations(Scans) \cup Permutations(Nodes)
=============================================================================
