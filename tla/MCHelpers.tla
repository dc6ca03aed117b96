----------------------------- MODULE MCHelpers -----------------------------
(* Two helpers at once, two nodes, two processes.                          *)
EXTENDS HelperProcesses, TLC

Interchangeable == Permutations(Helpers) \cup Permutations(Nodes) \cup Permutations(Pids)
=============================================================================
