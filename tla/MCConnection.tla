--------------------------- MODULE MCConnection ---------------------------
(***************************************************************************)
(* ConnectionLifecycle for TLC: the abstraction it is checked against and  *)
(* the symmetry of its slots and nodes.                                    *)
(***************************************************************************)
EXTENDS ConnectionLifecycle, TLC

\* After a race the properties of this run say nothing of the machine; a helper
\* that outlives its call is followed beside one request.
Followed ==
    /\ ~raced
    /\ NoneLate \/ \A r, s \in Requests : req[r].pc # "idle" /\ req[s].pc # "idle" => r = s

Symmetry == Permutations(Requests) \cup Permutations(Nodes)
=============================================================================
