----------------------------- MODULE MCAccounts -----------------------------
(***************************************************************************)
(* Accounts for TLC: the symmetry of its constants.                        *)
(***************************************************************************)
EXTENDS Accounts, TLC

Symmetry ==
    UNION {Permutations(S) : S \in {Users, Hashes, Sessions, Requests}}
=============================================================================
