------------------------------ MODULE MCRules ------------------------------
(***************************************************************************)
(* KillSwitchRules for TLC: both nodes listen on SOCKS ports of this host, *)
(* the one that speaks TCP and the one that speaks UDP.                    *)
(***************************************************************************)
EXTENDS KillSwitchRules, TLC

CONSTANTS c1, c2, n1, n2

MCPorts == n1 :> c1 @@ n2 :> c2
=============================================================================
