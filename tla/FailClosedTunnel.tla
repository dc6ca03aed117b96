------------------------- MODULE FailClosedTunnel -------------------------
(***************************************************************************)
(* What the manager promises of one connection's traffic, whatever         *)
(* requests, crashes and failed operations there are: a tunnel runs only   *)
(* behind the kill switch of its own node, a proxy only behind a kill      *)
(* switch, and the kill switch changes only while neither runs.            *)
(*                                                                         *)
(* The promise ends with a race: a start that looks for the kill switch    *)
(* and finds it, while another operation of the same connection is at work.*)
(***************************************************************************)
CONSTANTS Nodes, NoNode

VARIABLES
    guard,    \* the node of the kill switch, NoNode if there is none
    tunnel,   \* the node the tunnel goes to, NoNode if there is none
    proxy,    \* a proxy accepts clients
    raced     \* there has been a race

vars == <<guard, tunnel, proxy, raced>>

Init ==
    /\ guard = NoNode
    /\ tunnel = NoNode
    /\ proxy = FALSE
    /\ raced = FALSE

\* The kill switch is installed, replaced or removed.
Reguard ==
    /\ tunnel = NoNode /\ ~proxy
    /\ guard' \in Nodes \cup {NoNode}
    /\ UNCHANGED <<tunnel, proxy>>

\* A tunnel comes up to the node of the kill switch.
OpenTunnel ==
    /\ guard # NoNode
    /\ tunnel = NoNode
    /\ tunnel' = guard
    /\ UNCHANGED <<guard, proxy>>

OpenProxy ==
    /\ guard # NoNode
    /\ proxy' = TRUE
    /\ UNCHANGED <<guard, tunnel>>

\* A tunnel or a proxy ends, or both; the kill switch stays.
Close ==
    /\ tunnel' \in {tunnel, NoNode}
    /\ proxy' \in {proxy, FALSE}
    /\ UNCHANGED guard

\* Everything is torn down at once; the kill switch may stay.
TearDown ==
    /\ tunnel' = NoNode
    /\ proxy' = FALSE
    /\ guard' \in {guard, NoNode}

Orderly ==
    /\ ~raced /\ ~raced'
    /\ Reguard \/ OpenTunnel \/ OpenProxy \/ Close \/ TearDown

\* Nothing is promised of a step with a race, nor of the steps after it.
Void ==
    /\ raced'
    /\ guard' \in Nodes \cup {NoNode}
    /\ tunnel' \in Nodes \cup {NoNode}
    /\ proxy' \in BOOLEAN

Next == Orderly \/ Void

Spec == Init /\ [][Next]_vars

\* Until there is a race: no tunnel and no proxy without the kill switch, and no
\* tunnel to another node than that of the kill switch.
FailClosed ==
    ~raced =>
        /\ tunnel # NoNode => guard = tunnel
        /\ proxy => guard # NoNode
=============================================================================
