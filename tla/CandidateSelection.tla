------------------------- MODULE CandidateSelection -------------------------
(***************************************************************************)
(* The node to which a connection is switched                              *)
(* (services/auto_switch/candidates.py): the nodes that the connection and *)
(* the health policy allow are sorted, and the first one is taken.         *)
(***************************************************************************)
EXTENDS Integers, Sequences, FiniteSets

CONSTANT Unknown    \* a column that is null, a limit that is not set

ASSUME UnknownAssumption == Unknown \notin Int

\* The sort puts a node without a ping last.
NoPing == 2147483647

\* Whether what was cached of a node is within the limits of the policy.
SatisfiesCachedPolicy(node, policy) ==
    /\ policy.maxLatency # Unknown => node.ping # Unknown /\ node.ping <= policy.maxLatency
    /\ policy.minSpeed # Unknown => node.speed # Unknown /\ node.speed >= policy.minSpeed
    /\ policy.types = {} \/ node.type \in policy.types

\* The rows that are looked at: the requested one, or all that are available.
Looked(table, requested) ==
    IF requested = Unknown
    THEN {node \in table : node.available}
    ELSE {node \in table : node.id = requested}

\* blocked is the table of entries, whose node may be gone: the hash still counts.
\* That the configuration is not empty tells no rows apart: the import stores none.
Eligible(table, connection, policy, blocked, favorites, requested) ==
    {node \in Looked(table, requested) :
        /\ node.id # connection.node
        /\ node.available
        /\ \A entry \in blocked : node.id # entry.node /\ node.hash # entry.hash
        /\ SatisfiesCachedPolicy(node, policy)
        /\ connection.mode = "FIXED_COUNTRY" => node.country = connection.country
        /\ connection.mode = "FAVORITES" => node.id \in favorites
        /\ connection.mode # "FIXED_NODE"}

Known(value, default) == IF value = Unknown THEN default ELSE value

\* A node without a ping is taken for a fast one (for the mutants).
KeyOfUnmeasured(node) ==
    <<node.failures, Known(node.ping, 0), -Known(node.speed, 0), -Known(node.score, 0), node.id>>

Key(node) ==
    <<node.failures, Known(node.ping, NoPing), -Known(node.speed, 0), -Known(node.score, 0),
      node.id>>

\* The order of tuples.
Before(key, other) ==
    \E i \in DOMAIN key :
        /\ key[i] < other[i]
        /\ \A j \in 1..(i - 1) : key[j] = other[j]

\* eligible.sort: no two rows have the same key.
Sorted(rows) ==
    CHOOSE order \in [1..Cardinality(rows) -> rows] :
        \A i, j \in DOMAIN order : i < j => Before(Key(order[i]), Key(order[j]))

\* select_candidate_node: a set with the node, empty if the switch is refused.
Candidate(table, connection, policy, blocked, favorites, requested) ==
    LET eligible == Eligible(table, connection, policy, blocked, favorites, requested)
    IN  IF \/ requested = Unknown /\ connection.mode = "FIXED_NODE"
           \/ eligible = {}
        THEN {} ELSE {Head(Sorted(eligible))}

-----------------------------------------------------------------------------
\* What a switch may count on, by the list of README.md:15: the current node, the
\* unavailable and the blocked ones are left out, and fewer failures come first,
\* then latency, speed, score and id.

Faster(a, b) == a.ping # Unknown /\ (b.ping = Unknown \/ a.ping < b.ping)

More(x, y) == Known(x, 0) > Known(y, 0)

Better(a, b) ==
    \/ a.failures < b.failures
    \/ /\ a.failures = b.failures
       /\ \/ Faster(a, b)
          \/ /\ a.ping = b.ping
             /\ \/ More(a.speed, b.speed)
                \/ /\ ~More(b.speed, a.speed)
                   /\ \/ More(a.score, b.score)
                      \/ ~More(b.score, a.score) /\ a.id < b.id

\* A connection may be switched to the node.
Suits(node, connection, blocked, favorites) ==
    /\ node.available /\ node.id # connection.node
    /\ node.id \notin {entry.node : entry \in blocked}
    /\ node.hash \notin {entry.hash : entry \in blocked}
    /\ CASE connection.mode = "FIXED_COUNTRY" -> node.country = connection.country
         [] connection.mode = "FAVORITES" -> node.id \in favorites
         [] connection.mode = "FIXED_NODE" -> FALSE
         [] OTHER -> TRUE

Chosen(table, connection, policy, blocked, favorites, requested) ==
    {node \in table :
        LET Allowed(n) == /\ requested \in {Unknown, n.id}
                          /\ Suits(n, connection, blocked, favorites)
                          /\ SatisfiesCachedPolicy(n, policy)
        IN  Allowed(node) /\ ~\E other \in table : Allowed(other) /\ Better(other, node)}
=============================================================================
