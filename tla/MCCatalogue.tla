---------------------------- MODULE MCCatalogue ----------------------------
(***************************************************************************)
(* NodeCatalogue for TLC: a TCP node of which everything is asked, a UDP   *)
(* node and an IPv6 node that are scanned.  The feed puts the server       *)
(* where no provider puts anything.  The configurations  and the           *)
(* candidates of a switch are checked for all inputs of the sets below: a  *)
(* behaviour is either one of the catalogue or an input and nothing more.  *)
(***************************************************************************)
EXTENDS NodeCatalogue, OpenVPNConfig, CandidateSelection

VARIABLE input

CONSTANTS tcp, udp, v6, server, abroad

MCServerOf == [n \in Nodes |-> server]
MCCountryOf == [e \in Exits |-> IF e = server THEN "near" ELSE "far"]
MCAnswers == {{}, {"country"}, {"country", "asn", "ptr"}}
MCAsked == [n \in Nodes |-> CASE n = tcp -> Kinds [] n = udp -> {"fast"} [] OTHER -> {"full"}]
MCOffers == {{tcp}, Nodes}

-----------------------------------------------------------------------------
\* The configurations with two lines too many, or one of another kind, or one line
\* missing; with a newline at the end or without.
Whole ==
    <<Line("word", "client", "none", TRUE, 2), Line("word", "dev", "tun", TRUE, 2),
      Line("word", "proto", "udp", TRUE, 2), Line("word", "remote", Remote("own", "udp"), TRUE, 2),
      Line("open", "ca", "none", TRUE, 2), Line("text", "none", "none", TRUE, 2),
      Line("close", "ca", "none", TRUE, 2)>>

Pool ==
    {Line("blank", "none", "none", TRUE, 1), Line("text", "none", "none", FALSE, 3),
     Line("text", "none", "none", TRUE, 4), Line("open", "ca", "none", TRUE, 2),
     Line("close", "ca", "none", FALSE, 3), Line("open", "key", "none", TRUE, 2),
     Line("close", "key", "none", TRUE, 2), Line("open", "tun", "none", TRUE, 2),
     Line("word", "client", "none", TRUE, 2), Line("word", "dev", "tap", TRUE, 2),
     Line("word", "proto", "tcp", TRUE, 2), Line("word", "verb", "number", FALSE, 3),
     Line("word", "up", "none", TRUE, 2), Line("word", "remote", Remote("own", "none"), TRUE, 2),
     Line("word", "remote", Remote("other", "udp"), TRUE, 2),
     Line("word", "remote", Remote("own", "tcp"), TRUE, 2)}

Inserted(lines, pool) ==
    {InsertAt(lines, i, line) : i \in 1..(Len(lines) + 1), line \in pool}
Replaced(lines, pool) == {ReplaceAt(lines, i, line) : i \in DOMAIN lines, line \in pool}
Removed(lines) == {RemoveAt(lines, i) : i \in DOMAIN lines}

Texts ==
    LET once == Inserted(Whole, Pool) \cup Replaced(Whole, Pool) \cup Removed(Whole)
        again == {line \in Pool : line.name \in {"ca", "key", "remote"} /\ line.plain}
    IN  {Whole, <<>>} \cup once \cup UNION {Inserted(lines, again) : lines \in once}

\* Whatever lines a feed's configuration is made of, the text that the importer keeps
\* has one remote, the node's, no directive twice, its blocks closed, and no script;
\* and the helper accepts it, to the byte, before it starts OpenVPN.  But for the
\* newline that is added to a text of the greatest size: that one it always refuses.
SanitisedIsStable ==
    \A config \in input.configs :
        LET kept == Sanitize(config, "own")
        IN  kept.ok => /\ Harmless(kept.text.lines, "own")
                       /\ \/ Stored(kept.text)
                          \/ ~config.ended /\ Bytes(config) = MaxConfigBytes

-----------------------------------------------------------------------------
\* Two candidates beside the node that is in use, and all that can set them apart.
Candidates(i) ==
    {[id |-> i, hash |-> i, available |-> a, failures |-> f, ping |-> p, speed |-> q[1],
      score |-> q[2], country |-> c, type |-> t] :
        a \in BOOLEAN, f \in 0..1, p \in {Unknown, 1, 2},
        q \in {<<Unknown, 0>>, <<5, Unknown>>, <<5, 7>>},
        c \in IF i = 1 THEN {"near"} ELSE {"near", "far"},
        t \in IF i = 1 THEN {"HOSTING", "RESIDENTIAL"} ELSE {"RESIDENTIAL"}}

Current ==
    [id |-> 3, hash |-> 3, available |-> TRUE, failures |-> 0, ping |-> 1, speed |-> 9,
     score |-> 9, country |-> "near", type |-> "RESIDENTIAL"]

Policy(latency, speed, types) == [maxLatency |-> latency, minSpeed |-> speed, types |-> types]

Policies ==
    {Policy(Unknown, Unknown, {}), Policy(1, Unknown, {}), Policy(Unknown, 5, {}),
     Policy(2, Unknown, {"RESIDENTIAL"})}

Connections ==
    {[node |-> 3, mode |-> m, country |-> "near"] :
        m \in {"AUTO", "FIXED_COUNTRY", "FAVORITES", "FIXED_NODE"}}

\* The second entry is of a row that is gone.
Blocked == {{}, {[node |-> 1, hash |-> 1]}, {[node |-> Unknown, hash |-> 2]}}

\* A switch, automatic or to a node that is asked for, goes to the best node that the
\* connection and the policy allow, and is refused only if there is none: not for a
\* tie, for a value that is not known, or for the node in use being the best.
CandidateIsBest ==
    \A table \in input.tables, requested \in {Unknown, 1, 3} :
        \A connection \in Connections, policy \in Policies, blocked \in Blocked :
            Candidate(table, connection, policy, blocked, {2, 3}, requested)
                = Chosen(table, connection, policy, blocked, {2, 3}, requested)

-----------------------------------------------------------------------------
Input(configs, tables) == [configs |-> configs, tables |-> tables]

NoInput == Input({}, {})

MCInit ==
    /\ Init
    /\ \/ input = NoInput
       \/ \E lines \in Texts, ended \in BOOLEAN : input = Input({Config(lines, ended)}, {})
       \/ \E a \in Candidates(1), b \in Candidates(2) : input = Input({}, {{a, b, Current}})

MCNext == Next /\ input = NoInput /\ UNCHANGED input

MCSpec == MCInit /\ [][MCNext]_<<vars, input>>
=============================================================================
