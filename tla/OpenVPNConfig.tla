--------------------------- MODULE OpenVPNConfig ---------------------------
(***************************************************************************)
(* The OpenVPN configurations of the nodes (services/vpngate/openvpn.py).  *)
(* The importer reads the configuration of a feed row line by line and     *)
(* keeps a canonical text; before the helper starts OpenVPN it validates   *)
(* the text that the database holds once more.                             *)
(*                                                                         *)
(* A line is blank (or a comment), a word (a directive and its value), the *)
(* opening or the closing of an inline block, or the text inside of one.   *)
(* It is plain if the canonical text would have it as it is; a directive   *)
(* in another case or quoted, or a text with trailing blanks is not.       *)
(***************************************************************************)
EXTENDS Integers, Sequences, FiniteSets, SequencesExt

CONSTANTS
    MaxConfigBytes, MaxLineLength, MaxInlineBlockBytes

ASSUME LimitsAssumption ==
    MaxConfigBytes \in Nat /\ MaxLineLength \in Nat /\ MaxInlineBlockBytes \in Nat

Line(kind, name, value, plain, size) ==
    [kind |-> kind, name |-> name, value |-> value, plain |-> plain, size |-> size]

\* A configuration: its lines, and whether the last one ends with a newline.
Config(lines, ended) == [lines |-> lines, ended |-> ended]

Bytes(config) ==
    FoldLeft(LAMBDA sum, line : sum + line.size + 1,
             IF config.ended \/ config.lines = <<>> THEN 0 ELSE -1, config.lines)

-----------------------------------------------------------------------------
\* What a directive may say.

\* Addresses, and the protocols that a line may name.
Addresses == {"own", "other"}
Protocols == {"udp", "tcp"}

Remote(ip, protocol) == [ip |-> ip, protocol |-> protocol]

InlineBlocks == {"ca", "key"}
Dangerous == {"up"}

\* DIRECTIVE_VALIDATORS, and _parse_remote for the address that is expected.
Allowed(name, expected) ==
    CASE name = "client" -> {"none"}
      [] name = "dev"    -> {"tun"}
      [] name = "proto"  -> Protocols
      [] name = "verb"   -> {"number"}
      [] name = "remote" -> {Remote(expected, p) : p \in Protocols \cup {"none"}}
      [] OTHER           -> {}

Refused == [ok |-> FALSE]

-----------------------------------------------------------------------------
\* sanitize_openvpn_config

Empty ==
    [ok |-> TRUE, out |-> <<>>, seen |-> {}, block |-> "none", inner |-> 0,
     remote |-> "missing", proto |-> "missing"]

Canonical(line) ==
    [line EXCEPT !.plain = TRUE, !.size = IF line.plain THEN @ ELSE @ - 1]

\* A line inside an inline block, up to the line that closes it.
Inside(s, line) ==
    IF line.kind = "close" /\ line.name = s.block
    THEN [s EXCEPT !.out = Append(@, Canonical(line)), !.block = "none"]
    ELSE IF \/ line.kind \in {"open", "close"}
            \/ s.inner + line.size + 1 > MaxInlineBlockBytes
    THEN Refused
    ELSE [s EXCEPT !.out = Append(@, Canonical(line)), !.inner = @ + line.size + 1]

Opened(s, line) ==
    IF line.name \notin InlineBlocks \/ line.name \in s.seen
    THEN Refused
    ELSE [s EXCEPT !.out = Append(@, Canonical(line)), !.block = line.name,
                   !.seen = @ \cup {line.name}, !.inner = 0]

\* A directive may come again (for the mutants).
DirectiveRepeated(s, line, expected) ==
    IF line.name \in Dangerous \/ line.value \notin Allowed(line.name, expected)
    THEN Refused
    ELSE [s EXCEPT !.out = Append(@, Canonical(line)),
                   !.seen = @ \cup {line.name},
                   !.remote = IF line.name = "remote" THEN line.value.protocol ELSE @,
                   !.proto = IF line.name = "proto" THEN line.value ELSE @]

Directive(s, line, expected) ==
    IF \/ line.name \in Dangerous \cup s.seen
       \/ line.value \notin Allowed(line.name, expected)
    THEN Refused
    ELSE [s EXCEPT !.out = Append(@, Canonical(line)),
                   !.seen = @ \cup {line.name},
                   !.remote = IF line.name = "remote" THEN line.value.protocol ELSE @,
                   !.proto = IF line.name = "proto" THEN line.value ELSE @]

\* Text and a closing outside a block are not known as directives.
Read(s, line, expected) ==
    IF ~s.ok \/ line.size > MaxLineLength THEN Refused
    ELSE IF s.block # "none" THEN Inside(s, line)
    ELSE CASE line.kind = "blank" -> s
           [] line.kind = "open" -> Opened(s, line)
           [] line.kind = "word" -> Directive(s, line, expected)
           [] OTHER -> Refused

Complete(s) ==
    /\ s.ok
    /\ s.block = "none"
    /\ s.remote # "missing" /\ s.proto # "missing"
    /\ s.remote \in {"none", s.proto}
    /\ {"client", "dev", "ca"} \subseteq s.seen

\* The lines of the canonical text end with a newline, the last one too.
Sanitize(config, expected) ==
    LET end == FoldLeft(LAMBDA s, line : Read(s, line, expected), Empty, config.lines)
    IN  IF /\ Bytes(config) \in 1..MaxConfigBytes
           /\ Complete(end)
        THEN [ok |-> TRUE, text |-> Config(end.out, TRUE)]
        ELSE Refused

-----------------------------------------------------------------------------
\* validate_stored_openvpn_config

\* The address of the only remote line, looked for outside of inline blocks.
Scan(s, line) ==
    IF s.block # "none"
    THEN IF line.kind = "close" /\ line.name = s.block
         THEN [s EXCEPT !.block = "none"] ELSE s
    ELSE CASE line.kind = "open" -> [s EXCEPT !.block = line.name]
           [] line.kind = "word" /\ line.name = "remote" ->
                [s EXCEPT !.ips = Append(@, line.value.ip)]
           [] OTHER -> s

Stored(config) ==
    LET ips == FoldLeft(Scan, [block |-> "none", ips |-> <<>>], config.lines).ips
    IN  /\ Bytes(config) \in 1..MaxConfigBytes
        /\ Len(ips) = 1
        /\ LET s == Sanitize(config, ips[1]) IN s.ok /\ s.text = config

-----------------------------------------------------------------------------
\* What the start of a tunnel may count on, of any text that was sanitised.

InBlock(lines, i) ==
    \E j \in 1..(i - 1) :
        /\ lines[j].kind = "open"
        /\ \A k \in j..(i - 1) : lines[k].kind # "close"

\* A word inside of a block is only text.
Words(lines) == {i \in DOMAIN lines : lines[i].kind = "word" /\ ~InBlock(lines, i)}

Names(lines) == {lines[i].name : i \in Words(lines)}

\* Each block is closed by the next line that is not its text.
BlocksClosed(lines) ==
    \A i \in DOMAIN lines :
        lines[i].kind = "open" =>
            \E j \in DOMAIN lines :
                /\ i < j /\ lines[j].kind = "close" /\ lines[j].name = lines[i].name
                /\ \A k \in (i + 1)..(j - 1) : lines[k].kind \notin {"open", "close"}

\* OpenVPN would find one server, the node's, by one protocol, and each directive
\* once, with a value that is allowed and none that runs a program.
Harmless(lines, expected) ==
    /\ {"client", "dev", "proto", "remote"} \subseteq Names(lines)
    /\ Cardinality(Names(lines)) = Cardinality(Words(lines))
    /\ Names(lines) \cap Dangerous = {}
    /\ \E i \in DOMAIN lines : lines[i].kind = "open" /\ lines[i].name = "ca"
    /\ BlocksClosed(lines)
    /\ \A r, p \in Words(lines) :
          lines[r].name = "remote" /\ lines[p].name = "proto" =>
              /\ lines[r].value.ip = expected
              /\ lines[r].value.protocol \in {"none", lines[p].value}
=============================================================================
