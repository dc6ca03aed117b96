----------------------- MODULE KillSwitchRulesProofs -----------------------
(***************************************************************************)
(* For any number of connections, clients and servers, and any number of   *)
(* flows: what the rules of KillSwitchRules promise of every packet.       *)
(*                                                                         *)
(* First each chain is read as the condition under which it accepts, drops *)
(* or translates (MayLeave, MayEnter, Maps, ToNode, MayPass).  These are   *)
(* the same for nftables and for iptables, but that iptables does not see  *)
(* IPv6 (Sees): the firewalls agree on the rest, and part there as said.   *)
(* Then the packets: whichever kill switches come and go, the kernel never *)
(* tracks another flow than an OpenVPN's with a server, a host's of the    *)
(* internet with a proxy, and a call that a namespace itself makes to a    *)
(* server whose port is that of a proxy without a list (Calls); and a flow *)
(* that a namespace takes for answered is known to the host as well        *)
(* (FlowInv).  A rule that accepts what is established therefore opens     *)
(* nothing else.                                                           *)
(***************************************************************************)
EXTENDS KillSwitchRules, TLAPS, SequenceTheorems

-----------------------------------------------------------------------------
\* Chains.

\* Chains put together.
LEMMA Concatenated ==
    ASSUME NEW S, NEW s \in Seq(S), NEW t \in Seq(S), NEW u \in Seq(S),
           Len(u) = Len(s) + Len(t),
           \A i \in 1..Len(s) : u[i] = s[i],
           \A i \in 1..Len(t) : u[Len(s) + i] = t[i]
    PROVE  s \o t = u
BY ConcatProperties, SeqEqual

LEMMA OneAndOne ==
    ASSUME NEW a, NEW b
    PROVE  <<a>> \o <<b>> = <<a, b>>
<1> DEFINE S == {a, b}
           s == <<a>>
           t == <<b>>
           u == <<a, b>>
<1>1. s \in Seq(S) /\ t \in Seq(S) /\ u \in Seq(S)
  OBVIOUS
<1>2. /\ \A i \in 1..Len(s) : u[i] = s[i]
      /\ \A i \in 1..Len(t) : u[Len(s) + i] = t[i]
  <2>1. Len(s) = 1 /\ Len(t) = 1 /\ s[1] = a /\ t[1] = b /\ u[1] = a /\ u[2] = b
    OBVIOUS
  <2>2. \A i \in 1..1 : i = 1
    OBVIOUS
  <2> HIDE DEF s, t, u
  <2> QED BY <2>1, <2>2
<1>3. Len(u) = Len(s) + Len(t)
  OBVIOUS
<1> HIDE DEF S, s, t, u
<1>4. s \o t = u
  BY <1>1, <1>2, <1>3, Concatenated
<1> QED BY <1>4 DEF s, t, u

LEMMA TwoAndOne ==
    ASSUME NEW a, NEW b, NEW c
    PROVE  <<a, b>> \o <<c>> = <<a, b, c>>
<1> DEFINE S == {a, b, c}
           s == <<a, b>>
           t == <<c>>
           u == <<a, b, c>>
<1>1. s \in Seq(S) /\ t \in Seq(S) /\ u \in Seq(S)
  OBVIOUS
<1>2. /\ \A i \in 1..Len(s) : u[i] = s[i]
      /\ \A i \in 1..Len(t) : u[Len(s) + i] = t[i]
  OBVIOUS
<1>3. Len(u) = Len(s) + Len(t)
  OBVIOUS
<1> HIDE DEF S, s, t, u
<1>4. s \o t = u
  BY <1>1, <1>2, <1>3, Concatenated
<1> QED BY <1>4 DEF s, t, u

LEMMA ThreeAndOne ==
    ASSUME NEW a, NEW b, NEW c, NEW d
    PROVE  <<a, b, c>> \o <<d>> = <<a, b, c, d>>
<1> DEFINE S == {a, b, c, d}
           s == <<a, b, c>>
           t == <<d>>
           u == <<a, b, c, d>>
<1>1. s \in Seq(S) /\ t \in Seq(S) /\ u \in Seq(S)
  OBVIOUS
<1>2. /\ \A i \in 1..Len(s) : u[i] = s[i]
      /\ \A i \in 1..Len(t) : u[Len(s) + i] = t[i]
  OBVIOUS
<1>3. Len(u) = Len(s) + Len(t)
  OBVIOUS
<1> HIDE DEF S, s, t, u
<1>4. s \o t = u
  BY <1>1, <1>2, <1>3, Concatenated
<1> QED BY <1>4 DEF s, t, u

LEMMA TwoAndTwo ==
    ASSUME NEW a, NEW b, NEW c, NEW d
    PROVE  <<a, b>> \o <<c, d>> = <<a, b, c, d>>
<1> DEFINE S == {a, b, c, d}
           s == <<a, b>>
           t == <<c, d>>
           u == <<a, b, c, d>>
<1>1. s \in Seq(S) /\ t \in Seq(S) /\ u \in Seq(S)
  OBVIOUS
<1>2. /\ \A i \in 1..Len(s) : u[i] = s[i]
      /\ \A i \in 1..Len(t) : u[Len(s) + i] = t[i]
  OBVIOUS
<1>3. Len(u) = Len(s) + Len(t)
  OBVIOUS
<1> HIDE DEF S, s, t, u
<1>4. s \o t = u
  BY <1>1, <1>2, <1>3, Concatenated
<1> QED BY <1>4 DEF s, t, u

LEMMA LeastOfFive ==
    ASSUME NEW S \in SUBSET (1..5), S # {}
    PROVE  \E i \in S : \A j \in S : i <= j
<1>0. \A i \in S : i \in {1, 2, 3, 4, 5}
  OBVIOUS
<1>1. CASE 1 \in S  BY <1>1
<1>2. CASE 1 \notin S /\ 2 \in S  BY <1>2
<1>3. CASE 1 \notin S /\ 2 \notin S /\ 3 \in S  BY <1>3
<1>4. CASE 1 \notin S /\ 2 \notin S /\ 3 \notin S /\ 4 \in S  BY <1>4
<1>5. CASE 1 \notin S /\ 2 \notin S /\ 3 \notin S /\ 4 \notin S
  <2>1. \A i \in S : i = 5
    BY <1>0, <1>5
  <2>2. PICK i \in S : TRUE
    OBVIOUS
  <2> QED BY <2>1, <2>2
<1> QED BY <1>1, <1>2, <1>3, <1>4, <1>5

\* The verdict of a chain is its policy's, or that of a rule that matches before
\* which none does.
LEMMA SomeRule ==
    ASSUME NEW chain, DOMAIN chain \subseteq 1..5, NEW frame, NEW policy,
           NEW k \in DOMAIN chain, Matches(chain[k], frame)
    PROVE  \E i \in DOMAIN chain :
               /\ Matches(chain[i], frame)
               /\ \A j \in DOMAIN chain : Matches(chain[j], frame) => i <= j
               /\ Verdict(chain, frame, policy) = chain[i].verdict
<1> DEFINE hits == {i \in DOMAIN chain : Matches(chain[i], frame)}
<1>1. hits # {} /\ hits \in SUBSET (1..5)
  OBVIOUS
<1>2. \E i \in hits : \A j \in hits : i <= j
  BY <1>1, LeastOfFive
<1> DEFINE first == CHOOSE i \in hits : \A j \in hits : i <= j
<1>3. first \in hits /\ \A j \in hits : first <= j
  BY <1>2
<1>4. Verdict(chain, frame, policy) = chain[first].verdict
  BY <1>1 DEF Verdict
<1> QED BY <1>3, <1>4

LEMMA NoRule ==
    ASSUME NEW chain, NEW frame, NEW policy,
           \A k \in DOMAIN chain : ~Matches(chain[k], frame)
    PROVE  Verdict(chain, frame, policy) = policy
BY DEF Verdict

\* All rules with one verdict.
LEMMA OneVerdict ==
    ASSUME NEW chain, DOMAIN chain \subseteq 1..5, NEW frame, NEW policy, NEW v,
           \A k \in DOMAIN chain : chain[k].verdict = v, policy # v
    PROVE  Verdict(chain, frame, policy) = v <=>
               \E k \in DOMAIN chain : Matches(chain[k], frame)
BY SomeRule, NoRule

LEMMA RuleFields ==
    ASSUME NEW m, NEW v, NEW frame
    PROVE  /\ Rule(m, v).verdict = v
           /\ Matches(Rule(m, v), frame) <=> \A x \in m : frame[x[1]] \in x[2]
BY DEF Rule, Matches

LEMMA HasOne ==
    ASSUME NEW frame, NEW v, NEW field, NEW value
    PROVE  Matches(Rule(Has(field, value), v), frame) <=> frame[field] = value
<1>1. Matches(Rule(Has(field, value), v), frame)
          <=> \A x \in {<<field, {value}>>} : frame[x[1]] \in x[2]
  BY RuleFields DEF Has
<1> QED BY <1>1

LEMMA HasBoth ==
    ASSUME NEW frame, NEW v, NEW m, NEW n
    PROVE  Matches(Rule(m \cup n, v), frame) <=>
               Matches(Rule(m, v), frame) /\ Matches(Rule(n, v), frame)
BY RuleFields

LEMMA HasAll ==
    ASSUME NEW frame, NEW v, NEW k, NEW l, NEW m, NEW n
    PROVE  Matches(Rule(k \cup l \cup m \cup n, v), frame) <=>
               /\ Matches(Rule(k, v), frame) /\ Matches(Rule(l, v), frame)
               /\ Matches(Rule(m, v), frame) /\ Matches(Rule(n, v), frame)
BY RuleFields

LEMMA HasAny ==
    ASSUME NEW frame, NEW v
    PROVE  Matches(Rule(Anything, v), frame)
BY RuleFields DEF Anything

LEMMA HasCt ==
    ASSUME NEW frame, NEW v
    PROVE  /\ Matches(Rule(NewOrKnown, v), frame) <=> frame.ct \in {"new", "established"}
           /\ Matches(Rule(Known, v), frame) <=> frame.ct = "established"
<1>1. Matches(Rule(NewOrKnown, v), frame)
          <=> \A x \in {<<"ct", {"new", "established"}>>} : frame[x[1]] \in x[2]
  BY RuleFields DEF NewOrKnown
<1>2. Matches(Rule(Known, v), frame) <=> frame["ct"] = "established"
  BY HasOne DEF Known
<1> QED BY <1>1, <1>2

LEMMA HasAllowed ==
    ASSUME NEW frame, NEW v, NEW s
    PROVE  Matches(Rule(FromAllowed(s), v), frame) <=>
               frame.family = "ip4" /\ (s.allow = {} \/ frame.src \in s.allow)
<1>0. Matches(Rule(Ip4, v), frame) <=> frame["family"] = "ip4"
  BY HasOne DEF Ip4
<1>1. CASE s.allow = {}
  BY <1>0, <1>1 DEF FromAllowed
<1>2. CASE s.allow # {}
  <2>1. Matches(Rule({<<"src", s.allow>>}, v), frame)
            <=> \A x \in {<<"src", s.allow>>} : frame[x[1]] \in x[2]
    BY RuleFields
  <2>2. Matches(Rule({<<"src", s.allow>>}, v), frame) <=> frame["src"] \in s.allow
    BY <2>1
  <2>3. Matches(Rule(FromAllowed(s), v), frame) <=>
            Matches(Rule(Ip4, v), frame) /\ Matches(Rule({<<"src", s.allow>>}, v), frame)
    BY <1>2, HasBoth DEF FromAllowed
  <2> QED BY <1>0, <1>2, <2>2, <2>3
<1> QED BY <1>1, <1>2

LEMMA HasEndpoint ==
    ASSUME NEW frame, NEW v, NEW s
    PROVE  /\ Matches(Rule(ToRemote(s), v), frame) <=>
                  /\ frame.dst = s.remote /\ frame.proto = s.proto
                  /\ frame.dport = RemotePort[s.remote]
           /\ Matches(Rule(FromRemote(s), v), frame) <=>
                  /\ frame.src = s.remote /\ frame.proto = s.proto
                  /\ frame.sport = RemotePort[s.remote]
<1> DEFINE port == RemotePort[s.remote]
<1>1. /\ Matches(Rule(Has("dst", s.remote), v), frame) <=> frame["dst"] = s.remote
      /\ Matches(Rule(Has("src", s.remote), v), frame) <=> frame["src"] = s.remote
      /\ Matches(Rule(Has("proto", s.proto), v), frame) <=> frame["proto"] = s.proto
      /\ Matches(Rule(Has("dport", port), v), frame)
             <=> frame["dport"] = port
      /\ Matches(Rule(Has("sport", port), v), frame)
             <=> frame["sport"] = port
  BY HasOne
<1>2. /\ ToRemote(s) = Has("dst", s.remote) \cup Has("proto", s.proto) \cup Has("dport", port)
      /\ FromRemote(s) = Has("src", s.remote) \cup Has("proto", s.proto) \cup Has("sport", port)
  BY DEF ToRemote, FromRemote
<1> HIDE DEF port
<1>3. /\ Matches(Rule(ToRemote(s), v), frame) <=>
             frame["dst"] = s.remote /\ frame["proto"] = s.proto /\ frame["dport"] = port
      /\ Matches(Rule(FromRemote(s), v), frame) <=>
             frame["src"] = s.remote /\ frame["proto"] = s.proto /\ frame["sport"] = port
  <2>1. /\ Matches(Rule(Has("dst", s.remote) \cup Has("proto", s.proto), v), frame)
               <=> frame["dst"] = s.remote /\ frame["proto"] = s.proto
        /\ Matches(Rule(Has("src", s.remote) \cup Has("proto", s.proto), v), frame)
               <=> frame["src"] = s.remote /\ frame["proto"] = s.proto
    BY <1>1, HasBoth
  <2> QED BY <1>1, <1>2, <2>1, HasBoth
<1> QED BY <1>3 DEF port

LEMMA HasSocks ==
    ASSUME NEW frame, NEW v, NEW c
    PROVE  Matches(Rule(ToSocks(c), v), frame) <=> frame.proto = "tcp" /\ frame.dport = c
<1>1. /\ Matches(Rule(Has("proto", "tcp"), v), frame) <=> frame["proto"] = "tcp"
      /\ Matches(Rule(Has("dport", c), v), frame) <=> frame["dport"] = c
  BY HasOne
<1> QED BY <1>1, HasBoth DEF ToSocks

\* Rules with one verdict before a rule that matches everything.
LEMMA EndedChain ==
    ASSUME NEW chain, NEW n \in 1..5, DOMAIN chain = 1..n, NEW frame, NEW policy,
           NEW v, \A k \in 1..(n - 1) : chain[k].verdict = v,
           chain[n].verdict # v, Matches(chain[n], frame)
    PROVE  Verdict(chain, frame, policy) = v <=>
               \E k \in 1..(n - 1) : Matches(chain[k], frame)
<1>1. DOMAIN chain \subseteq 1..5 /\ n \in DOMAIN chain
  OBVIOUS
<1>2. PICK i \in DOMAIN chain :
          /\ Matches(chain[i], frame)
          /\ \A j \in DOMAIN chain : Matches(chain[j], frame) => i <= j
          /\ Verdict(chain, frame, policy) = chain[i].verdict
  BY <1>1, SomeRule
<1>3. CASE i = n
  BY <1>2, <1>3
<1>4. CASE i # n
  <2>1. i \in 1..(n - 1)
    BY <1>4
  <2> QED BY <1>2, <2>1
<1> QED BY <1>3, <1>4

\* What the output chain of a namespace accepts.
MayLeave(c, frame) ==
    \/ frame.oif \in {"lo", "tun0"}
    \/ frame.ct = "established"
    \/ /\ frame.oif = "veth" /\ frame.dst = spec[c].remote
       /\ frame.proto = spec[c].proto /\ frame.dport = RemotePort[spec[c].remote]

LEMMA OutputChain ==
    ASSUME NEW b \in Backends, NEW c, NEW frame
    PROVE  Verdict(Rules(b, c, "output"), frame, InsidePolicy(b)) = "accept"
               <=> MayLeave(c, frame)
<1> DEFINE s == spec[c]
           r1 == Rule(Has("oif", "lo"), "accept")
           r2 == Rule(Known, "accept")
           r3 == Rule(Has("oif", "veth") \cup ToRemote(s), "accept")
           r4 == Rule(Has("oif", "tun0"), "accept")
           r5 == Rule(Anything, "drop")
<1>1. MayLeave(c, frame) <=> \/ Matches(r1, frame) \/ Matches(r2, frame)
                             \/ Matches(r3, frame) \/ Matches(r4, frame)
  <2>1. /\ Matches(r1, frame) <=> frame["oif"] = "lo"
        /\ Matches(Rule(Has("oif", "veth"), "accept"), frame) <=> frame["oif"] = "veth"
        /\ Matches(r4, frame) <=> frame["oif"] = "tun0"
    BY HasOne
  <2>2. Matches(r3, frame) <=> /\ frame["oif"] = "veth"
                               /\ Matches(Rule(ToRemote(s), "accept"), frame)
    BY <2>1, HasBoth
  <2> QED BY <2>1, <2>2, HasCt, HasEndpoint DEF MayLeave
<1>2. /\ r1.verdict = "accept" /\ r2.verdict = "accept" /\ r3.verdict = "accept"
      /\ r4.verdict = "accept" /\ r5.verdict = "drop" /\ Matches(r5, frame)
  BY RuleFields, HasAny
<1> HIDE DEF r1, r2, r3, r4, r5
<1>3. CASE b = "nftables"
  <2> DEFINE chain == <<r1, r2, r3, r4>>
  <2>1. Rules(b, c, "output") = chain /\ InsidePolicy(b) = "drop"
    BY <1>3 DEF Rules, RuleSets, NftRules, InsidePolicy, r1, r2, r3, r4
  <2>2. DOMAIN chain \subseteq 1..5 /\ \A k \in DOMAIN chain : chain[k].verdict = "accept"
    BY <1>2
  <2>3. Verdict(chain, frame, "drop") = "accept"
            <=> \E k \in DOMAIN chain : Matches(chain[k], frame)
    <3> HIDE DEF chain
    <3> QED BY <2>2, OneVerdict
  <2> QED BY <1>1, <2>1, <2>3
<1>4. CASE b = "iptables"
  <2> DEFINE chain == <<r1, r2, r3, r4, r5>>
  <2>1. Rules(b, c, "output") = chain /\ InsidePolicy(b) = "accept"
    BY <1>4 DEF Rules, RuleSets, IptablesInside, InsidePolicy, r1, r2, r3, r4, r5
  <2>2. /\ DOMAIN chain = 1..5 /\ chain[5] = r5
        /\ \A k \in 1..4 : chain[k].verdict = "accept"
    BY <1>2
  <2>3. Verdict(chain, frame, "accept") = "accept"
            <=> \E k \in 1..4 : Matches(chain[k], frame)
    <3> HIDE DEF chain
    <3> QED BY <1>2, <2>2, EndedChain
  <2> QED BY <1>1, <2>1, <2>3
<1> QED BY <1>3, <1>4 DEF Backends

\* What the input chain accepts.
MayEnter(c, frame) ==
    \/ frame.iif = "lo"
    \/ frame.ct = "established"
    \/ /\ spec[c].socks
       /\ frame.iif = "veth" /\ frame.src = Gateway(c)
       /\ frame.proto = "tcp" /\ frame.dport = c

LEMMA InputChain ==
    ASSUME NEW b \in Backends, NEW c, NEW frame
    PROVE  Verdict(Rules(b, c, "input"), frame, InsidePolicy(b)) = "accept"
               <=> MayEnter(c, frame)
<1> DEFINE s == spec[c]
           r1 == Rule(Has("iif", "lo"), "accept")
           r2 == Rule(Known, "accept")
           r3 == Rule(Has("iif", "veth") \cup Has("src", Gateway(c)) \cup ToSocks(c), "accept")
           r4 == Rule(Anything, "drop")
           chain == Rules(b, c, "input")
<1>1. /\ Matches(r1, frame) <=> frame.iif = "lo"
      /\ Matches(r2, frame) <=> frame.ct = "established"
      /\ Matches(r3, frame) <=> /\ frame.iif = "veth" /\ frame.src = Gateway(c)
                                /\ frame.proto = "tcp" /\ frame.dport = c
  <2>1. /\ Matches(r1, frame) <=> frame["iif"] = "lo"
        /\ Matches(Rule(Has("iif", "veth"), "accept"), frame) <=> frame["iif"] = "veth"
        /\ Matches(Rule(Has("src", Gateway(c)), "accept"), frame) <=> frame["src"] = Gateway(c)
    BY HasOne
  <2>2. Matches(r3, frame) <=> /\ frame["iif"] = "veth" /\ frame["src"] = Gateway(c)
                               /\ Matches(Rule(ToSocks(c), "accept"), frame)
    BY <2>1, HasBoth
  <2> QED BY <2>1, <2>2, HasCt, HasSocks
<1>2. /\ r1.verdict = "accept" /\ r2.verdict = "accept" /\ r3.verdict = "accept"
      /\ r4.verdict = "drop" /\ Matches(r4, frame)
  BY RuleFields, HasAny
<1> HIDE DEF r1, r2, r3, r4
<1>3. /\ b = "nftables" =>
             chain = <<r1, r2>> \o IfSocks(s, <<r3>>) /\ InsidePolicy(b) = "drop"
      /\ b = "iptables" =>
             chain = <<r1, r2>> \o IfSocks(s, <<r3>>) \o <<r4>> /\ InsidePolicy(b) = "accept"
  BY DEF Rules, RuleSets, NftRules, IptablesInside, InsidePolicy, r1, r2, r3, r4
<1>4. CASE s.socks /\ b = "nftables"
  <2>1. chain = <<r1, r2, r3>>
    BY <1>3, <1>4 DEF IfSocks
  <2>2. DOMAIN chain \subseteq 1..5 /\ \A k \in DOMAIN chain : chain[k].verdict = "accept"
    BY <1>2, <2>1
  <2>3. Verdict(chain, frame, "drop") = "accept"
            <=> \E k \in DOMAIN chain : Matches(chain[k], frame)
    <3> HIDE DEF chain
    <3> QED BY <2>2, OneVerdict
  <2> QED BY <1>1, <1>3, <1>4, <2>1, <2>3 DEF MayEnter
<1>5. CASE ~s.socks /\ b = "nftables"
  <2>1. chain = <<r1, r2>>
    BY <1>3, <1>5 DEF IfSocks
  <2>2. DOMAIN chain \subseteq 1..5 /\ \A k \in DOMAIN chain : chain[k].verdict = "accept"
    BY <1>2, <2>1
  <2>3. Verdict(chain, frame, "drop") = "accept"
            <=> \E k \in DOMAIN chain : Matches(chain[k], frame)
    <3> HIDE DEF chain
    <3> QED BY <2>2, OneVerdict
  <2> QED BY <1>1, <1>3, <1>5, <2>1, <2>3 DEF MayEnter
<1>6. CASE s.socks /\ b = "iptables"
  <2>1. chain = <<r1, r2, r3, r4>>
    <3>1. <<r1, r2>> \o IfSocks(s, <<r3>>) = <<r1, r2, r3>>
      BY <1>6, TwoAndOne DEF IfSocks
    <3>2. <<r1, r2, r3>> \o <<r4>> = <<r1, r2, r3, r4>>
      BY ThreeAndOne
    <3> HIDE DEF chain
    <3> QED BY <1>3, <1>6, <3>1, <3>2
  <2>2. /\ DOMAIN chain = 1..4 /\ chain[4] = r4
        /\ \A k \in 1..3 : chain[k].verdict = "accept"
    BY <1>2, <2>1
  <2>3. Verdict(chain, frame, "accept") = "accept"
            <=> \E k \in 1..3 : Matches(chain[k], frame)
    <3> HIDE DEF chain
    <3> QED BY <1>2, <2>2, EndedChain
  <2> QED BY <1>1, <1>3, <1>6, <2>1, <2>3 DEF MayEnter
<1>7. CASE ~s.socks /\ b = "iptables"
  <2>1. chain = <<r1, r2, r4>>
    BY <1>3, <1>7 DEF IfSocks
  <2>2. /\ DOMAIN chain = 1..3 /\ chain[3] = r4
        /\ \A k \in 1..2 : chain[k].verdict = "accept"
    BY <1>2, <2>1
  <2>3. Verdict(chain, frame, "accept") = "accept"
            <=> \E k \in 1..2 : Matches(chain[k], frame)
    <3> HIDE DEF chain
    <3> QED BY <1>2, <2>2, EndedChain
  <2> QED BY <1>1, <1>3, <1>7, <2>1, <2>3 DEF MayEnter
<1> QED BY <1>4, <1>5, <1>6, <1>7 DEF Backends

\* On the host both firewalls have the same rules.
HostHooks == {"prerouting", "hostInput", "postrouting", "forward"}

LEMMA HostRules ==
    ASSUME NEW b \in Backends, NEW c, NEW hook \in HostHooks
    PROVE  Rules(b, c, hook) = NftRules(c, spec[c], hook)
BY DEF Backends, HostHooks, Rules, RuleSets, NftRules, IptablesHost

\* What it takes for the destination of a packet to become the proxy of c.
Maps(c, frame) ==
    /\ spec[c].socks
    /\ frame.family = "ip4" /\ frame.proto = "tcp" /\ frame.dport = c
    /\ spec[c].allow = {} \/ frame.src \in spec[c].allow

LEMMA PreroutingChain ==
    ASSUME NEW b \in Backends, NEW c, NEW frame
    PROVE  Verdict(Rules(b, c, "prerouting"), frame, "none") = "dnat" <=> Maps(c, frame)
<1> DEFINE s == spec[c]
           r1 == Rule(FromAllowed(s) \cup ToSocks(c), "dnat")
           chain == Rules(b, c, "prerouting")
<1>1. r1.verdict = "dnat" /\ (s.socks => (Matches(r1, frame) <=> Maps(c, frame)))
  <2>1. r1.verdict = "dnat"
    BY RuleFields
  <2>2. Matches(r1, frame) <=> /\ Matches(Rule(FromAllowed(s), "dnat"), frame)
                               /\ Matches(Rule(ToSocks(c), "dnat"), frame)
    BY HasBoth
  <2>3. Matches(Rule(FromAllowed(s), "dnat"), frame) <=>
            frame.family = "ip4" /\ (s.allow = {} \/ frame.src \in s.allow)
    BY HasAllowed
  <2>4. Matches(Rule(ToSocks(c), "dnat"), frame) <=> frame.proto = "tcp" /\ frame.dport = c
    BY HasSocks
  <2> HIDE DEF r1
  <2> QED BY <2>1, <2>2, <2>3, <2>4 DEF Maps
<1> HIDE DEF r1
<1>2. chain = IfSocks(s, <<r1>>)
  BY HostRules DEF HostHooks, NftRules, r1
<1>3. CASE s.socks
  <2>1. chain = <<r1>>
    BY <1>2, <1>3 DEF IfSocks
  <2>2. DOMAIN chain \subseteq 1..5 /\ \A k \in DOMAIN chain : chain[k].verdict = "dnat"
    BY <1>1, <2>1
  <2>3. Verdict(chain, frame, "none") = "dnat"
            <=> \E k \in DOMAIN chain : Matches(chain[k], frame)
    <3> HIDE DEF chain
    <3> QED BY <2>2, OneVerdict
  <2> QED BY <1>1, <1>3, <2>1, <2>3
<1>4. CASE ~s.socks
  <2>1. chain = << >>
    BY <1>2, <1>4 DEF IfSocks
  <2>2. \A k \in DOMAIN chain : ~Matches(chain[k], frame)
    BY <2>1
  <2>3. Verdict(chain, frame, "none") = "none"
    <3> HIDE DEF chain
    <3> QED BY <2>2, NoRule
  <2> QED BY <1>4, <2>3 DEF Maps
<1> QED BY <1>3, <1>4

LEMMA HostInputChain ==
    ASSUME NEW b \in Backends, NEW c, NEW frame
    PROVE  Verdict(Rules(b, c, "hostInput"), frame, "none") = "drop"
               <=> spec[c].socks /\ frame.proto = "tcp" /\ frame.dport = c
<1> DEFINE s == spec[c]
           r1 == Rule(ToSocks(c), "drop")
           chain == Rules(b, c, "hostInput")
<1>1. /\ r1.verdict = "drop"
      /\ Matches(r1, frame) <=> frame.proto = "tcp" /\ frame.dport = c
  BY RuleFields, HasSocks
<1> HIDE DEF r1
<1>2. chain = IfSocks(s, <<r1>>)
  BY HostRules DEF HostHooks, NftRules, r1
<1>3. CASE s.socks
  <2>1. chain = <<r1>>
    BY <1>2, <1>3 DEF IfSocks
  <2>2. DOMAIN chain \subseteq 1..5 /\ \A k \in DOMAIN chain : chain[k].verdict = "drop"
    BY <1>1, <2>1
  <2>3. Verdict(chain, frame, "none") = "drop"
            <=> \E k \in DOMAIN chain : Matches(chain[k], frame)
    <3> HIDE DEF chain
    <3> QED BY <2>2, OneVerdict
  <2> QED BY <1>1, <1>3, <2>1, <2>3
<1>4. CASE ~s.socks
  <2>1. chain = << >>
    BY <1>2, <1>4 DEF IfSocks
  <2>2. \A k \in DOMAIN chain : ~Matches(chain[k], frame)
    BY <2>1
  <2>3. Verdict(chain, frame, "none") = "none"
    <3> HIDE DEF chain
    <3> QED BY <2>2, NoRule
  <2> QED BY <1>4, <2>3
<1> QED BY <1>3, <1>4

ToNode(c, frame) ==
    /\ frame.dst = spec[c].remote /\ frame.proto = spec[c].proto
    /\ frame.dport = RemotePort[spec[c].remote]

\* Where the source of a packet is translated, and to what.
LEMMA PostroutingChain ==
    ASSUME NEW b \in Backends, NEW c, NEW frame
    PROVE  LET verdict == Verdict(Rules(b, c, "postrouting"), frame, "none")
           IN  /\ verdict = "masquerade" <=> frame.src = Inside(c) /\ ToNode(c, frame)
               /\ verdict = "snat" <=>
                      /\ ~(frame.src = Inside(c) /\ ToNode(c, frame))
                      /\ spec[c].socks /\ frame.dst = Inside(c)
                      /\ frame.proto = "tcp" /\ frame.dport = c
<1> DEFINE s == spec[c]
           r1 == Rule(Has("src", Inside(c)) \cup ToRemote(s), "masquerade")
           r2 == Rule(Has("dst", Inside(c)) \cup ToSocks(c), "snat")
           chain == Rules(b, c, "postrouting")
           verdict == Verdict(chain, frame, "none")
<1>1. /\ Matches(r1, frame) <=> frame.src = Inside(c) /\ ToNode(c, frame)
      /\ Matches(r2, frame) <=> frame.dst = Inside(c) /\ frame.proto = "tcp" /\ frame.dport = c
  <2>1. /\ Matches(Rule(Has("src", Inside(c)), "masquerade"), frame) <=> frame["src"] = Inside(c)
        /\ Matches(Rule(Has("dst", Inside(c)), "snat"), frame) <=> frame["dst"] = Inside(c)
    BY HasOne
  <2>2. /\ Matches(r1, frame) <=> /\ frame["src"] = Inside(c)
                                  /\ Matches(Rule(ToRemote(s), "masquerade"), frame)
        /\ Matches(r2, frame) <=> /\ frame["dst"] = Inside(c)
                                  /\ Matches(Rule(ToSocks(c), "snat"), frame)
    BY <2>1, HasBoth
  <2> HIDE DEF r1, r2
  <2> QED BY <2>2, HasEndpoint, HasSocks DEF ToNode
<1>2. r1.verdict = "masquerade" /\ r2.verdict = "snat"
  BY RuleFields
<1> HIDE DEF r1, r2
<1>3. chain = <<r1>> \o IfSocks(s, <<r2>>)
  BY HostRules DEF HostHooks, NftRules, r1, r2
<1>4. CASE s.socks
  <2>1. chain = <<r1, r2>>
    BY <1>3, <1>4, OneAndOne DEF IfSocks
  <2>2. DOMAIN chain = 1..2 /\ chain[1] = r1 /\ chain[2] = r2
    BY <2>1
  <2> HIDE DEF chain
  <2>3. CASE Matches(r1, frame)
    <3>1. verdict = "masquerade"
      BY <1>2, <2>2, <2>3, SomeRule
    <3> QED BY <1>1, <2>3, <3>1 DEF chain
  <2>4. CASE ~Matches(r1, frame) /\ Matches(r2, frame)
    <3>1. verdict = "snat"
      BY <1>2, <2>2, <2>4, SomeRule
    <3> QED BY <1>1, <1>4, <2>4, <3>1 DEF chain
  <2>5. CASE ~Matches(r1, frame) /\ ~Matches(r2, frame)
    <3>1. verdict = "none"
      BY <2>2, <2>5, NoRule
    <3> QED BY <1>1, <2>5, <3>1 DEF chain
  <2> QED BY <2>3, <2>4, <2>5
<1>5. CASE ~s.socks
  <2>1. chain = <<r1>>
    BY <1>3, <1>5 DEF IfSocks
  <2>2. DOMAIN chain = 1..1 /\ chain[1] = r1
    BY <2>1
  <2> HIDE DEF chain
  <2>3. CASE Matches(r1, frame)
    <3>1. verdict = "masquerade"
      BY <1>2, <2>2, <2>3, SomeRule
    <3> QED BY <1>1, <2>3, <3>1 DEF chain
  <2>4. CASE ~Matches(r1, frame)
    <3>1. verdict = "none"
      BY <2>2, <2>4, NoRule
    <3> QED BY <1>1, <1>5, <2>4, <3>1 DEF chain
  <2> QED BY <2>3, <2>4
<1> QED BY <1>4, <1>5

\* What the forward chain accepts: both directions of the tunnel's own flow, and
\* both directions of the proxy's.
MayPass(c, frame) ==
    \/ /\ frame.iif = c /\ frame.src = Inside(c) /\ ToNode(c, frame)
       /\ frame.ct \in {"new", "established"}
    \/ /\ frame.oif = c /\ frame.dst = Inside(c)
       /\ frame.src = spec[c].remote /\ frame.proto = spec[c].proto
       /\ frame.sport = RemotePort[spec[c].remote] /\ frame.ct = "established"
    \/ /\ spec[c].socks /\ frame.oif = c /\ frame.dst = Inside(c)
       /\ frame.proto = "tcp" /\ frame.dport = c
       /\ frame.ct \in {"new", "established"}
    \/ /\ spec[c].socks /\ frame.iif = c /\ frame.src = Inside(c)
       /\ frame.ct = "established"

LEMMA ForwardChain ==
    ASSUME NEW b \in Backends, NEW c, NEW frame
    PROVE  Verdict(Rules(b, c, "forward"), frame, "none") = "accept" <=> MayPass(c, frame)
<1> DEFINE s == spec[c]
           r1 == Rule(Has("iif", c) \cup Has("src", Inside(c)) \cup ToRemote(s)
                      \cup NewOrKnown, "accept")
           r2 == Rule(Has("oif", c) \cup Has("dst", Inside(c)) \cup FromRemote(s)
                      \cup Known, "accept")
           r3 == Rule(Has("oif", c) \cup Has("dst", Inside(c)) \cup ToSocks(c)
                      \cup NewOrKnown, "accept")
           r4 == Rule(Has("iif", c) \cup Has("src", Inside(c)) \cup Known, "accept")
           chain == Rules(b, c, "forward")
<1>1. /\ Matches(r1, frame) <=>
             /\ frame.iif = c /\ frame.src = Inside(c) /\ ToNode(c, frame)
             /\ frame.ct \in {"new", "established"}
      /\ Matches(r2, frame) <=>
             /\ frame.oif = c /\ frame.dst = Inside(c)
             /\ frame.src = spec[c].remote /\ frame.proto = spec[c].proto
             /\ frame.sport = RemotePort[spec[c].remote] /\ frame.ct = "established"
      /\ Matches(r3, frame) <=>
             /\ frame.oif = c /\ frame.dst = Inside(c)
             /\ frame.proto = "tcp" /\ frame.dport = c
             /\ frame.ct \in {"new", "established"}
      /\ Matches(r4, frame) <=>
             frame.iif = c /\ frame.src = Inside(c) /\ frame.ct = "established"
  <2>1. /\ Matches(Rule(Has("iif", c), "accept"), frame) <=> frame["iif"] = c
        /\ Matches(Rule(Has("oif", c), "accept"), frame) <=> frame["oif"] = c
        /\ Matches(Rule(Has("src", Inside(c)), "accept"), frame) <=> frame["src"] = Inside(c)
        /\ Matches(Rule(Has("dst", Inside(c)), "accept"), frame) <=> frame["dst"] = Inside(c)
    BY HasOne
  <2>2. Matches(r1, frame) <=>
            /\ frame["iif"] = c /\ frame["src"] = Inside(c)
            /\ Matches(Rule(ToRemote(s), "accept"), frame)
            /\ Matches(Rule(NewOrKnown, "accept"), frame)
    BY <2>1, HasAll
  <2>3. Matches(r2, frame) <=>
            /\ frame["oif"] = c /\ frame["dst"] = Inside(c)
            /\ Matches(Rule(FromRemote(s), "accept"), frame)
            /\ Matches(Rule(Known, "accept"), frame)
    BY <2>1, HasAll
  <2>4. Matches(r3, frame) <=>
            /\ frame["oif"] = c /\ frame["dst"] = Inside(c)
            /\ Matches(Rule(ToSocks(c), "accept"), frame)
            /\ Matches(Rule(NewOrKnown, "accept"), frame)
    BY <2>1, HasAll
  <2>5. Matches(r4, frame) <=>
            /\ frame["iif"] = c /\ frame["src"] = Inside(c)
            /\ Matches(Rule(Known, "accept"), frame)
    BY <2>1, HasBoth
  <2> HIDE DEF r1, r2, r3, r4
  <2> QED BY <2>2, <2>3, <2>4, <2>5, HasCt, HasEndpoint, HasSocks DEF ToNode
<1>2. /\ r1.verdict = "accept" /\ r2.verdict = "accept"
      /\ r3.verdict = "accept" /\ r4.verdict = "accept"
  BY RuleFields
<1> HIDE DEF r1, r2, r3, r4
<1>3. chain = <<r1, r2>> \o IfSocks(s, <<r3, r4>>)
  BY HostRules DEF HostHooks, NftRules, r1, r2, r3, r4
<1>4. CASE s.socks
  <2>1. chain = <<r1, r2, r3, r4>>
    BY <1>3, <1>4 DEF IfSocks
  <2>2. DOMAIN chain \subseteq 1..5 /\ \A k \in DOMAIN chain : chain[k].verdict = "accept"
    BY <1>2, <2>1
  <2>3. Verdict(chain, frame, "none") = "accept"
            <=> \E k \in DOMAIN chain : Matches(chain[k], frame)
    <3> HIDE DEF chain
    <3> QED BY <2>2, OneVerdict
  <2>4. (\E k \in DOMAIN chain : Matches(chain[k], frame))
            <=> \/ Matches(r1, frame) \/ Matches(r2, frame)
                \/ Matches(r3, frame) \/ Matches(r4, frame)
    BY <2>1
  <2> HIDE DEF chain
  <2> QED BY <1>1, <1>4, <2>3, <2>4 DEF MayPass, chain
<1>5. CASE ~s.socks
  <2>1. chain = <<r1, r2>>
    BY <1>3, <1>5 DEF IfSocks
  <2>2. DOMAIN chain \subseteq 1..5 /\ \A k \in DOMAIN chain : chain[k].verdict = "accept"
    BY <1>2, <2>1
  <2>3. Verdict(chain, frame, "none") = "accept"
            <=> \E k \in DOMAIN chain : Matches(chain[k], frame)
    <3> HIDE DEF chain
    <3> QED BY <2>2, OneVerdict
  <2>4. (\E k \in DOMAIN chain : Matches(chain[k], frame))
            <=> Matches(r1, frame) \/ Matches(r2, frame)
    BY <2>1
  <2> HIDE DEF chain
  <2> QED BY <1>1, <1>5, <2>3, <2>4 DEF MayPass, chain
<1> QED BY <1>4, <1>5

-----------------------------------------------------------------------------
\* The two firewalls.

\* Each of them sees IPv4, nftables sees IPv6 too.
Sees(b, frame) == b = "nftables" \/ frame.family = "ip4"

LEMMA OutcomeIs ==
    ASSUME NEW b, NEW c, NEW hook, NEW frame, NEW policy
    PROVE  /\ Sees(b, frame) =>
                  Outcome(b, c, hook, frame, policy) = Verdict(Rules(b, c, hook), frame, policy)
           /\ b = "iptables" /\ frame.family = "ip6" =>
                  Outcome(b, c, hook, frame, policy) = policy
BY DEF Outcome, Sees

LEMMA Leaves ==
    ASSUME NEW b \in Backends, NEW c, NEW frame, Sees(b, frame)
    PROVE  Outcome(b, c, "output", frame, InsidePolicy(b)) = "accept" <=> MayLeave(c, frame)
BY OutputChain, OutcomeIs

LEMMA Enters ==
    ASSUME NEW b \in Backends, NEW c, NEW frame, Sees(b, frame)
    PROVE  Outcome(b, c, "input", frame, InsidePolicy(b)) = "accept" <=> MayEnter(c, frame)
BY InputChain, OutcomeIs

LEMMA Decisions ==
    ASSUME NEW b \in Backends, NEW frame, Sees(b, frame)
    PROVE  /\ Deciding(b, "prerouting", frame, "dnat") = {c \in Installed : Maps(c, frame)}
           /\ Deciding(b, "hostInput", frame, "drop") =
                  {c \in Installed : spec[c].socks /\ frame.proto = "tcp" /\ frame.dport = c}
           /\ Deciding(b, "postrouting", frame, "masquerade") =
                  {c \in Installed : frame.src = Inside(c) /\ ToNode(c, frame)}
           /\ Deciding(b, "postrouting", frame, "snat") =
                  {c \in Installed : /\ ~(frame.src = Inside(c) /\ ToNode(c, frame))
                                     /\ spec[c].socks /\ frame.dst = Inside(c)
                                     /\ frame.proto = "tcp" /\ frame.dport = c}
           /\ Deciding(b, "forward", frame, "accept") = {c \in Installed : MayPass(c, frame)}
<1>0. \A hook, verdict : Deciding(b, hook, frame, verdict) =
          {c \in Installed : Verdict(Rules(b, c, hook), frame, "none") = verdict}
  BY OutcomeIs DEF Deciding
<1>1. Deciding(b, "prerouting", frame, "dnat") = {c \in Installed : Maps(c, frame)}
  BY <1>0, PreroutingChain
<1>2. Deciding(b, "hostInput", frame, "drop") =
          {c \in Installed : spec[c].socks /\ frame.proto = "tcp" /\ frame.dport = c}
  BY <1>0, HostInputChain
<1>3. Deciding(b, "postrouting", frame, "masquerade") =
          {c \in Installed : frame.src = Inside(c) /\ ToNode(c, frame)}
  BY <1>0, PostroutingChain
<1>4. Deciding(b, "postrouting", frame, "snat") =
          {c \in Installed : /\ ~(frame.src = Inside(c) /\ ToNode(c, frame))
                             /\ spec[c].socks /\ frame.dst = Inside(c)
                             /\ frame.proto = "tcp" /\ frame.dport = c}
  BY <1>0, PostroutingChain
<1>5. Deciding(b, "forward", frame, "accept") = {c \in Installed : MayPass(c, frame)}
  BY <1>0, ForwardChain
<1> QED BY <1>1, <1>2, <1>3, <1>4, <1>5

\* No rule of iptables decides of IPv6.
LEMMA NoDecisions ==
    ASSUME NEW frame, frame.family = "ip6", NEW hook, NEW verdict, verdict # "none"
    PROVE  Deciding("iptables", hook, frame, verdict) = {}
BY OutcomeIs DEF Deciding

LEMMA SameDecisions ==
    ASSUME NEW hook \in HostHooks, NEW frame, frame.family = "ip4", NEW verdict
    PROVE  Deciding("nftables", hook, frame, verdict)
               = Deciding("iptables", hook, frame, verdict)
<1>1. \A c : Rules("nftables", c, hook) = Rules("iptables", c, hook)
  BY HostRules DEF Backends
<1> QED BY <1>1, OutcomeIs DEF Deciding, Sees

PickOne(S) == CHOOSE c \in S : TRUE

LEMMA DestinationInIs ==
    ASSUME NEW b, NEW frame
    PROVE  DestinationIn(b, frame) =
               IF Deciding(b, "prerouting", frame, "dnat") = {} THEN frame.dst
               ELSE Inside(PickOne(Deciding(b, "prerouting", frame, "dnat")))
BY DEF DestinationIn, PickOne

LEMMA SourceOutIs ==
    ASSUME NEW b, NEW frame
    PROVE  SourceOut(b, frame) =
               IF Deciding(b, "postrouting", frame, "masquerade") # {} THEN HostAddress
               ELSE IF Deciding(b, "postrouting", frame, "snat") # {}
               THEN Gateway(PickOne(Deciding(b, "postrouting", frame, "snat")))
               ELSE frame.src
BY DEF SourceOut, PickOne

LEMMA FamilyOfFrame ==
    ASSUME NEW p, NEW iif, NEW oif, NEW ct
    PROVE  Frame(p, iif, oif, ct).family = p.family
BY DEF Frame

\* A packet with its addresses, and one with another source or destination.
IsPacket(p) ==
    p = [family |-> p.family, src |-> p.src, dst |-> p.dst, proto |-> p.proto,
         sport |-> p.sport, dport |-> p.dport]

LEMMA Readdressed ==
    ASSUME NEW p, IsPacket(p), NEW a
    PROVE  /\ IsPacket([p EXCEPT !.dst = a]) /\ [p EXCEPT !.dst = a].family = p.family
           /\ IsPacket([p EXCEPT !.src = a]) /\ [p EXCEPT !.src = a].family = p.family
<1> DEFINE q == [family |-> p.family, src |-> p.src, dst |-> a, proto |-> p.proto,
                 sport |-> p.sport, dport |-> p.dport]
           r == [family |-> p.family, src |-> a, dst |-> p.dst, proto |-> p.proto,
                 sport |-> p.sport, dport |-> p.dport]
<1>1. [p EXCEPT !.dst = a] = q /\ [p EXCEPT !.src = a] = r
  BY DEF IsPacket
<1>2. IsPacket(q) /\ q.family = p.family /\ IsPacket(r) /\ r.family = p.family
  BY DEF IsPacket
<1> QED BY <1>1, <1>2

LEMMA SameTranslation ==
    ASSUME NEW p, IsPacket(p), p.family = "ip4", NEW iif
    PROVE  Translated("nftables", p, iif) = Translated("iptables", p, iif)
<1>1. \A frame : frame.family = "ip4" =>
          DestinationIn("nftables", frame) = DestinationIn("iptables", frame)
  BY SameDecisions, DestinationInIs DEF HostHooks
<1>2. \A frame : frame.family = "ip4" =>
          SourceOut("nftables", frame) = SourceOut("iptables", frame)
  BY SameDecisions, SourceOutIs DEF HostHooks
<1>3. \A q : q.family = "ip4" => WithSource("nftables", q) = WithSource("iptables", q)
  BY <1>2, FamilyOfFrame DEF WithSource
<1>4. DestinationIn("nftables", Frame(p, iif, "none", "new"))
          = DestinationIn("iptables", Frame(p, iif, "none", "new"))
  BY <1>1, FamilyOfFrame
<1> DEFINE q(b) == [p EXCEPT !.dst = DestinationIn(b, Frame(p, iif, "none", "new"))]
<1>5. q("nftables") = q("iptables") /\ q("nftables").family = "ip4"
  BY <1>4, Readdressed
<1>6. \A b : Translated(b, p, iif) =
          IF FlowsOf("host", p) # {}
          THEN LET f == CHOOSE f \in FlowsOf("host", p) : TRUE
               IN  Invert(IF p = f.orig THEN f.reply ELSE f.orig)
          ELSE WithSource(b, q(b))
  BY DEF Translated
<1> HIDE DEF q
<1> QED BY <1>3, <1>5, <1>6

LEMMA SamePassage ==
    ASSUME forwards, NEW p, IsPacket(p), p.family = "ip4", NEW iif,
           NEW final, final.family = "ip4"
    PROVE  Passed("nftables", p, iif, final) = Passed("iptables", p, iif, final)
<1> DEFINE oif == RouteOnHost(final.dst)
           routed == [p EXCEPT !.dst = final.dst]
           frame == Frame(final, "veth", "none", State(oif, final))
           passes(b) == Outcome(b, oif, "input", frame, InsidePolicy(b)) = "accept"
           drops(b) == Deciding(b, "hostInput", Frame(routed, iif, "none", State("host", p)), "drop")
<1>1. passes("nftables") <=> passes("iptables")
  BY Enters, FamilyOfFrame DEF Backends, Sees
<1>2. drops("nftables") = drops("iptables")
  <2>0. routed.family = "ip4"
    BY Readdressed
  <2>1. Frame(routed, iif, "none", State("host", p)).family = "ip4"
    <3> HIDE DEF routed
    <3> QED BY <2>0, FamilyOfFrame
  <2> QED BY <2>1, SameDecisions DEF HostHooks
<1>3. \A b : Passed(b, p, iif, final) =
          IF oif = "local" THEN IF drops(b) = {} THEN "host" ELSE "dropped"
          ELSE IF oif \in Connections /\ ~passes(b) THEN "dropped" ELSE oif
  BY DEF Passed, HostForwards
<1> HIDE DEF oif, drops, passes
<1> QED BY <1>1, <1>2, <1>3

\* What the host makes of a packet is one of its family.
LEMMA InvertedFamily ==
    ASSUME NEW p
    PROVE  Invert(p).family = p.family /\ IsPacket(Invert(p))
BY DEF Invert, IsPacket

LEMMA FamilyTranslated ==
    ASSUME \A f \in flows["host"] : f.orig.family = "ip4" /\ f.reply.family = "ip4",
           NEW b, NEW p, IsPacket(p), NEW iif
    PROVE  Translated(b, p, iif).family = p.family
<1>1. CASE FlowsOf("host", p) # {}
  <2> DEFINE f == CHOOSE f \in FlowsOf("host", p) : TRUE
  <2>1. f \in flows["host"] /\ p \in {f.orig, f.reply}
    BY <1>1 DEF FlowsOf
  <2>2. Translated(b, p, iif) = Invert(IF p = f.orig THEN f.reply ELSE f.orig)
    BY <1>1 DEF Translated
  <2> HIDE DEF f
  <2> QED BY <2>1, <2>2, InvertedFamily
<1>2. CASE FlowsOf("host", p) = {}
  <2> DEFINE q == [p EXCEPT !.dst = DestinationIn(b, Frame(p, iif, "none", "new"))]
  <2>1. q.family = p.family /\ IsPacket(q)
    BY Readdressed
  <2>2. Translated(b, p, iif) = WithSource(b, q)
    BY <1>2 DEF Translated
  <2> HIDE DEF q
  <2> QED BY <2>1, <2>2, Readdressed DEF WithSource
<1> QED BY <1>1, <1>2

LEMMA SameOnHost ==
    ASSUME forwards, NEW p, IsPacket(p), p.family = "ip4", NEW iif,
           \A f \in flows["host"] : f.orig.family = "ip4" /\ f.reply.family = "ip4"
    PROVE  OnHost("nftables", p, iif) = OnHost("iptables", p, iif)
<1>1. Translated("nftables", p, iif).family = "ip4"
  BY FamilyTranslated
<1> QED BY <1>1, SameTranslation, SamePassage DEF OnHost, Delivered

LEMMA SameInside ==
    ASSUME forwards, NEW c, NEW p, IsPacket(p), p.family = "ip4",
           \A f \in flows["host"] : f.orig.family = "ip4" /\ f.reply.family = "ip4"
    PROVE  FromInside("nftables", c, p) = FromInside("iptables", c, p)
<1> DEFINE oif == RouteInside(c, p.dst)
           frame == Frame(p, "none", oif, State(c, p))
           passes(b) == Outcome(b, c, "output", frame, InsidePolicy(b)) = "accept"
<1>1. passes("nftables") <=> passes("iptables")
  BY Leaves, FamilyOfFrame DEF Backends, Sees
<1>2. \A b : FromInside(b, c, p) =
          IF ~passes(b) THEN [at |-> "stopped", packet |-> p]
          ELSE IF oif = "tun0" THEN [at |-> "tun0", packet |-> p]
          ELSE OnHost(b, p, c)
  BY DEF FromInside
<1> HIDE DEF oif, passes
<1> QED BY <1>1, <1>2, SameOnHost

-----------------------------------------------------------------------------
\* The flows.  Whatever comes and goes, only three kinds of flow are ever tracked:
\* those of an OpenVPN with a server, those of a client with a proxy, and those of
\* an OpenVPN with the proxy that has the port of its server.

Packet(a, d, t, m, n) ==
    [family |-> "ip4", src |-> a, dst |-> d, proto |-> t, sport |-> m, dport |-> n]

\* OpenVPN's packet to a server, as the namespace and as the internet sees it.
ToVpn(c, n, t) == Packet(Inside(c), n, t, Own(c, n), RemotePort[n])
Masked(c, n, t) == Packet(HostAddress, n, t, Own(c, n), RemotePort[n])

\* A client's packet to the proxy of c.
ToPort(a, c) == Packet(a, HostAddress, "tcp", Own(a, HostAddress), c)

\* What the proxy of c may be called by, and the call k as it enters the namespace.
Calls(c) ==
    {ToPort(a, c) : a \in Outside}
    \cup {ToVpn(d, n, "tcp") : d \in Connections, n \in {m \in Remotes : RemotePort[m] = c}}
Entered(k, c) == Packet(Gateway(c), Inside(c), "tcp", k.sport, c)

Flow(orig, reply, answered) == [orig |-> orig, reply |-> reply, answered |-> answered]

\* The flows of a namespace, beside those of the host.
InnerVpn(c, n, t, f, host) ==
    /\ f = Flow(ToVpn(c, n, t), Invert(ToVpn(c, n, t)), f.answered)
    /\ f.answered => \E g \in host : g.orig = ToVpn(c, n, t)

InnerProxy(c, k, f, host) ==
    /\ f = Flow(Entered(k, c), Invert(Entered(k, c)), f.answered)
    /\ \E g \in host : g.orig = k /\ g.reply = Invert(Entered(k, c))

OuterVpn(c, n, t, f) ==
    f = Flow(ToVpn(c, n, t), Invert(Masked(c, n, t)), f.answered)

OuterProxy(c, k, f) ==
    f = Flow(k, Invert(Entered(k, c)), f.answered)

InnerFlow(c, f, host) ==
    \/ \E n \in Remotes, t \in Protocols : InnerVpn(c, n, t, f, host)
    \/ \E k \in Calls(c) : InnerProxy(c, k, f, host)

OuterFlow(f) ==
    \E c \in Connections :
        \/ \E n \in Remotes, t \in Protocols : OuterVpn(c, n, t, f)
        \/ \E k \in Calls(c) : OuterProxy(c, k, f)

InnerOK(c, entries, host) == \A f \in entries : InnerFlow(c, f, host)
OuterOK(host) == \A f \in host : OuterFlow(f)

InnerFlows == \A c \in Connections : InnerOK(c, flows[c], flows["host"])
OuterFlows == OuterOK(flows["host"])

FirewallOK ==
    /\ backend \in Backends
    /\ forwards \in BOOLEAN
    /\ spec \in [Connections -> Spec \cup {NoSpec}]
    /\ tunnel \in [Connections -> BOOLEAN]
    /\ DOMAIN flows = Connections \cup {"host"}

\* A packet opens one flow of the host.
OneReply(host) == \A f, g \in host : f.orig = g.orig => f.reply = g.reply

FlowInv == FirewallOK /\ InnerFlows /\ OuterFlows /\ OneReply(flows["host"])

LEMMA PacketFields ==
    ASSUME NEW a, NEW d, NEW t, NEW m, NEW n
    PROVE  LET p == Packet(a, d, t, m, n)
           IN  /\ p.src = a /\ p.dst = d /\ p.proto = t /\ p.sport = m /\ p.dport = n
               /\ p.family = "ip4" /\ IsPacket(p)
               /\ Invert(p) = Packet(d, a, t, n, m)
BY DEF Packet, Invert, IsPacket

LEMMA PacketsDiffer ==
    ASSUME NEW a, NEW d, NEW t, NEW m, NEW n, NEW a2, NEW d2, NEW t2, NEW m2, NEW n2,
           Packet(a, d, t, m, n) = Packet(a2, d2, t2, m2, n2)
    PROVE  a = a2 /\ d = d2 /\ t = t2 /\ m = m2 /\ n = n2
BY PacketFields

\* What is told apart.
LEMMA Distinct ==
    ASSUME NEW c \in Connections
    PROVE  /\ c \notin Reserved
           /\ HostAddress \notin Outside
           /\ HostAddress # Inside(c) /\ HostAddress # Gateway(c) /\ HostAddress # TunAddress(c)
           /\ \A a \in Outside : a # Inside(c) /\ a # Gateway(c) /\ a # TunAddress(c)
           /\ \A e \in Connections : /\ Inside(c) # Gateway(e) /\ Inside(c) # TunAddress(e)
                                     /\ Gateway(c) # TunAddress(e)
                                     /\ Inside(c) = Inside(e) => c = e
                                     /\ Gateway(c) = Gateway(e) => c = e
<1>1. /\ c \notin Reserved
      /\ HostAddress \notin Outside
      /\ HostAddress # Inside(c) /\ HostAddress # Gateway(c) /\ HostAddress # TunAddress(c)
      /\ \A a \in Outside : a # Inside(c) /\ a # Gateway(c) /\ a # TunAddress(c)
  BY DistinctAssumption
<1>2. \A e \in Connections : /\ Inside(c) # Gateway(e) /\ Inside(c) # TunAddress(e)
                             /\ Gateway(c) # TunAddress(e)
                             /\ Inside(c) = Inside(e) => c = e
                             /\ Gateway(c) = Gateway(e) => c = e
  BY DEF Inside, Gateway, TunAddress
<1> QED BY <1>1, <1>2

LEMMA SourcePorts ==
    /\ \A x \in Connections \cup Outside : \A d \in Outside \cup {HostAddress} :
           Own(x, d) \notin Ports
    /\ \A c \in Connections : Own(c, Gateway(c)) \notin Ports
    /\ \A x, y, d, e : Own(x, d) = Own(y, e) => x = y /\ d = e
    /\ \A c \in Connections : c \in Ports
    /\ \A n \in Remotes : RemotePort[n] \in Ports
    /\ Remotes \subseteq Outside
<1>1. \A x, y, d, e : Own(x, d) = Own(y, e) => x = y /\ d = e
  BY DEF Own
<1> QED BY <1>1, DistinctAssumption DEF Ports, Outside

\* The addresses of the host, and those of IPv6.
LEMMA DistinctLocal ==
    ASSUME NEW c \in Connections, NEW e \in Connections
    PROVE  Gateway6(c) # Inside(e) /\ HostAddress6 # Inside(e) /\ Elsewhere6 # Inside(e)
           /\ Inside6(c) # Inside(e) /\ TunAddress(c) # Inside(e)
BY DEF Gateway6, Inside, HostAddress6, Elsewhere6, Inside6, TunAddress

Local == {HostAddress, HostAddress6} \cup UNION {{Gateway(c), Gateway6(c)} : c \in Connections}

LEMMA HostRoutes ==
    /\ RouteOnHost(HostAddress) = "local"
    /\ RouteOnHost(HostAddress6) = "local"
    /\ \A c \in Connections : /\ RouteOnHost(Gateway6(c)) = "local"
                              /\ c \in Installed => RouteOnHost(Inside(c)) = c
                              /\ c \notin Installed => RouteOnHost(Inside(c)) = "eth0"
    /\ \A a \in Outside : RouteOnHost(a) = "eth0"
<1>0. \A a : /\ a \in Local /\ a \notin {Inside(e) : e \in Installed} => RouteOnHost(a) = "local"
             /\ a \notin Local /\ a \notin {Inside(e) : e \in Installed} => RouteOnHost(a) = "eth0"
  BY DEF RouteOnHost, Local
<1>1. RouteOnHost(HostAddress) = "local" /\ RouteOnHost(HostAddress6) = "local"
  <2>1. HostAddress \in Local /\ HostAddress6 \in Local
    BY DEF Local
  <2>2. \A e \in Installed : HostAddress # Inside(e) /\ HostAddress6 # Inside(e)
    BY Distinct, DistinctLocal DEF Installed
  <2> QED BY <1>0, <2>1, <2>2
<1>2. ASSUME NEW c \in Connections
      PROVE  /\ RouteOnHost(Gateway6(c)) = "local"
             /\ c \in Installed => RouteOnHost(Inside(c)) = c
             /\ c \notin Installed => RouteOnHost(Inside(c)) = "eth0"
  <2>1. RouteOnHost(Gateway6(c)) = "local"
    <3>1. Gateway6(c) \in Local
      BY DEF Local
    <3>2. \A e \in Installed : Gateway6(c) # Inside(e)
      BY DistinctLocal DEF Installed
    <3> QED BY <1>0, <3>1, <3>2
  <2>2. Inside(c) \notin Local
    <3>1. \A e \in Connections : Inside(c) # Gateway(e) /\ Inside(c) # Gateway6(e)
      BY Distinct, DistinctLocal
    <3> QED BY <3>1, Distinct, DistinctLocal DEF Local
  <2>3. \A e \in Installed : Inside(c) = Inside(e) => e = c
    BY Distinct DEF Installed
  <2>4. c \in Installed => RouteOnHost(Inside(c)) = c
    <3> SUFFICES ASSUME c \in Installed PROVE RouteOnHost(Inside(c)) = c
      OBVIOUS
    <3>1. RouteOnHost(Inside(c)) = CHOOSE e \in Installed : Inside(c) = Inside(e)
      BY <2>2 DEF RouteOnHost, Local
    <3> QED BY <2>3, <3>1
  <2>5. c \notin Installed => RouteOnHost(Inside(c)) = "eth0"
    BY <1>0, <2>2, <2>3
  <2> QED BY <2>1, <2>4, <2>5
<1>3. ASSUME NEW a \in Outside
      PROVE  RouteOnHost(a) = "eth0"
  <2>1. a \notin Local
    <3>1. a # HostAddress /\ a # HostAddress6
      BY DistinctAssumption DEF Addresses6
    <3>2. \A c \in Connections : a # Gateway(c) /\ a # Gateway6(c)
      BY DistinctAssumption DEF Addresses6
    <3> QED BY <3>1, <3>2 DEF Local
  <2>2. \A e \in Installed : a # Inside(e)
    BY Distinct DEF Installed
  <2> QED BY <1>0, <2>1, <2>2
<1> QED BY <1>1, <1>2, <1>3

-----------------------------------------------------------------------------
\* What the host makes of a packet.

LEMMA ShapesInvert ==
    ASSUME NEW c, NEW n, NEW t, NEW a, NEW k
    PROVE  /\ Invert(ToVpn(c, n, t)) = Packet(n, Inside(c), t, RemotePort[n], Own(c, n))
           /\ Invert(Masked(c, n, t)) = Packet(n, HostAddress, t, RemotePort[n], Own(c, n))
           /\ Invert(Entered(k, c)) = Packet(Inside(c), Gateway(c), "tcp", c, k.sport)
           /\ Invert(ToPort(a, c)) = Packet(HostAddress, a, "tcp", c, Own(a, HostAddress))
           /\ Invert(Invert(ToVpn(c, n, t))) = ToVpn(c, n, t)
           /\ Invert(Invert(Masked(c, n, t))) = Masked(c, n, t)
           /\ Invert(Invert(Entered(k, c))) = Entered(k, c)
           /\ Invert(Invert(ToPort(a, c))) = ToPort(a, c)
BY PacketFields DEF ToVpn, Masked, Entered, ToPort

LEMMA VpnFields ==
    ASSUME NEW c, NEW n, NEW t
    PROVE  /\ ToVpn(c, n, t).src = Inside(c) /\ ToVpn(c, n, t).dst = n
           /\ ToVpn(c, n, t).proto = t
           /\ ToVpn(c, n, t).sport = Own(c, n) /\ ToVpn(c, n, t).dport = RemotePort[n]
           /\ Masked(c, n, t).src = HostAddress /\ Masked(c, n, t).dst = n
           /\ Masked(c, n, t).proto = t
           /\ Masked(c, n, t).sport = Own(c, n) /\ Masked(c, n, t).dport = RemotePort[n]
           /\ Invert(ToVpn(c, n, t)).src = n /\ Invert(ToVpn(c, n, t)).dst = Inside(c)
           /\ Invert(ToVpn(c, n, t)).proto = t
           /\ Invert(ToVpn(c, n, t)).sport = RemotePort[n]
           /\ Invert(ToVpn(c, n, t)).dport = Own(c, n)
           /\ Invert(Masked(c, n, t)).src = n /\ Invert(Masked(c, n, t)).dst = HostAddress
           /\ Invert(Masked(c, n, t)).proto = t
           /\ Invert(Masked(c, n, t)).sport = RemotePort[n]
           /\ Invert(Masked(c, n, t)).dport = Own(c, n)
BY ShapesInvert, PacketFields DEF ToVpn, Masked

LEMMA ProxyFields ==
    ASSUME NEW a, NEW c, NEW k
    PROVE  /\ ToPort(a, c).src = a /\ ToPort(a, c).dst = HostAddress
           /\ ToPort(a, c).proto = "tcp"
           /\ ToPort(a, c).sport = Own(a, HostAddress) /\ ToPort(a, c).dport = c
           /\ Entered(k, c).src = Gateway(c) /\ Entered(k, c).dst = Inside(c)
           /\ Entered(k, c).proto = "tcp"
           /\ Entered(k, c).sport = k.sport /\ Entered(k, c).dport = c
           /\ Invert(ToPort(a, c)).src = HostAddress /\ Invert(ToPort(a, c)).dst = a
           /\ Invert(ToPort(a, c)).proto = "tcp"
           /\ Invert(ToPort(a, c)).sport = c /\ Invert(ToPort(a, c)).dport = Own(a, HostAddress)
           /\ Invert(Entered(k, c)).src = Inside(c) /\ Invert(Entered(k, c)).dst = Gateway(c)
           /\ Invert(Entered(k, c)).proto = "tcp"
           /\ Invert(Entered(k, c)).sport = c /\ Invert(Entered(k, c)).dport = k.sport
BY ShapesInvert, PacketFields DEF ToPort, Entered

LEMMA ShapesAreIp4 ==
    ASSUME NEW c, NEW n, NEW t, NEW a, NEW k
    PROVE  /\ ToVpn(c, n, t).family = "ip4" /\ IsPacket(ToVpn(c, n, t))
           /\ Masked(c, n, t).family = "ip4" /\ IsPacket(Masked(c, n, t))
           /\ ToPort(a, c).family = "ip4" /\ IsPacket(ToPort(a, c))
           /\ Entered(k, c).family = "ip4" /\ IsPacket(Entered(k, c))
BY PacketFields DEF ToVpn, Masked, ToPort, Entered

\* A call is one of a host of the internet or one of an OpenVPN.
LEMMA CallCases ==
    ASSUME NEW c, NEW k \in Calls(c)
    PROVE  \/ \E a \in Outside : k = ToPort(a, c)
           \/ \E d \in Connections, n \in Remotes : RemotePort[n] = c /\ k = ToVpn(d, n, "tcp")
BY DEF Calls

LEMMA CallsAre ==
    ASSUME NEW c
    PROVE  /\ \A a \in Outside : ToPort(a, c) \in Calls(c)
           /\ \A d \in Connections, n \in Remotes :
                  RemotePort[n] = c => ToVpn(d, n, "tcp") \in Calls(c)
BY DEF Calls

LEMMA CallFields ==
    ASSUME NEW c \in Connections, NEW k \in Calls(c)
    PROVE  /\ k.proto = "tcp" /\ k.dport = c /\ k.sport \notin Ports
           /\ k.src # HostAddress
           /\ k.dst \in Outside \cup {HostAddress}
           /\ \A e \in Connections : k.src # Gateway(e) /\ k.dst # Gateway(e) /\ k.dst # Inside(e)
           /\ k.family = "ip4" /\ IsPacket(k)
           /\ Invert(Invert(k)) = k
           /\ k = Packet(k.src, k.dst, "tcp", k.sport, c)
<1>1. ASSUME NEW a \in Outside, k = ToPort(a, c)
      PROVE  /\ k.proto = "tcp" /\ k.dport = c /\ k.sport \notin Ports
             /\ k.src # HostAddress
             /\ k.dst \in Outside \cup {HostAddress}
             /\ \A e \in Connections : k.src # Gateway(e)
             /\ k = Packet(k.src, k.dst, "tcp", k.sport, c)
  <2>1. /\ k.src = a /\ k.dst = HostAddress /\ k.proto = "tcp"
        /\ k.sport = Own(a, HostAddress) /\ k.dport = c
    BY <1>1, ProxyFields
  <2>2. k = Packet(k.src, k.dst, "tcp", k.sport, c)
    BY <1>1, <2>1 DEF ToPort
  <2> QED BY <2>1, <2>2, Distinct, SourcePorts
<1>2. ASSUME NEW d \in Connections, NEW n \in Remotes, RemotePort[n] = c, k = ToVpn(d, n, "tcp")
      PROVE  /\ k.proto = "tcp" /\ k.dport = c /\ k.sport \notin Ports
             /\ k.src # HostAddress
             /\ k.dst \in Outside \cup {HostAddress}
             /\ \A e \in Connections : k.src # Gateway(e)
             /\ k = Packet(k.src, k.dst, "tcp", k.sport, c)
  <2>1. /\ k.src = Inside(d) /\ k.dst = n /\ k.proto = "tcp"
        /\ k.sport = Own(d, n) /\ k.dport = c
    BY <1>2, VpnFields
  <2>2. k = Packet(k.src, k.dst, "tcp", k.sport, c)
    BY <1>2, <2>1 DEF ToVpn
  <2> QED BY <2>1, <2>2, Distinct, SourcePorts
<1>3. /\ k.proto = "tcp" /\ k.dport = c /\ k.sport \notin Ports
      /\ k.src # HostAddress
      /\ k.dst \in Outside \cup {HostAddress}
      /\ \A e \in Connections : k.src # Gateway(e)
      /\ k = Packet(k.src, k.dst, "tcp", k.sport, c)
  BY <1>1, <1>2, CallCases
<1>4. k.family = "ip4" /\ IsPacket(k) /\ Invert(Invert(k)) = k
  BY <1>3, PacketFields
<1>5. \A e \in Connections : k.dst # Gateway(e) /\ k.dst # Inside(e)
  BY <1>3, Distinct
<1> QED BY <1>3, <1>4, <1>5

\* Two calls have their own source ports.
LEMMA CallsDiffer ==
    ASSUME NEW c \in Connections, NEW k \in Calls(c), NEW e \in Connections, NEW m \in Calls(e),
           k.sport = m.sport
    PROVE  c = e => k = m
<1>1. ASSUME NEW a \in Outside, k = ToPort(a, c), NEW b \in Outside, m = ToPort(b, e)
      PROVE  c = e => k = m
  BY <1>1, ProxyFields, SourcePorts
<1>2. ASSUME NEW a \in Outside, k = ToPort(a, c),
             NEW d \in Connections, NEW n \in Remotes, m = ToVpn(d, n, "tcp")
      PROVE  FALSE
  <2>0. k.sport = Own(a, HostAddress) /\ m.sport = Own(d, n)
    BY <1>2, ProxyFields, VpnFields
  <2>1. HostAddress = n
    <3>1. Own(a, HostAddress) = Own(d, n)
      BY <2>0
    <3> QED BY <3>1, SourcePorts
  <2> QED BY <2>1, Distinct, SourcePorts
<1>3. ASSUME NEW a \in Outside, m = ToPort(a, e),
             NEW d \in Connections, NEW n \in Remotes, k = ToVpn(d, n, "tcp")
      PROVE  FALSE
  <2>0. m.sport = Own(a, HostAddress) /\ k.sport = Own(d, n)
    BY <1>3, ProxyFields, VpnFields
  <2>1. HostAddress = n
    <3>1. Own(a, HostAddress) = Own(d, n)
      BY <2>0
    <3> QED BY <3>1, SourcePorts
  <2> QED BY <2>1, Distinct, SourcePorts
<1>4. ASSUME NEW d \in Connections, NEW n \in Remotes, k = ToVpn(d, n, "tcp"),
             NEW f \in Connections, NEW o \in Remotes, m = ToVpn(f, o, "tcp")
      PROVE  c = e => k = m
  BY <1>4, VpnFields, SourcePorts
<1> QED BY <1>1, <1>2, <1>3, <1>4, CallCases

\* The packets of the flows, and those of two connections, are told apart.
LEMMA VpnDiffers ==
    ASSUME NEW c \in Connections, NEW e \in Connections,
           NEW n \in Remotes, NEW m \in Remotes, NEW t, NEW u
    PROVE  /\ ToVpn(c, n, t) = ToVpn(e, m, u) => c = e /\ n = m /\ t = u
           /\ Invert(Masked(c, n, t)) = Invert(Masked(e, m, u)) => c = e /\ n = m /\ t = u
           /\ Invert(ToVpn(c, n, t)) = Invert(ToVpn(e, m, u)) => c = e /\ n = m /\ t = u
           /\ ToVpn(c, n, t) # Invert(ToVpn(e, m, u))
           /\ ToVpn(c, n, t) # Invert(Masked(e, m, u))
<1>1. n \in Outside /\ m \in Outside
  BY SourcePorts
<1> QED BY <1>1, VpnFields, Distinct, SourcePorts

LEMMA VpnNoProxy ==
    ASSUME NEW c \in Connections, NEW e \in Connections,
           NEW n \in Remotes, NEW t, NEW k \in Calls(e)
    PROVE  /\ ToVpn(c, n, t) # Entered(k, e)
           /\ ToVpn(c, n, t) # Invert(Entered(k, e))
           /\ Invert(Masked(c, n, t)) # k
           /\ Invert(Masked(c, n, t)) # Invert(Entered(k, e))
           /\ Invert(ToVpn(c, n, t)) # Invert(Entered(k, e))
           /\ Invert(ToVpn(c, n, t)) # Entered(k, e)
<1>1. n \in Outside
  BY SourcePorts
<1>2. /\ ToVpn(c, n, t).src = Inside(c) /\ ToVpn(c, n, t).dst = n
      /\ Invert(Masked(c, n, t)).src = n /\ Invert(Masked(c, n, t)).sport = RemotePort[n]
      /\ Invert(ToVpn(c, n, t)).src = n
      /\ Entered(k, e).src = Gateway(e) /\ Invert(Entered(k, e)).src = Inside(e)
      /\ Invert(Entered(k, e)).dst = Gateway(e)
  BY VpnFields, ProxyFields
<1>3. RemotePort[n] \in Ports /\ k.sport \notin Ports
  BY SourcePorts, CallFields
<1> QED BY <1>1, <1>2, <1>3, Distinct

LEMMA ProxyDiffers ==
    ASSUME NEW c \in Connections, NEW e \in Connections, NEW k \in Calls(c), NEW m \in Calls(e)
    PROVE  /\ k = m => c = e
           /\ Entered(k, c) = Entered(m, e) => c = e /\ k = m
           /\ Invert(Entered(k, c)) = Invert(Entered(m, e)) => c = e /\ k = m
           /\ k # Invert(Entered(m, e))
           /\ Entered(k, c) # Invert(Entered(m, e))
<1>1. /\ k.dport = c /\ m.dport = e /\ k.sport \notin Ports /\ m.sport \notin Ports
      /\ k.src # Gateway(c) /\ k.dst # Gateway(e) /\ c \in Ports
  BY CallFields, SourcePorts
<1>2. /\ Entered(k, c).sport = k.sport /\ Entered(k, c).dport = c /\ Entered(k, c).src = Gateway(c)
      /\ Entered(m, e).sport = m.sport /\ Entered(m, e).dport = e
      /\ Invert(Entered(k, c)).sport = c /\ Invert(Entered(k, c)).dport = k.sport
      /\ Invert(Entered(m, e)).sport = e /\ Invert(Entered(m, e)).dport = m.sport
      /\ Invert(Entered(m, e)).dst = Gateway(e)
  BY ProxyFields
<1>3. Entered(k, c) = Entered(m, e) => c = e /\ k = m
  BY <1>2, CallsDiffer
<1>4. Invert(Entered(k, c)) = Invert(Entered(m, e)) => c = e /\ k = m
  BY <1>2, CallsDiffer
<1> QED BY <1>1, <1>2, <1>3, <1>4

-----------------------------------------------------------------------------
\* How a packet that belongs to no flow is translated.

LEMMA FrameFields ==
    ASSUME NEW p, NEW iif, NEW oif, NEW ct
    PROVE  LET frame == Frame(p, iif, oif, ct)
           IN  /\ frame.family = p.family /\ frame.src = p.src /\ frame.dst = p.dst
               /\ frame.proto = p.proto /\ frame.sport = p.sport /\ frame.dport = p.dport
               /\ frame.iif = iif /\ frame.oif = oif /\ frame.ct = ct
BY DEF Frame

LEMMA SamePlace ==
    ASSUME NEW p, IsPacket(p)
    PROVE  [p EXCEPT !.dst = p.dst] = p /\ [p EXCEPT !.src = p.src] = p
<1> DEFINE q == [family |-> p.family, src |-> p.src, dst |-> p.dst, proto |-> p.proto,
                 sport |-> p.sport, dport |-> p.dport]
<1>1. [q EXCEPT !.dst = p.dst] = q /\ [q EXCEPT !.src = p.src] = q
  OBVIOUS
<1>2. p = q
  BY DEF IsPacket
<1> HIDE DEF q
<1> QED BY <1>1, <1>2

\* The first packet of a flow that no proxy takes keeps its destination.
LEMMA UnmappedStays ==
    ASSUME NEW b, NEW p, IsPacket(p), NEW iif, FlowsOf("host", p) = {},
           Deciding(b, "prerouting", Frame(p, iif, "none", "new"), "dnat") = {}
    PROVE  Translated(b, p, iif) = WithSource(b, p)
<1>1. DestinationIn(b, Frame(p, iif, "none", "new")) = p.dst
  BY DestinationInIs, FrameFields
<1> QED BY <1>1, SamePlace DEF Translated

\* One that a proxy takes goes to its namespace, and no other's.
LEMMA MappedEnters ==
    ASSUME NEW b \in Backends, NEW p, p.family = "ip4", NEW iif,
           p.dport \in Installed, FlowsOf("host", p) = {},
           Maps(p.dport, Frame(p, iif, "none", "new"))
    PROVE  Translated(b, p, iif) = WithSource(b, [p EXCEPT !.dst = Inside(p.dport)])
<1> DEFINE frame == Frame(p, iif, "none", "new")
           inward == Deciding(b, "prerouting", frame, "dnat")
<1>0. frame.family = "ip4" /\ frame.dport = p.dport
  BY FrameFields
<1>1. inward = {p.dport}
  <2> HIDE DEF frame
  <2>1. inward = {c \in Installed : Maps(c, frame)}
    BY <1>0, Decisions DEF Sees
  <2>2. \A c \in Installed : Maps(c, frame) => c = p.dport
    BY <1>0 DEF Maps
  <2>3. Maps(p.dport, frame)
    BY DEF frame
  <2> QED BY <2>1, <2>2, <2>3
<1>2. PickOne({p.dport}) = p.dport
  BY DEF PickOne
<1>3. DestinationIn(b, frame) = Inside(p.dport)
  BY <1>1, <1>2, DestinationInIs
<1> QED BY <1>3 DEF Translated

\* The source by which a packet leaves the host.
LEMMA SourceKept ==
    ASSUME NEW b, NEW p, IsPacket(p),
           LET frame == Frame(p, "none", RouteOnHost(p.dst), "new")
           IN  /\ Deciding(b, "postrouting", frame, "masquerade") = {}
               /\ Deciding(b, "postrouting", frame, "snat") = {}
    PROVE  WithSource(b, p) = p
<1>1. SourceOut(b, Frame(p, "none", RouteOnHost(p.dst), "new")) = p.src
  BY SourceOutIs, FrameFields
<1> QED BY <1>1, SamePlace DEF WithSource

LEMMA SourceMasked ==
    ASSUME NEW b \in Backends, NEW c \in Installed
    PROVE  WithSource(b, ToVpn(c, spec[c].remote, spec[c].proto))
               = Masked(c, spec[c].remote, spec[c].proto)
<1> DEFINE p == ToVpn(c, spec[c].remote, spec[c].proto)
           frame == Frame(p, "none", RouteOnHost(p.dst), "new")
<1>0. /\ p.family = "ip4" /\ p.src = Inside(c) /\ p.dst = spec[c].remote
      /\ p.proto = spec[c].proto /\ p.dport = RemotePort[spec[c].remote]
  BY ShapesAreIp4, VpnFields
<1>1. c \in Deciding(b, "postrouting", frame, "masquerade")
  <2>1. frame.family = "ip4" /\ frame.src = Inside(c) /\ ToNode(c, frame)
    <3> HIDE DEF p
    <3> QED BY <1>0, FrameFields DEF ToNode
  <2> HIDE DEF frame
  <2> QED BY <2>1, Decisions DEF Sees
<1>2. SourceOut(b, frame) = HostAddress
  BY <1>1, SourceOutIs
<1>3. [p EXCEPT !.src = HostAddress] = Masked(c, spec[c].remote, spec[c].proto)
  BY DEF ToVpn, Masked, Packet
<1> QED BY <1>2, <1>3 DEF WithSource

LEMMA SourceEntering ==
    ASSUME FlowInv, NEW b \in Backends, NEW c \in Installed, spec[c].socks,
           NEW a, NEW m
    PROVE  WithSource(b, Packet(a, Inside(c), "tcp", m, c))
               = Packet(Gateway(c), Inside(c), "tcp", m, c)
<1> DEFINE p == Packet(a, Inside(c), "tcp", m, c)
           frame == Frame(p, "none", RouteOnHost(p.dst), "new")
<1>0. /\ p.family = "ip4" /\ p.dst = Inside(c) /\ p.proto = "tcp" /\ p.dport = c
  BY PacketFields
<1>1. frame.family = "ip4" /\ frame.dst = Inside(c) /\ frame.proto = "tcp" /\ frame.dport = c
  <2> HIDE DEF p
  <2> QED BY <1>0, FrameFields
<1>2. \A e \in Installed : ~ToNode(e, frame)
  <2>1. \A e \in Installed : spec[e].remote # Inside(c)
    BY Distinct, SourcePorts DEF FlowInv, FirewallOK, Installed, Spec
  <2> HIDE DEF frame
  <2> QED BY <1>1, <2>1 DEF ToNode
<1>3. /\ Deciding(b, "postrouting", frame, "masquerade") = {}
      /\ Deciding(b, "postrouting", frame, "snat") = {c}
  <2> HIDE DEF frame
  <2> QED BY <1>1, <1>2, Decisions DEF Sees
<1>4. PickOne({c}) = c
  BY DEF PickOne
<1>5. SourceOut(b, frame) = Gateway(c)
  BY <1>3, <1>4, SourceOutIs
<1>6. [p EXCEPT !.src = Gateway(c)] = Packet(Gateway(c), Inside(c), "tcp", m, c)
  BY DEF Packet
<1> QED BY <1>5, <1>6 DEF WithSource

\* A call that a proxy takes enters its namespace from the gateway.
LEMMA CallEnters ==
    ASSUME FlowInv, NEW b \in Backends, NEW c \in Installed, NEW k \in Calls(c), NEW iif,
           FlowsOf("host", k) = {}, Maps(c, Frame(k, iif, "none", "new"))
    PROVE  Translated(b, k, iif) = Entered(k, c)
<1>1. c \in Connections
  BY DEF Installed
<1>2. k.family = "ip4" /\ k.dport = c /\ k = Packet(k.src, k.dst, "tcp", k.sport, c)
  BY <1>1, CallFields
<1>3. spec[c].socks
  BY DEF Maps
<1>4. Translated(b, k, iif) = WithSource(b, [k EXCEPT !.dst = Inside(c)])
  BY <1>2, MappedEnters
<1>5. [k EXCEPT !.dst = Inside(c)] = Packet(k.src, Inside(c), "tcp", k.sport, c)
  <2>1. \A a, d, m : [Packet(a, d, "tcp", m, c) EXCEPT !.dst = Inside(c)]
                         = Packet(a, Inside(c), "tcp", m, c)
    BY DEF Packet
  <2> QED BY <1>2, <2>1
<1> QED BY <1>3, <1>4, <1>5, SourceEntering DEF Entered

\* Where a packet ends whose destination is known.
LEMMA EndsLocal ==
    ASSUME NEW b \in Backends, NEW p, IsPacket(p), p.family \in {"ip4", "ip6"}, NEW iif,
           NEW final, RouteOnHost(final.dst) = "local"
    PROVE  Passed(b, p, iif, final) =
               IF /\ b = "nftables" \/ p.family = "ip4"
                  /\ \E c \in Installed : spec[c].socks /\ p.proto = "tcp" /\ p.dport = c
               THEN "dropped" ELSE "host"
<1> DEFINE routed == [p EXCEPT !.dst = final.dst]
           frame == Frame(routed, iif, "none", State("host", p))
<1>1. routed.family = p.family /\ routed.proto = p.proto /\ routed.dport = p.dport
  <2>1. routed = [family |-> p.family, src |-> p.src, dst |-> final.dst, proto |-> p.proto,
                  sport |-> p.sport, dport |-> p.dport]
    BY DEF IsPacket
  <2> QED BY <2>1
<1> HIDE DEF routed
<1>2. frame.family = p.family /\ frame.proto = p.proto /\ frame.dport = p.dport
  BY <1>1, FrameFields
<1>3. Passed(b, p, iif, final) =
          IF Deciding(b, "hostInput", frame, "drop") = {} THEN "host" ELSE "dropped"
  BY DEF Passed, routed
<1> HIDE DEF frame
<1>4. CASE b = "nftables" \/ p.family = "ip4"
  <2>1. Deciding(b, "hostInput", frame, "drop") =
            {c \in Installed : spec[c].socks /\ p.proto = "tcp" /\ p.dport = c}
    BY <1>2, <1>4, Decisions DEF Sees
  <2> QED BY <1>3, <1>4, <2>1
<1>5. CASE b = "iptables" /\ p.family = "ip6"
  <2>1. Deciding(b, "hostInput", frame, "drop") = {}
    BY <1>2, <1>5, NoDecisions
  <2> QED BY <1>3, <1>5, <2>1
<1> QED BY <1>4, <1>5 DEF Backends

LEMMA EndsOutside ==
    ASSUME NEW b, NEW p, NEW iif, NEW final, RouteOnHost(final.dst) = "eth0"
    PROVE  /\ Passed(b, p, iif, final) \in {"eth0", "dropped"}
           /\ forwards => Passed(b, p, iif, final) = "eth0"
BY DistinctAssumption DEF Passed, HostForwards, Reserved

LEMMA EndsInside ==
    ASSUME NEW b \in Backends, NEW p, NEW iif, NEW final, final.family = "ip4",
           NEW c \in Connections, RouteOnHost(final.dst) = c
    PROVE  /\ Passed(b, p, iif, final) \in {c, "dropped"}
           /\ Passed(b, p, iif, final) = c =>
                  MayEnter(c, Frame(final, "veth", "none", State(c, final)))
           /\ /\ forwards
              /\ MayEnter(c, Frame(final, "veth", "none", State(c, final)))
              => Passed(b, p, iif, final) = c
<1>1. c # "local" /\ c # "dropped" /\ c # "host"
  BY Distinct DEF Reserved
<1>2. Outcome(b, c, "input", Frame(final, "veth", "none", State(c, final)),
              InsidePolicy(b)) = "accept"
          <=> MayEnter(c, Frame(final, "veth", "none", State(c, final)))
  BY Enters, FrameFields DEF Sees
<1> QED BY <1>1, <1>2 DEF Passed, HostForwards

-----------------------------------------------------------------------------
\* How a packet of a flow is translated.

LEMMA InstalledSpec ==
    ASSUME FlowInv, NEW c \in Installed
    PROVE  /\ c \in Connections /\ backend \in Backends
           /\ spec[c] \in Spec
           /\ spec[c].remote \in Remotes /\ spec[c].proto \in Protocols
BY DEF FlowInv, FirewallOK, Installed, Spec

LEMMA FlowFields ==
    ASSUME NEW o, NEW r, NEW x
    PROVE  Flow(o, r, x).orig = o /\ Flow(o, r, x).reply = r
BY DEF Flow

LEMMA FlowAnswered ==
    ASSUME NEW o, NEW r, NEW x
    PROVE  Flow(o, r, x).answered = x
BY DEF Flow

\* The two kinds of flow of the host, by their packets.
VpnFlow(c, n, t, f) == f.orig = ToVpn(c, n, t) /\ f.reply = Invert(Masked(c, n, t))
ProxyFlow(c, k, f) == f.orig = k /\ f.reply = Invert(Entered(k, c))

LEMMA OuterPackets ==
    ASSUME NEW host, OuterOK(host), NEW f \in host
    PROVE  /\ f = Flow(f.orig, f.reply, f.answered)
           /\ \E c \in Connections :
                  \/ \E n \in Remotes, t \in Protocols : VpnFlow(c, n, t, f)
                  \/ \E k \in Calls(c) : ProxyFlow(c, k, f)
<1>1. OuterFlow(f)
  BY DEF OuterOK
<1>2. \A c, n, t : OuterVpn(c, n, t, f) =>
          VpnFlow(c, n, t, f) /\ f = Flow(f.orig, f.reply, f.answered)
  BY FlowFields DEF OuterVpn, VpnFlow
<1>3. \A c, k : OuterProxy(c, k, f) =>
          ProxyFlow(c, k, f) /\ f = Flow(f.orig, f.reply, f.answered)
  BY FlowFields DEF OuterProxy, ProxyFlow
<1> QED BY <1>1, <1>2, <1>3 DEF OuterFlow

LEMMA InnerPackets ==
    ASSUME NEW c, NEW entries, NEW host, InnerOK(c, entries, host), NEW f \in entries
    PROVE  /\ f = Flow(f.orig, f.reply, f.answered)
           /\ \/ \E n \in Remotes, t \in Protocols :
                     f.orig = ToVpn(c, n, t) /\ f.reply = Invert(ToVpn(c, n, t))
              \/ \E k \in Calls(c) : f.orig = Entered(k, c) /\ f.reply = Invert(Entered(k, c))
<1>1. InnerFlow(c, f, host)
  BY DEF InnerOK
<1>2. \A n, t : InnerVpn(c, n, t, f, host) =>
          /\ f.orig = ToVpn(c, n, t) /\ f.reply = Invert(ToVpn(c, n, t))
          /\ f = Flow(f.orig, f.reply, f.answered)
  BY FlowFields DEF InnerVpn
<1>3. \A k : InnerProxy(c, k, f, host) =>
          /\ f.orig = Entered(k, c) /\ f.reply = Invert(Entered(k, c))
          /\ f = Flow(f.orig, f.reply, f.answered)
  BY FlowFields DEF InnerProxy
<1> QED BY <1>1, <1>2, <1>3 DEF InnerFlow

\* Every flow is one of IPv4.
LEMMA OuterIp4 ==
    ASSUME FlowInv, NEW f \in flows["host"]
    PROVE  f.orig.family = "ip4" /\ f.reply.family = "ip4"
<1>1. PICK c \in Connections :
          \/ \E n \in Remotes, t \in Protocols : VpnFlow(c, n, t, f)
          \/ \E k \in Calls(c) : ProxyFlow(c, k, f)
  BY OuterPackets DEF FlowInv, OuterFlows
<1>2. ASSUME NEW n \in Remotes, NEW t \in Protocols, VpnFlow(c, n, t, f)
      PROVE  f.orig.family = "ip4" /\ f.reply.family = "ip4"
  BY <1>2, ShapesAreIp4, InvertedFamily DEF VpnFlow
<1>3. ASSUME NEW k \in Calls(c), ProxyFlow(c, k, f)
      PROVE  f.orig.family = "ip4" /\ f.reply.family = "ip4"
  BY <1>3, CallFields, ShapesAreIp4, InvertedFamily DEF ProxyFlow
<1> QED BY <1>1, <1>2, <1>3

LEMMA InnerIp4 ==
    ASSUME FlowInv, NEW c \in Connections, NEW f \in flows[c]
    PROVE  f.orig.family = "ip4" /\ f.reply.family = "ip4"
<1>1. \/ \E n \in Remotes, t \in Protocols :
             f.orig = ToVpn(c, n, t) /\ f.reply = Invert(ToVpn(c, n, t))
      \/ \E k \in Calls(c) : f.orig = Entered(k, c) /\ f.reply = Invert(Entered(k, c))
  BY InnerPackets DEF FlowInv, InnerFlows
<1> QED BY <1>1, ShapesAreIp4, InvertedFamily

LEMMA KnownTranslated ==
    ASSUME FlowInv, NEW b, NEW p, NEW iif, FlowsOf("host", p) # {}
    PROVE  \E c \in Connections, f \in flows["host"] :
               \/ \E n \in Remotes, t \in Protocols :
                      /\ VpnFlow(c, n, t, f)
                      /\ \/ p = ToVpn(c, n, t) /\ Translated(b, p, iif) = Masked(c, n, t)
                         \/ /\ p = Invert(Masked(c, n, t))
                            /\ Translated(b, p, iif) = Invert(ToVpn(c, n, t))
               \/ \E k \in Calls(c) :
                      /\ ProxyFlow(c, k, f)
                      /\ \/ p = k /\ Translated(b, p, iif) = Entered(k, c)
                         \/ p = Invert(Entered(k, c)) /\ Translated(b, p, iif) = Invert(k)
<1> DEFINE f == CHOOSE f \in FlowsOf("host", p) : TRUE
           q == IF p = f.orig THEN f.reply ELSE f.orig
<1>1. Translated(b, p, iif) = Invert(q)
  BY DEF Translated
<1>2. f \in flows["host"] /\ (p = f.orig \/ p = f.reply)
  BY DEF FlowsOf
<1> HIDE DEF f
<1>3. PICK c \in Connections :
          \/ \E n \in Remotes, t \in Protocols : VpnFlow(c, n, t, f)
          \/ \E k \in Calls(c) : ProxyFlow(c, k, f)
  BY <1>2, OuterPackets DEF FlowInv, OuterFlows
<1>4. ASSUME NEW n \in Remotes, NEW t \in Protocols, VpnFlow(c, n, t, f)
      PROVE  \/ p = ToVpn(c, n, t) /\ Translated(b, p, iif) = Masked(c, n, t)
             \/ /\ p = Invert(Masked(c, n, t))
                /\ Translated(b, p, iif) = Invert(ToVpn(c, n, t))
  <2>1. f.orig = ToVpn(c, n, t) /\ f.reply = Invert(Masked(c, n, t))
    BY <1>4 DEF VpnFlow
  <2>2. CASE p = f.orig
    BY <1>1, <2>1, <2>2, ShapesInvert
  <2>3. CASE p # f.orig
    BY <1>1, <1>2, <2>1, <2>3
  <2> QED BY <2>2, <2>3
<1>5. ASSUME NEW k \in Calls(c), ProxyFlow(c, k, f)
      PROVE  \/ p = k /\ Translated(b, p, iif) = Entered(k, c)
             \/ p = Invert(Entered(k, c)) /\ Translated(b, p, iif) = Invert(k)
  <2>1. f.orig = k /\ f.reply = Invert(Entered(k, c))
    BY <1>5 DEF ProxyFlow
  <2>2. CASE p = f.orig
    BY <1>1, <2>1, <2>2, ShapesInvert
  <2>3. CASE p # f.orig
    BY <1>1, <1>2, <2>1, <2>3
  <2> QED BY <2>2, <2>3
<1>6. CASE \E n \in Remotes, t \in Protocols : VpnFlow(c, n, t, f)
  BY <1>2, <1>4, <1>6
<1>7. CASE \E k \in Calls(c) : ProxyFlow(c, k, f)
  BY <1>2, <1>5, <1>7
<1> QED BY <1>3, <1>6, <1>7

\* A known packet of an OpenVPN is masked like the first of its flow, or is taken by
\* the proxy that took the first.
LEMMA VpnTranslated ==
    ASSUME FlowInv, NEW b, NEW c \in Connections,
           NEW n \in Remotes, NEW t \in Protocols, NEW iif,
           FlowsOf("host", ToVpn(c, n, t)) # {}
    PROVE  LET p == ToVpn(c, n, t)
           IN  \E g \in flows["host"] :
                   /\ g.orig = p
                   /\ g.reply = Invert(Translated(b, p, iif))
                   /\ \/ Translated(b, p, iif) = Masked(c, n, t)
                      \/ /\ RemotePort[n] \in Connections /\ t = "tcp"
                         /\ Translated(b, p, iif) = Entered(p, RemotePort[n])
<1> DEFINE p == ToVpn(c, n, t)
           q == Translated(b, p, iif)
<1>1. PICK e \in Connections, g \in flows["host"] :
          \/ \E m \in Remotes, u \in Protocols :
                 /\ VpnFlow(e, m, u, g)
                 /\ \/ p = ToVpn(e, m, u) /\ q = Masked(e, m, u)
                    \/ p = Invert(Masked(e, m, u))
          \/ \E k \in Calls(e) :
                 /\ ProxyFlow(e, k, g)
                 /\ \/ p = k /\ q = Entered(k, e)
                    \/ p = Invert(Entered(k, e))
  <2> HIDE DEF p
  <2> QED BY KnownTranslated DEF p
<1> HIDE DEF q
<1>2. ASSUME NEW m \in Remotes, NEW u \in Protocols, VpnFlow(e, m, u, g),
             \/ p = ToVpn(e, m, u) /\ q = Masked(e, m, u)
             \/ p = Invert(Masked(e, m, u))
      PROVE  g.orig = p /\ g.reply = Invert(q) /\ q = Masked(c, n, t)
  <2>1. c = e /\ n = m /\ t = u /\ q = Masked(c, n, t)
    BY <1>2, VpnDiffers
  <2> QED BY <1>2, <2>1 DEF VpnFlow
<1>3. ASSUME NEW k \in Calls(e), ProxyFlow(e, k, g),
             \/ p = k /\ q = Entered(k, e)
             \/ p = Invert(Entered(k, e))
      PROVE  /\ g.orig = p /\ g.reply = Invert(q)
             /\ RemotePort[n] \in Connections /\ t = "tcp" /\ q = Entered(p, RemotePort[n])
  <2>1. p = k /\ q = Entered(k, e)
    BY <1>3, VpnNoProxy
  <2>2. k.dport = e /\ k.proto = "tcp"
    BY CallFields
  <2>3. RemotePort[n] = e /\ t = "tcp"
    BY <2>1, <2>2, VpnFields
  <2> QED BY <1>3, <2>1, <2>3 DEF ProxyFlow
<1> HIDE DEF p
<1>4. \E h \in flows["host"] :
          /\ h.orig = p /\ h.reply = Invert(q)
          /\ \/ q = Masked(c, n, t)
             \/ /\ RemotePort[n] \in Connections /\ t = "tcp"
                /\ q = Entered(p, RemotePort[n])
  BY <1>1, <1>2, <1>3
<1> QED BY <1>4 DEF p, q

\* A known answer of a proxy finds its caller.
LEMMA AnswerTranslated ==
    ASSUME FlowInv, NEW b, NEW c \in Connections, NEW k \in Calls(c), NEW iif,
           FlowsOf("host", Invert(Entered(k, c))) # {}
    PROVE  Translated(b, Invert(Entered(k, c)), iif) = Invert(k)
<1> DEFINE p == Invert(Entered(k, c))
<1>1. PICK e \in Connections :
          \/ \E m \in Remotes, u \in Protocols :
                 p = ToVpn(e, m, u) \/ p = Invert(Masked(e, m, u))
          \/ \E m \in Calls(e) :
                 \/ p = m
                 \/ p = Invert(Entered(m, e)) /\ Translated(b, p, iif) = Invert(m)
  BY KnownTranslated
<1> QED BY <1>1, VpnDiffers, VpnNoProxy, ProxyDiffers

\* What a namespace knows of a packet.
LEMMA KnownOf ==
    ASSUME NEW place, NEW p, State(place, p) = "established"
    PROVE  \E f \in flows[place] : f.reply = p \/ (f.orig = p /\ f.answered)
BY DEF State

LEMMA StateIs ==
    ASSUME NEW place, NEW p
    PROVE  State(place, p) \in {"new", "established"}
BY DEF State

LEMMA KnownInside ==
    ASSUME FlowInv, NEW c \in Connections, NEW p, State(c, p) = "established"
    PROVE  \/ \E n \in Remotes, t \in Protocols :
                  \/ p = Invert(ToVpn(c, n, t))
                  \/ p = ToVpn(c, n, t) /\ FlowsOf("host", p) # {}
           \/ \E k \in Calls(c) :
                  \/ p = Entered(k, c)
                  \/ /\ p = Invert(Entered(k, c))
                     /\ \E g \in flows["host"] : g.orig = k /\ g.reply = p
<1>1. PICK f \in flows[c] : f.reply = p \/ (f.orig = p /\ f.answered)
  BY KnownOf
<1>2. InnerFlow(c, f, flows["host"])
  BY DEF FlowInv, InnerFlows, InnerOK
<1>3. ASSUME NEW n \in Remotes, NEW t \in Protocols, InnerVpn(c, n, t, f, flows["host"])
      PROVE  \/ p = Invert(ToVpn(c, n, t))
             \/ p = ToVpn(c, n, t) /\ FlowsOf("host", p) # {}
  <2>1. f.orig = ToVpn(c, n, t) /\ f.reply = Invert(ToVpn(c, n, t))
    BY <1>3, FlowFields DEF InnerVpn
  <2>2. f.answered => \E g \in flows["host"] : g.orig = ToVpn(c, n, t)
    BY <1>3 DEF InnerVpn
  <2>3. f.answered /\ p = ToVpn(c, n, t) => FlowsOf("host", p) # {}
    BY <2>2 DEF FlowsOf
  <2> QED BY <1>1, <2>1, <2>3
<1>4. ASSUME NEW k \in Calls(c), InnerProxy(c, k, f, flows["host"])
      PROVE  \/ p = Entered(k, c)
             \/ /\ p = Invert(Entered(k, c))
                /\ \E g \in flows["host"] : g.orig = k /\ g.reply = p
  <2>1. f.orig = Entered(k, c) /\ f.reply = Invert(Entered(k, c))
    BY <1>4, FlowFields DEF InnerProxy
  <2>2. \E g \in flows["host"] : g.orig = k /\ g.reply = Invert(Entered(k, c))
    BY <1>4 DEF InnerProxy
  <2> QED BY <1>1, <2>1, <2>2
<1>5. CASE \E n \in Remotes, t \in Protocols : InnerVpn(c, n, t, f, flows["host"])
  BY <1>3, <1>5
<1>6. CASE \E k \in Calls(c) : InnerProxy(c, k, f, flows["host"])
  BY <1>4, <1>6
<1> QED BY <1>2, <1>5, <1>6 DEF InnerFlow

-----------------------------------------------------------------------------
\* What leaves a namespace.

\* The first packet to the node of the connection is masked by its rule, unless a
\* proxy takes it.
LEMMA NodeTranslated ==
    ASSUME FlowInv, NEW c \in Installed, NEW iif
    PROVE  LET n == spec[c].remote
               t == spec[c].proto
               p == ToVpn(c, n, t)
               d == RemotePort[n]
           IN  \/ /\ ~Captured(c)
                  /\ Translated(backend, p, iif) = Masked(c, n, t)
               \/ /\ Captured(c)
                  /\ d \in Connections /\ t = "tcp"
                  /\ Translated(backend, p, iif) = Entered(p, d)
                  /\ FlowsOf("host", p) = {} =>
                         d \in Installed /\ spec[d].socks /\ spec[d].allow = {}
<1> DEFINE n == spec[c].remote
           t == spec[c].proto
           p == ToVpn(c, n, t)
           d == RemotePort[n]
           q == Translated(backend, p, iif)
<1>1. c \in Connections /\ n \in Remotes /\ t \in Protocols /\ backend \in Backends
  BY InstalledSpec
<1>2. ToServer(c) = p
  BY DEF ToServer, ToVpn, Packet
<1>3. /\ p.family = "ip4" /\ IsPacket(p) /\ p.src = Inside(c) /\ p.proto = t /\ p.dport = d
      /\ p.dst = n
  BY ShapesAreIp4, VpnFields
<1>4. Captured(c) <=>
          IF FlowsOf("host", p) = {}
          THEN \E e \in Installed :
                   p.proto = "tcp" /\ p.dport = e /\ spec[e].socks /\ spec[e].allow = {}
          ELSE \E f \in FlowsOf("host", p) : f.reply.src # n
  BY <1>2 DEF Captured
<1>5. CASE FlowsOf("host", p) # {}
  <2>1. PICK g \in flows["host"] :
            /\ g.orig = p /\ g.reply = Invert(q)
            /\ \/ q = Masked(c, n, t)
               \/ d \in Connections /\ t = "tcp" /\ q = Entered(p, d)
    BY <1>1, <1>5, VpnTranslated
  <2> HIDE DEF q
  <2>2. g \in FlowsOf("host", p)
    <3> HIDE DEF p
    <3> QED BY <2>1 DEF FlowsOf
  <2>3. CASE q = Masked(c, n, t)
    <3>1. g.reply.src = n
      BY <2>1, <2>3, VpnFields
    <3>2. ASSUME NEW f \in FlowsOf("host", p)
          PROVE  f.reply.src = n
      <4>1. f \in flows["host"] /\ (f.orig = p \/ f.reply = p)
        BY DEF FlowsOf
      <4>2. PICK e \in Connections :
                \/ \E m \in Remotes, u \in Protocols : VpnFlow(e, m, u, f)
                \/ \E k \in Calls(e) : ProxyFlow(e, k, f)
        BY <4>1, OuterPackets DEF FlowInv, OuterFlows
      <4>3. f.reply # p
        BY <1>1, <4>2, VpnDiffers, VpnNoProxy DEF VpnFlow, ProxyFlow
      <4>4. f.reply = g.reply
        <5> HIDE DEF p
        <5> QED BY <2>1, <4>1, <4>3 DEF FlowInv, OneReply
      <4> QED BY <3>1, <4>4
    <3> QED BY <1>4, <1>5, <2>3, <3>2 DEF q
  <2>4. CASE d \in Connections /\ t = "tcp" /\ q = Entered(p, d)
    <3>1. g.reply.src = Inside(d)
      <4> HIDE DEF p
      <4> QED BY <2>1, <2>4, ProxyFields
    <3>2. Inside(d) # n
      BY <1>1, <2>4, Distinct, SourcePorts
    <3> QED BY <1>4, <1>5, <2>2, <2>4, <3>1, <3>2 DEF q
  <2> QED BY <2>1, <2>3, <2>4
<1>6. CASE FlowsOf("host", p) = {}
  <2> DEFINE frame == Frame(p, iif, "none", "new")
  <2>1. /\ frame.family = "ip4" /\ frame.src = Inside(c) /\ frame.proto = t /\ frame.dport = d
    <3> HIDE DEF p
    <3> QED BY <1>3, FrameFields
  <2>2. \A e \in Installed : Maps(e, frame) <=>
            t = "tcp" /\ d = e /\ spec[e].socks /\ spec[e].allow = {}
    <3>1. \A e \in Installed : Inside(c) \notin spec[e].allow
      BY <1>1, Distinct DEF FlowInv, FirewallOK, Installed, Spec, Outside
    <3> HIDE DEF frame, p
    <3> QED BY <2>1, <3>1 DEF Maps
  <2>3. CASE Captured(c)
    <3>1. d \in Installed /\ t = "tcp" /\ spec[d].socks /\ spec[d].allow = {}
      BY <1>3, <1>4, <1>6, <2>3
    <3>2. Maps(d, frame)
      BY <2>2, <3>1
    <3>3. p \in Calls(d)
      BY <1>1, <3>1, CallsAre
    <3>4. q = Entered(p, d)
      <4> HIDE DEF p, d
      <4> QED BY <1>1, <1>6, <3>1, <3>2, <3>3, CallEnters
    <3> QED BY <2>3, <3>1, <3>4 DEF Installed
  <2>4. CASE ~Captured(c)
    <3>1. \A e \in Installed : ~Maps(e, frame)
      BY <1>3, <1>4, <1>6, <2>2, <2>4
    <3>2. Deciding(backend, "prerouting", frame, "dnat") = {}
      <4> HIDE DEF frame
      <4> QED BY <1>1, <2>1, <3>1, Decisions DEF Sees
    <3>3. q = WithSource(backend, p)
      <4> HIDE DEF p
      <4> QED BY <1>3, <1>6, <3>2, UnmappedStays
    <3>4. WithSource(backend, p) = Masked(c, n, t)
      BY <1>1, SourceMasked
    <3> QED BY <2>4, <3>3, <3>4
  <2> QED BY <2>3, <2>4
<1> HIDE DEF p, q
<1> QED BY <1>5, <1>6 DEF p, q

\* Where the packets of the flows end.
LEMMA EndsAtProxy ==
    ASSUME FlowInv, NEW c \in Connections, NEW k, NEW p, NEW iif
    PROVE  LET at == Passed(backend, p, iif, Entered(k, c))
           IN  /\ at \in {c, "eth0", "dropped"}
               /\ c \in Installed => at \in {c, "dropped"}
               /\ at = c => c \in Installed
<1>1. Entered(k, c).dst = Inside(c) /\ backend \in Backends /\ Entered(k, c).family = "ip4"
  BY ProxyFields, ShapesAreIp4 DEF FlowInv, FirewallOK
<1>2. c \notin {"eth0", "dropped"}
  BY Distinct DEF Reserved
<1>3. CASE c \in Installed
  <2>1. RouteOnHost(Entered(k, c).dst) = c
    BY <1>1, <1>3, HostRoutes
  <2> QED BY <1>1, <1>3, <2>1, EndsInside
<1>4. CASE c \notin Installed
  <2>1. RouteOnHost(Entered(k, c).dst) = "eth0"
    BY <1>1, <1>4, HostRoutes
  <2> QED BY <1>2, <1>4, <2>1, EndsOutside
<1> QED BY <1>3, <1>4

LEMMA EndsAtVpn ==
    ASSUME FlowInv, NEW c \in Connections, NEW n \in Remotes, NEW t, NEW p, NEW iif
    PROVE  LET final == Invert(ToVpn(c, n, t))
               at == Passed(backend, p, iif, final)
           IN  /\ at \in {c, "eth0", "dropped"}
               /\ at = c => State(c, final) = "established"
<1> DEFINE final == Invert(ToVpn(c, n, t))
           frame == Frame(final, "veth", "none", State(c, final))
<1>1. /\ final.dst = Inside(c) /\ final.src = n /\ backend \in Backends
      /\ final.family = "ip4"
  BY VpnFields, ShapesAreIp4, InvertedFamily DEF FlowInv, FirewallOK
<1>2. c \notin {"eth0", "dropped"}
  BY Distinct DEF Reserved
<1>3. CASE c \in Installed
  <2>1. RouteOnHost(final.dst) = c
    BY <1>1, <1>3, HostRoutes
  <2>2. /\ Passed(backend, p, iif, final) \in {c, "dropped"}
        /\ Passed(backend, p, iif, final) = c => MayEnter(c, frame)
    BY <1>1, <2>1, EndsInside
  <2>3. frame.src # Gateway(c) /\ frame.iif = "veth" /\ frame.ct = State(c, final)
    <3>1. n # Gateway(c)
      BY Distinct, SourcePorts
    <3> HIDE DEF final
    <3> QED BY <1>1, <3>1, FrameFields
  <2>4. MayEnter(c, frame) => State(c, final) = "established"
    <3> HIDE DEF frame, final
    <3> QED BY <2>3 DEF MayEnter
  <2> QED BY <2>2, <2>4
<1>4. CASE c \notin Installed
  <2>1. RouteOnHost(final.dst) = "eth0"
    BY <1>1, <1>4, HostRoutes
  <2> QED BY <1>2, <2>1, EndsOutside
<1> QED BY <1>3, <1>4

\* What a namespace sends.
LEMMA SentInsideShape ==
    ASSUME FlowInv, NEW c \in Connections, NEW p \in SentInside(c)
    PROVE  \/ \E d, t, n :
                  p = Packet(IF RouteInside(c, d) = "tun0" THEN TunAddress(c) ELSE Inside(c),
                             d, t, Own(c, d), n)
           \/ /\ p.family = "ip6" /\ IsPacket(p)
              /\ p.dst = Gateway6(c) \/ (tunnel[c] /\ p.dst = Elsewhere6)
              /\ RouteInside(c, p.dst) # "tun0" => p.src = Inside6(c)
           \/ \E k \in Calls(c) : /\ p = Invert(Entered(k, c))
                                  /\ \E f \in flows[c] : f.reply = p
<1>1. CASE \E f \in flows[c] : f.orig.dst = Inside(c) /\ p = f.reply
  <2>1. PICK f \in flows[c] : f.orig.dst = Inside(c) /\ p = f.reply
    BY <1>1
  <2>2. \A n \in Remotes, t \in Protocols : f.orig # ToVpn(c, n, t)
    BY <2>1, VpnFields, Distinct, SourcePorts
  <2>3. PICK k \in Calls(c) : f.reply = Invert(Entered(k, c))
    BY <2>2, InnerPackets DEF FlowInv, InnerFlows
  <2> QED BY <2>1, <2>3
<1>2. CASE \E d, t, port :
          p = [family |-> "ip4",
               src |-> IF RouteInside(c, d) = "tun0" THEN TunAddress(c) ELSE Inside(c),
               dst |-> d, proto |-> t, sport |-> Own(c, d), dport |-> port]
  BY <1>2 DEF Packet
<1>3. ASSUME NEW d, NEW t, NEW port,
             d = Gateway6(c) \/ (tunnel[c] /\ d = Elsewhere6),
             p = [family |-> "ip6",
                  src |-> IF RouteInside(c, d) = "tun0" THEN TunAddress(c) ELSE Inside6(c),
                  dst |-> d, proto |-> t, sport |-> Own(c, d), dport |-> port]
      PROVE  /\ p.family = "ip6" /\ IsPacket(p)
             /\ p.dst = Gateway6(c) \/ (tunnel[c] /\ p.dst = Elsewhere6)
             /\ RouteInside(c, p.dst) # "tun0" => p.src = Inside6(c)
  <2>1. /\ p.family = "ip6" /\ p.dst = d
        /\ p.src = IF RouteInside(c, d) = "tun0" THEN TunAddress(c) ELSE Inside6(c)
    BY <1>3
  <2>2. IsPacket(p)
    BY <1>3 DEF IsPacket
  <2> QED BY <1>3, <2>1, <2>2
<1>4. \/ \E f \in flows[c] : f.orig.dst = Inside(c) /\ p = f.reply
      \/ \E d, t, port :
             p = [family |-> "ip4",
                  src |-> IF RouteInside(c, d) = "tun0" THEN TunAddress(c) ELSE Inside(c),
                  dst |-> d, proto |-> t, sport |-> Own(c, d), dport |-> port]
      \/ \E d, t, port :
             /\ d = Gateway6(c) \/ (tunnel[c] /\ d = Elsewhere6)
             /\ p = [family |-> "ip6",
                     src |-> IF RouteInside(c, d) = "tun0" THEN TunAddress(c) ELSE Inside6(c),
                     dst |-> d, proto |-> t, sport |-> Own(c, d), dport |-> port]
  BY DEF SentInside
<1> QED BY <1>1, <1>2, <1>3, <1>4

\* By IPv6 a namespace reaches the host, and that only with iptables.
LEMMA UnknownIp6 ==
    ASSUME FlowInv, NEW p, p.family = "ip6"
    PROVE  /\ FlowsOf("host", p) = {} /\ State("host", p) = "new"
           /\ \A c \in Connections : State(c, p) = "new"
<1>1. \A f \in flows["host"] : f.orig # p /\ f.reply # p
  BY OuterIp4
<1>2. \A c \in Connections : \A f \in flows[c] : f.orig # p /\ f.reply # p
  BY InnerIp4
<1> QED BY <1>1, <1>2 DEF FlowsOf, State

LEMMA Ip6Stays ==
    ASSUME FlowInv, NEW b \in Backends, NEW p, IsPacket(p), p.family = "ip6", NEW iif,
           RouteOnHost(p.dst) = "local",
           \A c \in Connections : p.src # Inside(c) /\ p.dst # Inside(c)
    PROVE  OnHost(b, p, iif) =
               [at |-> IF /\ b = "nftables"
                          /\ \E c \in Installed :
                                 spec[c].socks /\ p.proto = "tcp" /\ p.dport = c
                       THEN "dropped" ELSE "host",
                packet |-> p]
<1> DEFINE frame == Frame(p, iif, "none", "new")
           out == Frame(p, "none", RouteOnHost(p.dst), "new")
<1>1. /\ frame.family = "ip6" /\ out.family = "ip6" /\ out.src = p.src /\ out.dst = p.dst
  BY FrameFields
<1> HIDE DEF frame, out
<1>2. /\ Deciding(b, "prerouting", frame, "dnat") = {}
      /\ Deciding(b, "postrouting", out, "masquerade") = {}
      /\ Deciding(b, "postrouting", out, "snat") = {}
  <2>1. CASE b = "iptables"
    BY <1>1, <2>1, NoDecisions
  <2>2. CASE b = "nftables"
    <3>1. \A c \in Installed : out.src # Inside(c) /\ out.dst # Inside(c) /\ ~Maps(c, frame)
      BY <1>1 DEF Installed, Maps
    <3> QED BY <2>2, <3>1, Decisions DEF Sees
  <2> QED BY <2>1, <2>2 DEF Backends
<1>3. Translated(b, p, iif) = WithSource(b, p)
  BY <1>2, UnknownIp6, UnmappedStays DEF frame
<1>4. WithSource(b, p) = p
  BY <1>2, SourceKept DEF out
<1> QED BY <1>3, <1>4, EndsLocal DEF OnHost, Delivered

LEMMA Ip6Inside ==
    ASSUME FlowInv, NEW b \in Backends, NEW c \in Installed, NEW p, IsPacket(p), p.family = "ip6",
           p.dst = Gateway6(c) \/ (tunnel[c] /\ p.dst = Elsewhere6),
           RouteInside(c, p.dst) # "tun0" => p.src = Inside6(c)
    PROVE  FromInside(b, c, p) =
               IF RouteInside(c, p.dst) = "tun0" THEN [at |-> "tun0", packet |-> p]
               ELSE IF b = "nftables" THEN [at |-> "stopped", packet |-> p]
               ELSE [at |-> "host", packet |-> p]
<1> DEFINE oif == RouteInside(c, p.dst)
           frame == Frame(p, "none", oif, State(c, p))
<1>0. c \in Connections /\ oif \in {"tun0", "veth"}
  BY DEF Installed, RouteInside
<1>1. /\ frame.family = "ip6" /\ frame.oif = oif /\ frame.ct = "new" /\ frame.dst = p.dst
  <2>1. State(c, p) = "new"
    BY <1>0, UnknownIp6
  <2> HIDE DEF oif
  <2> QED BY <2>1, FrameFields
<1>2. spec[c].remote # p.dst
  <2>1. spec[c].remote \in Outside
    BY InstalledSpec, SourcePorts
  <2>2. p.dst \in Addresses6
    BY <1>0 DEF Addresses6
  <2> QED BY <2>1, <2>2, DistinctAssumption
<1>3. MayLeave(c, frame) <=> oif = "tun0"
  <2> HIDE DEF frame, oif
  <2> QED BY <1>0, <1>1, <1>2 DEF MayLeave
<1>4. Outcome(b, c, "output", frame, InsidePolicy(b)) = "accept"
          <=> b = "iptables" \/ oif = "tun0"
  <2>1. CASE b = "nftables"
    <3> HIDE DEF frame, oif
    <3> QED BY <1>3, <2>1, Leaves DEF Sees
  <2>2. CASE b = "iptables"
    <3> HIDE DEF frame, oif
    <3> QED BY <1>1, <2>2, OutcomeIs DEF InsidePolicy
  <2> QED BY <2>1, <2>2 DEF Backends
<1>5. ASSUME oif = "veth", b = "iptables"
      PROVE  OnHost(b, p, c) = [at |-> "host", packet |-> p]
  <2>1. p.dst = Gateway6(c) /\ p.src = Inside6(c)
    <3>1. tunnel[c] /\ p.dst = Elsewhere6 => oif = "tun0"
      <4>1. Elsewhere6 # Gateway(c) /\ Elsewhere6 # Gateway6(c)
        BY DEF Elsewhere6, Gateway, Gateway6
      <4> QED BY <1>2, <4>1 DEF RouteInside
    <3> QED BY <1>5, <3>1
  <2>2. RouteOnHost(p.dst) = "local"
    BY <1>0, <2>1, HostRoutes
  <2>3. \A e \in Connections : p.src # Inside(e) /\ p.dst # Inside(e)
    BY <1>0, <2>1, DistinctLocal
  <2> QED BY <1>5, <2>2, <2>3, Ip6Stays
<1>6. FromInside(b, c, p) =
          IF ~(b = "iptables" \/ oif = "tun0") THEN [at |-> "stopped", packet |-> p]
          ELSE IF oif = "tun0" THEN [at |-> "tun0", packet |-> p]
          ELSE OnHost(b, p, c)
  BY <1>4 DEF FromInside
<1> HIDE DEF oif
<1>7. CASE oif = "tun0"
  BY <1>6, <1>7 DEF oif
<1>8. CASE oif = "veth"
  BY <1>5, <1>6, <1>8 DEF oif, Backends
<1> QED BY <1>0, <1>7, <1>8

\* What leaves a namespace outside its tunnel: for a server, which it reaches unless
\* a proxy takes it, or an answer to whoever called the proxy.
ToServerLeaves(c, p, e) ==
    \E n \in Remotes, t \in Protocols :
        /\ p = ToVpn(c, n, t)
        /\ State(c, p) = "new" => n = spec[c].remote /\ t = spec[c].proto
        /\ FlowsOf("host", p) # {} =>
               \E g \in flows["host"] : g.orig = p /\ g.reply = Invert(e.packet)
        /\ \/ e.packet = Masked(c, n, t) /\ e.at \in {"eth0", "dropped"}
           \/ \E d \in Connections :
                  /\ d = RemotePort[n] /\ t = "tcp"
                  /\ e.packet = Entered(p, d) /\ e.at \in {d, "eth0", "dropped"}
                  /\ FlowsOf("host", p) = {} =>
                         d \in Installed /\ spec[d].socks /\ spec[d].allow = {}

AnswerLeaves(c, p, e) ==
    \E k \in Calls(c) :
        /\ p = Invert(Entered(k, c)) /\ e.packet = Invert(k)
        /\ State(c, p) = "established"
        /\ \E f \in flows[c] : f.reply = p
        /\ \E g \in flows["host"] : g.orig = k /\ g.reply = p
        /\ \/ \E a \in Outside : k = ToPort(a, c) /\ e.at \in {"eth0", "dropped"}
           \/ \E d \in Connections, n \in Remotes :
                  /\ k = ToVpn(d, n, "tcp")
                  /\ e.at \in {d, "eth0", "dropped"}
                  /\ e.at = d => State(d, e.packet) = "established"

Leaving(c, p, e) ==
    \/ ToServerLeaves(c, p, e)
    \/ AnswerLeaves(c, p, e)
    \/ p.family = "ip6" /\ e.at = "host" /\ backend = "iptables"

LEMMA MaskEndsOutside ==
    ASSUME NEW c, NEW n \in Remotes, NEW t
    PROVE  RouteOnHost(Masked(c, n, t).dst) = "eth0"
BY VpnFields, HostRoutes, SourcePorts

LEMMA AnswerEndsOutside ==
    ASSUME NEW c, NEW a \in Outside
    PROVE  RouteOnHost(Invert(ToPort(a, c)).dst) = "eth0"
BY ProxyFields, HostRoutes

LEMMA OnHostIs ==
    ASSUME NEW b, NEW p, NEW iif
    PROVE  /\ OnHost(b, p, iif).packet = Translated(b, p, iif)
           /\ OnHost(b, p, iif).at = Passed(b, p, iif, Translated(b, p, iif))
           /\ OnHost(b, p, iif) = [at |-> Passed(b, p, iif, Translated(b, p, iif)),
                                   packet |-> Translated(b, p, iif)]
BY DEF OnHost, Delivered

\* A packet to a server, once it is translated.
LEMMA ServerLeaves ==
    ASSUME FlowInv, NEW c \in Installed, NEW n \in Remotes, NEW t \in Protocols,
           LET p == ToVpn(c, n, t)
           IN  \/ FlowsOf("host", p) # {}
               \/ n = spec[c].remote /\ t = spec[c].proto,
           State(c, ToVpn(c, n, t)) = "new" => n = spec[c].remote /\ t = spec[c].proto
    PROVE  ToServerLeaves(c, ToVpn(c, n, t), OnHost(backend, ToVpn(c, n, t), c))
<1> DEFINE p == ToVpn(c, n, t)
           q == Translated(backend, p, c)
           e == OnHost(backend, p, c)
<1>0. c \in Connections /\ backend \in Backends
  BY InstalledSpec
<1>1. e.packet = q /\ e.at = Passed(backend, p, c, q)
  BY OnHostIs
<1>2. ASSUME q = Masked(c, n, t)
      PROVE  e.at \in {"eth0", "dropped"}
  <2>1. RouteOnHost(q.dst) = "eth0"
    BY <1>2, MaskEndsOutside
  <2> HIDE DEF q, e, p
  <2> QED BY <1>1, <2>1, EndsOutside
<1>3. ASSUME RemotePort[n] \in Connections, q = Entered(p, RemotePort[n])
      PROVE  e.at \in {RemotePort[n], "eth0", "dropped"}
  <2> HIDE DEF q, e, p
  <2> QED BY <1>1, <1>3, EndsAtProxy
<1>4. FlowsOf("host", p) # {} =>
          \E g \in flows["host"] : g.orig = p /\ g.reply = Invert(q)
  BY <1>0, VpnTranslated
<1>5. \/ q = Masked(c, n, t)
      \/ /\ RemotePort[n] \in Connections /\ t = "tcp"
         /\ q = Entered(p, RemotePort[n])
         /\ FlowsOf("host", p) = {} =>
                /\ RemotePort[n] \in Installed /\ spec[RemotePort[n]].socks
                /\ spec[RemotePort[n]].allow = {}
  <2>1. CASE FlowsOf("host", p) # {}
    BY <1>0, <2>1, VpnTranslated
  <2>2. CASE FlowsOf("host", p) = {}
    <3>1. n = spec[c].remote /\ t = spec[c].proto
      BY <2>2
    <3> QED BY <3>1, NodeTranslated
  <2> QED BY <2>1, <2>2
<1> HIDE DEF p, q, e
<1>6. ToServerLeaves(c, p, e)
  <2>1. p = ToVpn(c, n, t) /\ (State(c, p) = "new" => n = spec[c].remote /\ t = spec[c].proto)
    BY DEF p
  <2> QED BY <1>1, <1>2, <1>3, <1>4, <1>5, <2>1 DEF ToServerLeaves
<1> QED BY <1>6 DEF p, e

\* An answer, once it is translated.
LEMMA CallerAnswered ==
    ASSUME FlowInv, NEW c \in Installed, NEW k \in Calls(c),
           \E f \in flows[c] : f.reply = Invert(Entered(k, c))
    PROVE  AnswerLeaves(c, Invert(Entered(k, c)), OnHost(backend, Invert(Entered(k, c)), c))
<1> DEFINE p == Invert(Entered(k, c))
           e == OnHost(backend, p, c)
<1>0. c \in Connections /\ backend \in Backends
  BY InstalledSpec
<1>1. State(c, p) = "established"
  BY DEF State
<1>2. \E g \in flows["host"] : g.orig = k /\ g.reply = p
  <2>1. /\ \A n \in Remotes, t \in Protocols :
               p # Invert(ToVpn(c, n, t)) /\ p # ToVpn(c, n, t)
        /\ \A m \in Calls(c) : p # Entered(m, c) /\ (p = Invert(Entered(m, c)) => m = k)
    BY <1>0, VpnNoProxy, ProxyDiffers
  <2> HIDE DEF p
  <2> QED BY <1>0, <1>1, <2>1, KnownInside
<1>3. FlowsOf("host", p) # {}
  BY <1>2 DEF FlowsOf
<1>4. e.packet = Invert(k) /\ e.at = Passed(backend, p, c, Invert(k))
  BY <1>0, <1>3, AnswerTranslated, OnHostIs
<1>5. ASSUME NEW a \in Outside, k = ToPort(a, c)
      PROVE  e.at \in {"eth0", "dropped"}
  <2>1. RouteOnHost(Invert(k).dst) = "eth0"
    BY <1>5, AnswerEndsOutside
  <2> HIDE DEF e, p
  <2> QED BY <1>4, <2>1, EndsOutside
<1>6. ASSUME NEW d \in Connections, NEW n \in Remotes, k = ToVpn(d, n, "tcp")
      PROVE  /\ e.at \in {d, "eth0", "dropped"}
             /\ e.at = d => State(d, e.packet) = "established"
  <2> HIDE DEF e, p
  <2> QED BY <1>4, <1>6, EndsAtVpn
<1> HIDE DEF p, e
<1>7. AnswerLeaves(c, p, e)
  <2>1. p = Invert(Entered(k, c)) /\ \E f \in flows[c] : f.reply = p
    BY DEF p
  <2>2. \/ \E a \in Outside : k = ToPort(a, c) /\ e.at \in {"eth0", "dropped"}
        \/ \E d \in Connections, n \in Remotes :
               /\ k = ToVpn(d, n, "tcp")
               /\ e.at \in {d, "eth0", "dropped"}
               /\ e.at = d => State(d, e.packet) = "established"
    BY <1>5, <1>6, CallCases
  <2> QED BY <1>1, <1>2, <1>4, <2>1, <2>2 DEF AnswerLeaves
<1> QED BY <1>7 DEF p, e

LEMMA InsideLeaves ==
    ASSUME FlowInv, NEW c \in Installed, NEW p \in SentInside(c),
           FromInside(backend, c, p).at \notin {"stopped", "tun0"}
    PROVE  Leaving(c, p, FromInside(backend, c, p))
<1> DEFINE e == FromInside(backend, c, p)
           oif == RouteInside(c, p.dst)
           frame == Frame(p, "none", oif, State(c, p))
           out == Outcome(backend, c, "output", frame, InsidePolicy(backend))
<1>0. c \in Connections /\ backend \in Backends
  BY InstalledSpec
<1>1. out = "accept" /\ oif # "tun0" /\ e = OnHost(backend, p, c)
  BY DEF FromInside
<1>2. oif = "veth"
  BY <1>1 DEF RouteInside
<1>3. CASE /\ p.family = "ip6" /\ IsPacket(p)
           /\ p.dst = Gateway6(c) \/ (tunnel[c] /\ p.dst = Elsewhere6)
           /\ RouteInside(c, p.dst) # "tun0" => p.src = Inside6(c)
  <2>1. e = IF backend = "nftables" THEN [at |-> "stopped", packet |-> p]
            ELSE [at |-> "host", packet |-> p]
    BY <1>0, <1>1, <1>3, Ip6Inside
  <2>2. e.at = "host" /\ backend = "iptables"
    <3> HIDE DEF e
    <3>1. e.at # "stopped"
      BY DEF e
    <3> QED BY <1>0, <2>1, <3>1 DEF Backends
  <2> QED BY <1>3, <2>2 DEF Leaving
<1>4. CASE \E k \in Calls(c) : /\ p = Invert(Entered(k, c))
                               /\ \E f \in flows[c] : f.reply = p
  <2>1. AnswerLeaves(c, p, OnHost(backend, p, c))
    BY <1>4, CallerAnswered
  <2> QED BY <1>1, <2>1 DEF Leaving
<1>5. CASE \E d, t, n :
          p = Packet(IF RouteInside(c, d) = "tun0" THEN TunAddress(c) ELSE Inside(c),
                     d, t, Own(c, d), n)
  <2>1. PICK d, t, n :
            p = Packet(IF RouteInside(c, d) = "tun0" THEN TunAddress(c) ELSE Inside(c),
                       d, t, Own(c, d), n)
    BY <1>5
  <2>2. p.dst = d
    BY <2>1, PacketFields
  <2>3. p = Packet(Inside(c), d, t, Own(c, d), n)
    BY <1>1, <2>1, <2>2
  <2>4. /\ p.family = "ip4" /\ p.src = Inside(c) /\ p.proto = t /\ p.dport = n
    BY <2>3, PacketFields
  <2>5. MayLeave(c, frame)
    <3>1. Sees(backend, frame)
      BY <2>4, FrameFields DEF Sees
    <3> HIDE DEF frame
    <3> QED BY <1>0, <1>1, <3>1, Leaves
  <2>6. CASE State(c, p) = "established"
    <3>1. \A m \in Remotes, u \in Protocols : p # Invert(ToVpn(c, m, u))
      BY <1>0, <2>4, VpnFields, Distinct, SourcePorts
    <3>2. \A k \in Calls(c) : p # Entered(k, c) /\ p # Invert(Entered(k, c))
      <4>1. ASSUME NEW k \in Calls(c)
            PROVE  p # Entered(k, c) /\ p # Invert(Entered(k, c))
        <5>1. Entered(k, c).src = Gateway(c)
          BY ProxyFields
        <5>2. Invert(Entered(k, c)).sport = c /\ Invert(Entered(k, c)).dst = Gateway(c)
          BY ProxyFields
        <5>3. p.sport = Own(c, d)
          BY <2>3, PacketFields
        <5> QED BY <1>0, <2>2, <2>4, <5>1, <5>2, <5>3, Distinct, SourcePorts
      <4> QED BY <4>1
    <3>3. PICK m \in Remotes, u \in Protocols : p = ToVpn(c, m, u) /\ FlowsOf("host", p) # {}
      BY <1>0, <2>6, <3>1, <3>2, KnownInside
    <3>4. ToServerLeaves(c, p, OnHost(backend, p, c))
      BY <2>6, <3>3, ServerLeaves
    <3> QED BY <1>1, <3>4 DEF Leaving
  <2>7. CASE State(c, p) = "new"
    <3>1. d = spec[c].remote /\ t = spec[c].proto /\ n = RemotePort[spec[c].remote]
      <4>1. /\ frame.oif = "veth" /\ frame.ct = "new" /\ frame.dst = d
            /\ frame.proto = t /\ frame.dport = n
        BY <1>2, <2>2, <2>4, <2>7, FrameFields
      <4> HIDE DEF frame
      <4> QED BY <2>5, <4>1 DEF MayLeave
    <3>2. p = ToVpn(c, spec[c].remote, spec[c].proto)
      BY <2>3, <3>1 DEF ToVpn
    <3>3. ToServerLeaves(c, p, OnHost(backend, p, c))
      BY <3>2, ServerLeaves, InstalledSpec
    <3> QED BY <1>1, <3>3 DEF Leaving
  <2> QED BY <2>6, <2>7, StateIs
<1> QED BY <1>0, <1>3, <1>4, <1>5, SentInsideShape

-----------------------------------------------------------------------------
\* What comes from outside.
CallEntering(p, e) ==
    \E a \in Outside, c \in Connections :
        /\ p = ToPort(a, c) /\ e.packet = Entered(p, c)
        /\ e.at \in {c, "eth0", "dropped"}
        /\ FlowsOf("host", p) # {} =>
               \E g \in flows["host"] : g.orig = p /\ g.reply = Invert(e.packet)
        /\ FlowsOf("host", p) = {} =>
               c \in Installed /\ spec[c].socks /\ (spec[c].allow = {} \/ a \in spec[c].allow)

AnswerEntering(p, e) ==
    \E c \in Connections, n \in Remotes, t \in Protocols :
        /\ p = Invert(Masked(c, n, t)) /\ e.packet = Invert(ToVpn(c, n, t))
        /\ e.at \in {c, "eth0", "dropped"}
        /\ e.at = c => State(c, e.packet) = "established"
        /\ FlowsOf("host", p) # {}
        /\ \E g \in flows["host"] : g.orig = ToVpn(c, n, t)

EndsOnHost(p, e) ==
    /\ e.at \in {"host", "dropped"}
    /\ e.at = "host" /\ p.proto = "tcp" /\ p.dport \in Installed =>
           ~spec[p.dport].socks \/ (p.family = "ip6" /\ backend = "iptables")

Entering(p, e) ==
    CallEntering(p, e) \/ AnswerEntering(p, e) \/ EndsOnHost(p, e)

LEMMA OutsideEnters ==
    ASSUME FlowInv, NEW p \in SentOutside
    PROVE  Entering(p, OnHost(backend, p, "eth0"))
<1> DEFINE e == OnHost(backend, p, "eth0")
<1>1. e.at = Passed(backend, p, "eth0", e.packet) /\ e.packet = Translated(backend, p, "eth0")
  BY OnHostIs
<1>2. backend \in Backends
  BY DEF FlowInv, FirewallOK
<1>3. ASSUME NEW a \in Outside, NEW t, NEW n, p = Packet(a, HostAddress, t, Own(a, HostAddress), n)
      PROVE  Entering(p, e)
  <2>2. /\ p.src = a /\ p.dst = HostAddress /\ p.proto = t
        /\ p.sport = Own(a, HostAddress) /\ p.dport = n /\ p.family = "ip4" /\ IsPacket(p)
    BY <1>3, PacketFields
  <2>3. CASE FlowsOf("host", p) # {}
    <3>1. PICK c \in Connections, f \in flows["host"] :
              \/ \E m \in Remotes, u \in Protocols : p = ToVpn(c, m, u) \/ p = Invert(Masked(c, m, u))
              \/ \E k \in Calls(c) :
                     /\ ProxyFlow(c, k, f)
                     /\ \/ p = k /\ e.packet = Entered(k, c)
                        \/ p = Invert(Entered(k, c))
      BY <1>1, <2>3, KnownTranslated
    <3>2. \A m, u : p # ToVpn(c, m, u)
      BY <2>2, VpnFields, Distinct
    <3>3. \A u : \A m \in Remotes : p # Invert(Masked(c, m, u))
      <4>1. p.sport \notin Ports
        BY <2>2, SourcePorts
      <4> QED BY <4>1, VpnFields, SourcePorts
    <3>4. ASSUME NEW k
          PROVE  p # Invert(Entered(k, c))
      <4>1. Invert(Entered(k, c)).src = Inside(c)
        BY ProxyFields
      <4> QED BY <2>2, <4>1, Distinct
    <3>5. PICK k \in Calls(c) : ProxyFlow(c, k, f) /\ p = k /\ e.packet = Entered(k, c)
      BY <3>1, <3>2, <3>3, <3>4
    <3>6. p = ToPort(a, c)
      BY <1>3, <2>2, <3>5, CallFields DEF ToPort
    <3>7. e.at \in {c, "eth0", "dropped"}
      BY <1>1, <3>5, EndsAtProxy
    <3>8. f.orig = p /\ f.reply = Invert(e.packet)
      BY <3>5 DEF ProxyFlow
    <3> HIDE DEF e
    <3>9. CallEntering(p, e)
      BY <2>3, <3>5, <3>6, <3>7, <3>8 DEF CallEntering
    <3> QED BY <3>9 DEF Entering
  <2> DEFINE frame == Frame(p, "eth0", "none", "new")
             out == Frame(p, "none", RouteOnHost(p.dst), "new")
  <2>4. /\ frame.family = "ip4" /\ frame.src = a /\ frame.proto = t /\ frame.dport = n
        /\ out.family = "ip4" /\ out.src = a /\ out.dst = HostAddress
    BY <2>2, FrameFields
  <2> HIDE DEF frame, out
  <2>5. CASE FlowsOf("host", p) = {} /\ \A c \in Installed : ~Maps(c, frame)
    <3>1. e.packet = WithSource(backend, p)
      <4>1. Deciding(backend, "prerouting", frame, "dnat") = {}
        BY <1>2, <2>4, <2>5, Decisions DEF Sees
      <4> QED BY <1>1, <2>2, <2>5, <4>1, UnmappedStays DEF frame
    <3>2. WithSource(backend, p) = p
      <4>1. \A c \in Installed : a # Inside(c) /\ HostAddress # Inside(c)
        BY Distinct DEF Installed
      <4>2. /\ Deciding(backend, "postrouting", out, "masquerade") = {}
            /\ Deciding(backend, "postrouting", out, "snat") = {}
        BY <1>2, <2>4, <4>1, Decisions DEF Sees
      <4> QED BY <2>2, <4>2, SourceKept DEF out
    <3>3. RouteOnHost(e.packet.dst) = "local"
      BY <2>2, <3>1, <3>2, HostRoutes
    <3>4. e.at = IF \E c \in Installed : spec[c].socks /\ t = "tcp" /\ n = c
                 THEN "dropped" ELSE "host"
      BY <1>1, <1>2, <2>2, <3>3, EndsLocal
    <3> HIDE DEF e
    <3> QED BY <2>2, <3>4 DEF Entering, EndsOnHost
  <2>6. ASSUME FlowsOf("host", p) = {}, NEW c \in Installed, Maps(c, frame)
        PROVE  Entering(p, e)
    <3>1. /\ t = "tcp" /\ n = c /\ spec[c].socks
          /\ spec[c].allow = {} \/ a \in spec[c].allow
      BY <2>4, <2>6 DEF Maps
    <3>2. p = ToPort(a, c) /\ c \in Connections
      BY <1>3, <3>1 DEF ToPort, Installed
    <3>3. e.packet = Entered(p, c)
      BY <1>1, <1>2, <2>6, <3>2, CallsAre, CallEnters DEF frame
    <3>4. e.at \in {c, "eth0", "dropped"}
      BY <1>1, <3>2, <3>3, EndsAtProxy
    <3> HIDE DEF e
    <3> QED BY <2>6, <3>1, <3>2, <3>3, <3>4 DEF Entering, CallEntering
  <2> QED BY <2>3, <2>5, <2>6
<1>4. ASSUME NEW f \in flows["host"], f.reply.dst = HostAddress, p = f.reply
      PROVE  Entering(p, e)
  <2>1. PICK c \in Connections :
            \/ \E n \in Remotes, t \in Protocols : VpnFlow(c, n, t, f)
            \/ \E k \in Calls(c) : ProxyFlow(c, k, f)
    BY OuterPackets DEF FlowInv, OuterFlows
  <2>2. ASSUME NEW k
        PROVE  ~ProxyFlow(c, k, f)
    <3>1. Invert(Entered(k, c)).dst = Gateway(c)
      BY ProxyFields
    <3> QED BY <1>4, <3>1, Distinct DEF ProxyFlow
  <2>3. PICK n \in Remotes, t \in Protocols : VpnFlow(c, n, t, f)
    BY <2>1, <2>2
  <2>4. f.orig = ToVpn(c, n, t) /\ p = Invert(Masked(c, n, t))
    BY <1>4, <2>3 DEF VpnFlow
  <2>5. FlowsOf("host", p) # {}
    BY <1>4 DEF FlowsOf
  <2>6. PICK d \in Connections :
            \/ \E m \in Remotes, u \in Protocols :
                   \/ p = ToVpn(d, m, u)
                   \/ p = Invert(Masked(d, m, u)) /\ e.packet = Invert(ToVpn(d, m, u))
            \/ \E k \in Calls(d) : p = k \/ p = Invert(Entered(k, d))
    BY <1>1, <2>5, KnownTranslated
  <2>7. e.packet = Invert(ToVpn(c, n, t))
    BY <2>4, <2>6, VpnDiffers, VpnNoProxy
  <2>8. e.at \in {c, "eth0", "dropped"} /\ (e.at = c => State(c, e.packet) = "established")
    BY <1>1, <2>7, EndsAtVpn
  <2> HIDE DEF e
  <2> QED BY <2>4, <2>5, <2>7, <2>8 DEF Entering, AnswerEntering
<1>5. ASSUME NEW t, NEW n,
             p = [family |-> "ip6", src |-> Elsewhere6, dst |-> HostAddress6, proto |-> t,
                  sport |-> Own(Elsewhere6, HostAddress6), dport |-> n]
      PROVE  Entering(p, e)
  <2>1. /\ p.family = "ip6" /\ p.src = Elsewhere6 /\ p.dst = HostAddress6 /\ p.proto = t
        /\ p.dport = n
    BY <1>5
  <2>2. IsPacket(p)
    BY <1>5 DEF IsPacket
  <2>3. \A c \in Connections : p.src # Inside(c) /\ p.dst # Inside(c)
    BY <2>1, DistinctLocal
  <2>4. e.at = IF /\ backend = "nftables"
                  /\ \E c \in Installed : spec[c].socks /\ p.proto = "tcp" /\ p.dport = c
               THEN "dropped" ELSE "host"
    BY <1>2, <2>1, <2>2, <2>3, HostRoutes, Ip6Stays
  <2> HIDE DEF e
  <2> QED BY <1>2, <2>1, <2>4 DEF Entering, EndsOnHost, Backends
<1>6. \/ \E a \in Outside : \E t, n : p = Packet(a, HostAddress, t, Own(a, HostAddress), n)
      \/ \E t, n : p = [family |-> "ip6", src |-> Elsewhere6, dst |-> HostAddress6, proto |-> t,
                        sport |-> Own(Elsewhere6, HostAddress6), dport |-> n]
      \/ \E f \in flows["host"] : f.reply.dst = HostAddress /\ p = f.reply
  BY DEF SentOutside, Packet
<1> QED BY <1>3, <1>4, <1>5, <1>6

-----------------------------------------------------------------------------
\* The flows after a packet.

\* Answered and Unanswered stand for the values TRUE and FALSE, and Marked for the
\* EXCEPT of Tracked: the provers take none apart.
Answered == TRUE
Unanswered == FALSE
Marked(f, x) == [f EXCEPT !.answered = x]

LEMMA MarkedIs ==
    ASSUME NEW f
    PROVE  [f EXCEPT !.answered = TRUE] = Marked(f, Answered)
BY Zenon DEF Marked, Answered

LEMMA MarkedFlow ==
    ASSUME NEW o, NEW r, NEW x, NEW y
    PROVE  Marked(Flow(o, r, x), y) = Flow(o, r, y)
<1>1. [Flow(o, r, x) EXCEPT !.answered = y] = Flow(o, r, y)
  BY DEF Flow
<1> QED BY <1>1 DEF Marked

AreFlows(entries) == \A f \in entries : f = Flow(f.orig, f.reply, f.answered)

\* No flow is forgotten.
Extends(entries, later) ==
    \A g \in entries : \E h \in later : h.orig = g.orig /\ h.reply = g.reply

\* A packet leaves the flows as they were, but for the mark of an answer, and adds
\* its own if there was none.
LEMMA TrackedFlows ==
    ASSUME NEW entries, AreFlows(entries), NEW p, NEW reply
    PROVE  /\ \A f \in Tracked(entries, p, reply) :
                  \/ f \in entries
                  \/ \E g \in entries : g.reply = p /\ f = Flow(g.orig, g.reply, Answered)
                  \/ /\ f = Flow(p, reply, Unanswered)
                     /\ ~\E g \in entries : p \in {g.orig, g.reply}
           /\ Extends(entries, Tracked(entries, p, reply))
           /\ (~\E g \in entries : p \in {g.orig, g.reply})
                  => Flow(p, reply, Unanswered) \in Tracked(entries, p, reply)
<1>1. CASE \E f \in entries : f.reply = p
  <2>1. Tracked(entries, p, reply)
            = {IF f.reply = p THEN Marked(f, Answered) ELSE f : f \in entries}
    <3>1. Tracked(entries, p, reply)
              = {IF f.reply = p THEN [f EXCEPT !.answered = TRUE] ELSE f : f \in entries}
      BY <1>1 DEF Tracked
    <3> QED BY <3>1, MarkedIs, Zenon
  <2>2. \A f \in entries : Marked(f, Answered) = Flow(f.orig, f.reply, Answered)
    BY MarkedFlow DEF AreFlows
  <2>3. \A f \in entries : /\ Flow(f.orig, f.reply, Answered).orig = f.orig
                           /\ Flow(f.orig, f.reply, Answered).reply = f.reply
    BY FlowFields
  <2>4. ASSUME NEW f \in Tracked(entries, p, reply)
        PROVE  f \in entries \/ \E g \in entries : g.reply = p /\ f = Flow(g.orig, g.reply, Answered)
    BY <2>1, <2>2
  <2>5. ASSUME NEW g \in entries
        PROVE  \E f \in Tracked(entries, p, reply) : f.orig = g.orig /\ f.reply = g.reply
    <3>1. CASE g.reply = p
      BY <2>1, <2>2, <2>3, <3>1
    <3>2. CASE g.reply # p
      BY <2>1, <3>2
    <3> QED BY <3>1, <3>2
  <2> QED BY <1>1, <2>4, <2>5 DEF Extends
<1>2. CASE /\ ~\E f \in entries : f.reply = p
           /\ \E f \in entries : f.orig = p
  <2>1. Tracked(entries, p, reply) = entries
    BY <1>2 DEF Tracked
  <2> QED BY <1>2, <2>1 DEF Extends
<1>3. CASE ~\E f \in entries : p \in {f.orig, f.reply}
  <2>1. Tracked(entries, p, reply) = entries \cup {Flow(p, reply, Unanswered)}
    <3>1. Tracked(entries, p, reply)
              = entries \cup {[orig |-> p, reply |-> reply, answered |-> FALSE]}
      BY <1>3 DEF Tracked
    <3> QED BY <3>1, Zenon DEF Flow, Unanswered
  <2> QED BY <1>3, <2>1 DEF Extends
<1> QED BY <1>1, <1>2, <1>3

LEMMA InnerAreFlows ==
    ASSUME NEW c, NEW entries, NEW host, InnerOK(c, entries, host)
    PROVE  AreFlows(entries)
BY InnerPackets DEF AreFlows

LEMMA OuterAreFlows ==
    ASSUME NEW host, OuterOK(host)
    PROVE  AreFlows(host)
BY OuterPackets DEF AreFlows

\* The flows of the host stay of their kinds.
LEMMA OuterTracked ==
    ASSUME NEW host, OuterOK(host), OneReply(host), NEW p, NEW reply,
           (~\E g \in host : p \in {g.orig, g.reply}) => OuterFlow(Flow(p, reply, Unanswered))
    PROVE  OuterOK(Tracked(host, p, reply)) /\ OneReply(Tracked(host, p, reply))
<1>0. AreFlows(host)
  BY OuterAreFlows
<1>1. ASSUME NEW g \in host
      PROVE  OuterFlow(Flow(g.orig, g.reply, Answered))
  <2> DEFINE f == Flow(g.orig, g.reply, Answered)
  <2>1. f = Flow(g.orig, g.reply, f.answered)
    BY FlowAnswered
  <2> HIDE DEF f
  <2>2. PICK c \in Connections :
            \/ \E n \in Remotes, t \in Protocols : VpnFlow(c, n, t, g)
            \/ \E k \in Calls(c) : ProxyFlow(c, k, g)
    BY OuterPackets
  <2>3. ASSUME NEW n \in Remotes, NEW t \in Protocols, VpnFlow(c, n, t, g)
        PROVE  OuterVpn(c, n, t, f)
    BY <2>1, <2>3 DEF OuterVpn, VpnFlow
  <2>4. ASSUME NEW k \in Calls(c), ProxyFlow(c, k, g)
        PROVE  OuterProxy(c, k, f)
    BY <2>1, <2>4 DEF OuterProxy, ProxyFlow
  <2>5. OuterFlow(f)
    BY <2>2, <2>3, <2>4 DEF OuterFlow
  <2> QED BY <2>5 DEF f
<1>2. \A f \in Tracked(host, p, reply) :
          \/ f \in host
          \/ \E g \in host : g.reply = p /\ f = Flow(g.orig, g.reply, Answered)
          \/ /\ f = Flow(p, reply, Unanswered)
             /\ ~\E g \in host : p \in {g.orig, g.reply}
  BY <1>0, TrackedFlows
<1>3. OuterOK(Tracked(host, p, reply))
  BY <1>1, <1>2 DEF OuterOK
<1>4. ASSUME NEW f \in Tracked(host, p, reply)
      PROVE  \/ \E g \in host : g.orig = f.orig /\ g.reply = f.reply
             \/ f.orig = p /\ f.reply = reply /\ ~\E g \in host : g.orig = p
  BY <1>2, FlowFields
<1>5. OneReply(Tracked(host, p, reply))
  <2> SUFFICES ASSUME NEW f \in Tracked(host, p, reply), NEW g \in Tracked(host, p, reply),
                      f.orig = g.orig
               PROVE  f.reply = g.reply
    BY DEF OneReply
  <2> QED BY <1>4 DEF OneReply
<1> QED BY <1>3, <1>5

\* The same for the flows of a namespace.
LEMMA InnerKept ==
    ASSUME NEW c, NEW entries, NEW host, InnerOK(c, entries, host),
           NEW later, Extends(host, later)
    PROVE  InnerOK(c, entries, later)
<1> SUFFICES ASSUME NEW f \in entries
             PROVE  InnerFlow(c, f, later)
  BY DEF InnerOK
<1>1. ASSUME NEW n \in Remotes, NEW t \in Protocols, InnerVpn(c, n, t, f, host)
      PROVE  InnerVpn(c, n, t, f, later)
  BY <1>1 DEF InnerVpn, Extends
<1>2. ASSUME NEW k \in Calls(c), InnerProxy(c, k, f, host)
      PROVE  InnerProxy(c, k, f, later)
  BY <1>2 DEF InnerProxy, Extends
<1> QED BY <1>1, <1>2 DEF InnerOK, InnerFlow

LEMMA InnerTracked ==
    ASSUME NEW c, NEW entries, NEW host, InnerOK(c, entries, host), NEW p, NEW reply,
           \A g \in entries : g.reply = p => InnerFlow(c, Flow(g.orig, g.reply, Answered), host),
           (~\E g \in entries : p \in {g.orig, g.reply})
               => InnerFlow(c, Flow(p, reply, Unanswered), host)
    PROVE  InnerOK(c, Tracked(entries, p, reply), host)
<1>1. \A f \in Tracked(entries, p, reply) :
          \/ f \in entries
          \/ \E g \in entries : g.reply = p /\ f = Flow(g.orig, g.reply, Answered)
          \/ f = Flow(p, reply, Unanswered) /\ ~\E g \in entries : p \in {g.orig, g.reply}
  BY InnerAreFlows, TrackedFlows
<1> QED BY <1>1 DEF InnerOK

\* The answer to a packet of an OpenVPN, and that of a proxy.
LEMMA VpnAnswered ==
    ASSUME NEW c, NEW n \in Remotes, NEW t \in Protocols, NEW host,
           \E g \in host : g.orig = ToVpn(c, n, t), NEW x
    PROVE  InnerFlow(c, Flow(ToVpn(c, n, t), Invert(ToVpn(c, n, t)), x), host)
<1> DEFINE f == Flow(ToVpn(c, n, t), Invert(ToVpn(c, n, t)), x)
<1>1. f = Flow(ToVpn(c, n, t), Invert(ToVpn(c, n, t)), f.answered)
  BY FlowAnswered
<1> HIDE DEF f
<1>2. InnerFlow(c, f, host)
  BY <1>1 DEF InnerFlow, InnerVpn
<1> QED BY <1>2 DEF f

LEMMA ProxyAnswered ==
    ASSUME NEW c, NEW k \in Calls(c), NEW host,
           \E g \in host : g.orig = k /\ g.reply = Invert(Entered(k, c)), NEW x
    PROVE  InnerFlow(c, Flow(Entered(k, c), Invert(Entered(k, c)), x), host)
<1> DEFINE f == Flow(Entered(k, c), Invert(Entered(k, c)), x)
<1>1. f = Flow(Entered(k, c), Invert(Entered(k, c)), f.answered)
  BY FlowAnswered
<1> HIDE DEF f
<1>2. InnerFlow(c, f, host)
  BY <1>1 DEF InnerFlow, InnerProxy
<1> QED BY <1>2 DEF f

LEMMA VpnOpened ==
    ASSUME NEW c, NEW n \in Remotes, NEW t \in Protocols, NEW host
    PROVE  InnerFlow(c, Flow(ToVpn(c, n, t), Invert(ToVpn(c, n, t)), Unanswered), host)
<1> DEFINE f == Flow(ToVpn(c, n, t), Invert(ToVpn(c, n, t)), Unanswered)
<1>1. f = Flow(ToVpn(c, n, t), Invert(ToVpn(c, n, t)), f.answered) /\ ~f.answered
  BY FlowAnswered DEF Unanswered
<1> HIDE DEF f
<1>2. InnerFlow(c, f, host)
  BY <1>1 DEF InnerFlow, InnerVpn
<1> QED BY <1>2 DEF f

\* A namespace after a packet that it sent.
LEMMA ServerLeft ==
    ASSUME NEW c \in Connections, NEW entries, NEW host, InnerOK(c, entries, host),
           NEW n \in Remotes, NEW t \in Protocols
    PROVE  InnerOK(c, Tracked(entries, ToVpn(c, n, t), Invert(ToVpn(c, n, t))), host)
<1>1. \A g \in entries : g.reply # ToVpn(c, n, t)
  BY InnerPackets, VpnDiffers, VpnNoProxy
<1> QED BY <1>1, VpnOpened, InnerTracked

LEMMA AnswerLeft ==
    ASSUME NEW c \in Connections, NEW entries, NEW host, InnerOK(c, entries, host),
           NEW k \in Calls(c), \E f \in entries : f.reply = Invert(Entered(k, c)),
           \E g \in host : g.orig = k /\ g.reply = Invert(Entered(k, c)), NEW r
    PROVE  InnerOK(c, Tracked(entries, Invert(Entered(k, c)), r), host)
<1> DEFINE p == Invert(Entered(k, c))
<1>1. ASSUME NEW g \in entries, g.reply = p
      PROVE  InnerFlow(c, Flow(g.orig, g.reply, Answered), host)
  <2>1. \A t : \A n \in Remotes : g.reply # Invert(ToVpn(c, n, t))
    BY <1>1, VpnNoProxy
  <2>2. PICK m \in Calls(c) : g.orig = Entered(m, c) /\ g.reply = Invert(Entered(m, c))
    BY <2>1, InnerPackets
  <2>3. m = k
    BY <1>1, <2>2, ProxyDiffers
  <2> HIDE DEF p
  <2> QED BY <2>2, <2>3, ProxyAnswered
<1> QED BY <1>1, InnerTracked

\* A namespace after a packet that entered it.
LEMMA CallEntered ==
    ASSUME NEW c \in Connections, NEW entries, NEW host, InnerOK(c, entries, host),
           NEW k \in Calls(c),
           \E g \in host : g.orig = k /\ g.reply = Invert(Entered(k, c))
    PROVE  InnerOK(c, Tracked(entries, Entered(k, c), Invert(Entered(k, c))), host)
<1>1. \A g \in entries : g.reply # Entered(k, c)
  BY InnerPackets, VpnNoProxy, ProxyDiffers
<1> QED BY <1>1, ProxyAnswered, InnerTracked

LEMMA AnswerEntered ==
    ASSUME NEW c \in Connections, NEW entries, NEW host, InnerOK(c, entries, host),
           NEW n \in Remotes, NEW t \in Protocols,
           \E g \in entries : Invert(ToVpn(c, n, t)) \in {g.orig, g.reply},
           \E g \in host : g.orig = ToVpn(c, n, t), NEW r
    PROVE  InnerOK(c, Tracked(entries, Invert(ToVpn(c, n, t)), r), host)
<1> DEFINE p == Invert(ToVpn(c, n, t))
<1>1. ASSUME NEW g \in entries, g.reply = p
      PROVE  InnerFlow(c, Flow(g.orig, g.reply, Answered), host)
  <2>1. \A k \in Calls(c) : g.reply # Invert(Entered(k, c))
    BY <1>1, VpnNoProxy
  <2>2. PICK m \in Remotes, u \in Protocols :
            g.orig = ToVpn(c, m, u) /\ g.reply = Invert(ToVpn(c, m, u))
    BY <2>1, InnerPackets
  <2>3. m = n /\ u = t
    <3>1. Invert(ToVpn(c, m, u)) = Invert(ToVpn(c, n, t))
      BY <1>1, <2>2
    <3> QED BY <3>1, VpnDiffers
  <2> HIDE DEF p
  <2> QED BY <2>2, <2>3, VpnAnswered
<1> QED BY <1>1, InnerTracked

LEMMA TrackPlaces ==
    ASSUME FlowInv, NEW from \in Connections \cup {"outside"}, NEW p, NEW e,
           Track(from, p, e)
    PROVE  /\ FirewallOK'
           /\ flows'["host"] = IF e.at \in Connections \cup {"eth0"}
                               THEN Tracked(flows["host"], p, Invert(e.packet))
                               ELSE flows["host"]
           /\ \A c \in Connections :
                  LET left == IF c = from THEN SeenFrom(flows[c], p, e) ELSE flows[c]
                  IN  flows'[c] = IF c = e.at
                                  THEN Tracked(left, e.packet, Invert(e.packet)) ELSE left
<1>1. DOMAIN flows = Connections \cup {"host"}
  BY DEF FlowInv, FirewallOK
<1>2. flows' = [place \in DOMAIN flows |->
           LET left == IF place = from THEN SeenFrom(flows[place], p, e) ELSE flows[place]
           IN  CASE place = "host" /\ e.at \in Connections \cup {"eth0"} ->
                        Tracked(left, p, Invert(e.packet))
                 [] place \in Connections /\ place = e.at ->
                        Tracked(left, e.packet, Invert(e.packet))
                 [] OTHER -> left]
  BY DEF Track
<1>3. "host" \notin Connections /\ "outside" \notin Connections /\ "host" # from
  BY DistinctAssumption DEF Reserved
<1>4. flows'["host"] = IF e.at \in Connections \cup {"eth0"}
                       THEN Tracked(flows["host"], p, Invert(e.packet))
                       ELSE flows["host"]
  BY <1>1, <1>2, <1>3
<1>5. ASSUME NEW c \in Connections
      PROVE  LET left == IF c = from THEN SeenFrom(flows[c], p, e) ELSE flows[c]
             IN  flows'[c] = IF c = e.at
                             THEN Tracked(left, e.packet, Invert(e.packet)) ELSE left
  BY <1>1, <1>2, <1>3
<1>6. DOMAIN flows' = Connections \cup {"host"}
  BY <1>1, <1>2
<1>7. UNCHANGED <<backend, forwards, spec, tunnel>>
  BY DEF Track
<1>8. FirewallOK'
  BY <1>6, <1>7 DEF FlowInv, FirewallOK
<1> QED BY <1>4, <1>5, <1>8

\* What it takes of a packet to keep the flows of their kinds: on the host, in the
\* namespace that it leaves and in the one that it enters.
HostKeeps(p, e) ==
    /\ e.at \in Connections \cup {"eth0"}
    /\ ~\E g \in flows["host"] : p \in {g.orig, g.reply}
    => OuterFlow(Flow(p, Invert(e.packet), Unanswered))

LeavingKeeps(c, p, e) ==
    \A later : Extends(flows["host"], later) => InnerOK(c, SeenFrom(flows[c], p, e), later)

EnteringKeeps(p, e) ==
    e.at \in Connections => \A entries, later :
        /\ Extends(flows[e.at], entries) /\ InnerOK(e.at, entries, later)
        /\ Extends(flows["host"], later)
        /\ (~\E g \in flows["host"] : p \in {g.orig, g.reply})
               => Flow(p, Invert(e.packet), Unanswered) \in later
        => InnerOK(e.at, Tracked(entries, e.packet, Invert(e.packet)), later)

LEMMA SameExtends ==
    ASSUME NEW entries
    PROVE  Extends(entries, entries)
BY DEF Extends

LEMMA SendKeeps ==
    ASSUME FlowInv, NEW from \in Connections \cup {"outside"}, NEW p, NEW e,
           Track(from, p, e),
           HostKeeps(p, e),
           from \in Connections => LeavingKeeps(from, p, e),
           EnteringKeeps(p, e)
    PROVE  FlowInv'
<1> DEFINE host == flows["host"]
           later == flows'["host"]
<1>1. /\ FirewallOK'
      /\ later = IF e.at \in Connections \cup {"eth0"}
                 THEN Tracked(host, p, Invert(e.packet)) ELSE host
      /\ \A c \in Connections :
             LET left == IF c = from THEN SeenFrom(flows[c], p, e) ELSE flows[c]
             IN  flows'[c] = IF c = e.at
                             THEN Tracked(left, e.packet, Invert(e.packet)) ELSE left
  BY TrackPlaces
<1>2. OuterOK(host) /\ OneReply(host) /\ AreFlows(host)
  BY OuterAreFlows DEF FlowInv, OuterFlows
<1> DEFINE tracked == Tracked(host, p, Invert(e.packet))
<1>3. /\ Extends(host, tracked)
      /\ (~\E g \in host : p \in {g.orig, g.reply})
             => Flow(p, Invert(e.packet), Unanswered) \in tracked
  BY <1>2, TrackedFlows
<1>4. e.at \in Connections \cup {"eth0"} => OuterOK(tracked) /\ OneReply(tracked)
  BY <1>2, OuterTracked DEF HostKeeps
<1> HIDE DEF tracked, host, later
<1>5. /\ OuterOK(later) /\ OneReply(later) /\ Extends(host, later)
      /\ e.at \in Connections =>
             ((~\E g \in host : p \in {g.orig, g.reply})
                  => Flow(p, Invert(e.packet), Unanswered) \in later)
  BY <1>1, <1>2, <1>3, <1>4, SameExtends DEF tracked
<1>6. ASSUME NEW c \in Connections
      PROVE  InnerOK(c, flows'[c], later)
  <2> DEFINE left == IF c = from THEN SeenFrom(flows[c], p, e) ELSE flows[c]
  <2>1. InnerOK(c, flows[c], host)
    BY DEF FlowInv, InnerFlows, host
  <2>2. InnerOK(c, left, later)
    <3>1. InnerOK(c, flows[c], later)
      BY <1>5, <2>1, InnerKept
    <3>2. c = from => InnerOK(c, SeenFrom(flows[c], p, e), later)
      BY <1>5 DEF LeavingKeeps, host
    <3> QED BY <3>1, <3>2
  <2>3. Extends(flows[c], left)
    <3>1. AreFlows(flows[c])
      BY <2>1, InnerAreFlows
    <3>2. Extends(flows[c], SeenFrom(flows[c], p, e))
      BY <3>1, TrackedFlows, SameExtends DEF SeenFrom
    <3> QED BY <3>2, SameExtends
  <2> HIDE DEF left
  <2>4. flows'[c] = IF c = e.at THEN Tracked(left, e.packet, Invert(e.packet)) ELSE left
    BY <1>1 DEF left
  <2>5. CASE c = e.at
    <3>1. InnerOK(c, Tracked(left, e.packet, Invert(e.packet)), later)
      BY <1>5, <2>2, <2>3, <2>5 DEF EnteringKeeps, host
    <3> QED BY <2>4, <2>5, <3>1
  <2>6. CASE c # e.at
    BY <2>2, <2>4, <2>6
  <2> QED BY <2>5, <2>6
<1> QED BY <1>1, <1>5, <1>6 DEF FlowInv, InnerFlows, OuterFlows, later

LEMMA SeenIs ==
    ASSUME NEW entries, NEW p, NEW e
    PROVE  SeenFrom(entries, p, e) =
               IF e.at \in {"stopped", "tun0", "host"} THEN entries
               ELSE Tracked(entries, p, Invert(p))
BY DEF SeenFrom

\* A packet that ends on the host or before opens no flow.
LEMMA NothingKept ==
    ASSUME FlowInv, NEW p, NEW e, e.at \in {"stopped", "tun0", "host", "dropped"}
    PROVE  /\ HostKeeps(p, e) /\ EnteringKeeps(p, e)
           /\ \A c \in Connections : e.at # "dropped" => LeavingKeeps(c, p, e)
<1>1. e.at \notin Connections \cup {"eth0"}
  BY DistinctAssumption DEF Reserved
<1>2. ASSUME NEW c \in Connections, e.at # "dropped"
      PROVE  LeavingKeeps(c, p, e)
  <2>1. SeenFrom(flows[c], p, e) = flows[c]
    BY <1>2, SeenIs
  <2> QED BY <2>1, InnerKept DEF LeavingKeeps, FlowInv, InnerFlows
<1> QED BY <1>1, <1>2 DEF HostKeeps, EnteringKeeps

LEMMA SendInsideKeeps ==
    ASSUME FlowInv, NEW c \in Connections, SendInside(c)
    PROVE  FlowInv'
<1>1. PICK p \in SentInside(c) : Track(c, p, FromInside(backend, c, p))
  BY DEF SendInside
<1> DEFINE e == FromInside(backend, c, p)
<1>2. c \in Installed
  BY DEF SendInside, Installed
<1>3. Track(c, p, e)
  BY <1>1
<1>4. e.at \notin {"stopped", "tun0"} => Leaving(c, p, e)
  BY <1>2, InsideLeaves
<1> HIDE DEF e
<1>5. \A d \in Connections : d \notin {"stopped", "tun0", "host", "dropped", "eth0"}
  BY Distinct DEF Reserved
<1>6. InnerOK(c, flows[c], flows["host"])
  BY DEF FlowInv, InnerFlows
<1>7. CASE e.at \in {"stopped", "tun0", "host"}
  BY <1>3, <1>7, NothingKept, SendKeeps
<1>8. CASE e.at \notin {"stopped", "tun0", "host"} /\ ToServerLeaves(c, p, e)
  <2>1. PICK n \in Remotes, t \in Protocols :
            /\ p = ToVpn(c, n, t)
            /\ FlowsOf("host", p) # {} =>
                   \E g \in flows["host"] : g.orig = p /\ g.reply = Invert(e.packet)
            /\ \/ e.packet = Masked(c, n, t) /\ e.at \in {"eth0", "dropped"}
               \/ \E d \in Connections :
                      /\ d = RemotePort[n] /\ t = "tcp"
                      /\ e.packet = Entered(p, d) /\ e.at \in {d, "eth0", "dropped"}
    BY <1>8 DEF ToServerLeaves
  <2>2. LeavingKeeps(c, p, e)
    <3>1. SeenFrom(flows[c], p, e) = Tracked(flows[c], p, Invert(p))
      BY <1>8, SeenIs
    <3>2. ASSUME NEW later, Extends(flows["host"], later)
          PROVE  InnerOK(c, Tracked(flows[c], p, Invert(p)), later)
      <4>1. InnerOK(c, flows[c], later)
        BY <1>6, <3>2, InnerKept
      <4> QED BY <2>1, <4>1, ServerLeft
    <3> QED BY <3>1, <3>2 DEF LeavingKeeps
  <2>3. CASE e.packet = Masked(c, n, t) /\ e.at \in {"eth0", "dropped"}
    <3>1. OuterFlow(Flow(p, Invert(e.packet), Unanswered))
      <4>1. OuterVpn(c, n, t, Flow(p, Invert(e.packet), Unanswered))
        BY <2>1, <2>3, FlowAnswered DEF OuterVpn
      <4> QED BY <4>1 DEF OuterFlow
    <3>2. HostKeeps(p, e) /\ EnteringKeeps(p, e)
      BY <1>5, <2>3, <3>1 DEF HostKeeps, EnteringKeeps
    <3> QED BY <1>3, <2>2, <3>2, SendKeeps
  <2>4. ASSUME NEW d \in Connections, d = RemotePort[n], t = "tcp",
               e.packet = Entered(p, d), e.at \in {d, "eth0", "dropped"}
        PROVE  FlowInv'
    <3>1. p \in Calls(d)
      BY <2>1, <2>4, CallsAre
    <3>2. OuterFlow(Flow(p, Invert(e.packet), Unanswered))
      <4>1. OuterProxy(d, p, Flow(p, Invert(e.packet), Unanswered))
        BY <2>4, FlowAnswered DEF OuterProxy
      <4> QED BY <3>1, <4>1 DEF OuterFlow
    <3>3. HostKeeps(p, e)
      BY <3>2 DEF HostKeeps
    <3>4. EnteringKeeps(p, e)
      <4> SUFFICES ASSUME e.at \in Connections, NEW entries, NEW later,
                          InnerOK(e.at, entries, later), Extends(flows["host"], later),
                          (~\E g \in flows["host"] : p \in {g.orig, g.reply})
                              => Flow(p, Invert(e.packet), Unanswered) \in later
                   PROVE  InnerOK(e.at, Tracked(entries, e.packet, Invert(e.packet)), later)
        BY DEF EnteringKeeps
      <4>1. e.at = d
        BY <1>5, <2>4
      <4>2. \E g \in later : g.orig = p /\ g.reply = Invert(e.packet)
        <5>1. CASE FlowsOf("host", p) # {}
          BY <2>1, <5>1 DEF Extends
        <5>2. CASE FlowsOf("host", p) = {}
          BY <5>2, FlowFields DEF FlowsOf
        <5> QED BY <5>1, <5>2
      <4> QED BY <2>4, <3>1, <4>1, <4>2, CallEntered
    <3> QED BY <1>3, <2>2, <3>3, <3>4, SendKeeps
  <2> QED BY <2>1, <2>3, <2>4
<1>9. CASE e.at \notin {"stopped", "tun0", "host"} /\ AnswerLeaves(c, p, e)
  <2>1. PICK k \in Calls(c) :
            /\ p = Invert(Entered(k, c)) /\ e.packet = Invert(k)
            /\ \E f \in flows[c] : f.reply = p
            /\ \E g \in flows["host"] : g.orig = k /\ g.reply = p
            /\ \/ \E a \in Outside : k = ToPort(a, c) /\ e.at \in {"eth0", "dropped"}
               \/ \E d \in Connections, n \in Remotes :
                      /\ k = ToVpn(d, n, "tcp")
                      /\ e.at \in {d, "eth0", "dropped"}
                      /\ e.at = d => State(d, e.packet) = "established"
    BY <1>9 DEF AnswerLeaves
  <2>2. LeavingKeeps(c, p, e)
    <3>1. SeenFrom(flows[c], p, e) = Tracked(flows[c], p, Invert(p))
      BY <1>9, SeenIs
    <3>2. ASSUME NEW later, Extends(flows["host"], later)
          PROVE  InnerOK(c, Tracked(flows[c], p, Invert(p)), later)
      <4>1. InnerOK(c, flows[c], later)
        BY <1>6, <3>2, InnerKept
      <4>2. \E g \in later : g.orig = k /\ g.reply = p
        BY <2>1, <3>2 DEF Extends
      <4> QED BY <2>1, <4>1, <4>2, AnswerLeft
    <3> QED BY <3>1, <3>2 DEF LeavingKeeps
  <2>3. HostKeeps(p, e)
    BY <2>1 DEF HostKeeps
  <2>4. EnteringKeeps(p, e)
    <3>1. CASE e.at \in {"eth0", "dropped"}
      BY <1>5, <3>1 DEF EnteringKeeps
    <3>2. CASE e.at \notin {"eth0", "dropped"}
      <4>1. PICK d \in Connections, n \in Remotes :
                k = ToVpn(d, n, "tcp") /\ e.at = d /\ State(d, e.packet) = "established"
        BY <2>1, <3>2
      <4>2. \E f \in flows[d] : e.packet \in {f.orig, f.reply}
        BY <4>1, KnownOf
      <4> SUFFICES ASSUME NEW entries, NEW later, Extends(flows[d], entries),
                          InnerOK(d, entries, later), Extends(flows["host"], later)
                   PROVE  InnerOK(d, Tracked(entries, e.packet, Invert(e.packet)), later)
        BY <4>1 DEF EnteringKeeps
      <4>3. \E f \in entries : e.packet \in {f.orig, f.reply}
        BY <4>2 DEF Extends
      <4>4. \E g \in later : g.orig = k
        BY <2>1 DEF Extends
      <4>5. e.packet = Invert(ToVpn(d, n, "tcp")) /\ "tcp" \in Protocols
        BY <2>1, <4>1 DEF Protocols
      <4> QED BY <4>1, <4>3, <4>4, <4>5, AnswerEntered
    <3> QED BY <3>1, <3>2
  <2> QED BY <1>3, <2>2, <2>3, <2>4, SendKeeps
<1> QED BY <1>4, <1>7, <1>8, <1>9 DEF Leaving

LEMMA SendOutsideKeeps ==
    ASSUME FlowInv, SendOutside
    PROVE  FlowInv'
<1>1. PICK p \in SentOutside : Track("outside", p, OnHost(backend, p, "eth0"))
  BY DEF SendOutside
<1>2. PICK e : e = OnHost(backend, p, "eth0")
  OBVIOUS
<1>3. Entering(p, e) /\ Track("outside", p, e)
  BY <1>1, <1>2, OutsideEnters
<1>4. \A d \in Connections : d \notin {"host", "outside", "dropped", "eth0"}
  BY Distinct DEF Reserved
<1>5. ASSUME HostKeeps(p, e), EnteringKeeps(p, e)
      PROVE  FlowInv'
  BY <1>3, <1>4, <1>5, SendKeeps
<1>6. CASE EndsOnHost(p, e)
  BY <1>5, <1>6, NothingKept DEF EndsOnHost
<1>7. CASE CallEntering(p, e)
  <2>1. PICK a \in Outside, c \in Connections :
            /\ p = ToPort(a, c) /\ e.packet = Entered(p, c)
            /\ e.at \in {c, "eth0", "dropped"}
            /\ FlowsOf("host", p) # {} =>
                   \E g \in flows["host"] : g.orig = p /\ g.reply = Invert(e.packet)
    BY <1>7 DEF CallEntering
  <2>2. p \in Calls(c)
    BY <2>1, CallsAre
  <2>3. OuterFlow(Flow(p, Invert(e.packet), Unanswered))
    <3>1. OuterProxy(c, p, Flow(p, Invert(e.packet), Unanswered))
      BY <2>1, FlowAnswered DEF OuterProxy
    <3> QED BY <2>2, <3>1 DEF OuterFlow
  <2>4. EnteringKeeps(p, e)
    <3> SUFFICES ASSUME e.at \in Connections, NEW entries, NEW later,
                        InnerOK(e.at, entries, later), Extends(flows["host"], later),
                        (~\E g \in flows["host"] : p \in {g.orig, g.reply})
                            => Flow(p, Invert(e.packet), Unanswered) \in later
                 PROVE  InnerOK(e.at, Tracked(entries, e.packet, Invert(e.packet)), later)
      BY DEF EnteringKeeps
    <3>1. e.at = c
      BY <1>4, <2>1
    <3>2. \E g \in later : g.orig = p /\ g.reply = Invert(e.packet)
      <4>1. CASE FlowsOf("host", p) # {}
        BY <2>1, <4>1 DEF Extends
      <4>2. CASE FlowsOf("host", p) = {}
        BY <4>2, FlowFields DEF FlowsOf
      <4> QED BY <4>1, <4>2
    <3> QED BY <2>1, <2>2, <3>1, <3>2, CallEntered
  <2> QED BY <1>5, <2>3, <2>4 DEF HostKeeps
<1>8. CASE AnswerEntering(p, e)
  <2>1. PICK c \in Connections, n \in Remotes, t \in Protocols :
            /\ e.packet = Invert(ToVpn(c, n, t))
            /\ e.at \in {c, "eth0", "dropped"}
            /\ e.at = c => State(c, e.packet) = "established"
            /\ FlowsOf("host", p) # {}
            /\ \E g \in flows["host"] : g.orig = ToVpn(c, n, t)
    BY <1>8 DEF AnswerEntering
  <2>2. HostKeeps(p, e)
    BY <2>1 DEF HostKeeps, FlowsOf
  <2>3. EnteringKeeps(p, e)
    <3> SUFFICES ASSUME e.at \in Connections, NEW entries, NEW later,
                        Extends(flows[e.at], entries), InnerOK(e.at, entries, later),
                        Extends(flows["host"], later)
                 PROVE  InnerOK(e.at, Tracked(entries, e.packet, Invert(e.packet)), later)
      BY DEF EnteringKeeps
    <3>1. e.at = c
      BY <1>4, <2>1
    <3>2. \E f \in flows[c] : e.packet \in {f.orig, f.reply}
      BY <2>1, <3>1, KnownOf
    <3>3. \E f \in entries : e.packet \in {f.orig, f.reply}
      BY <3>1, <3>2 DEF Extends
    <3>4. \E g \in later : g.orig = ToVpn(c, n, t)
      BY <2>1 DEF Extends
    <3> QED BY <2>1, <3>1, <3>3, <3>4, AnswerEntered
  <2> QED BY <1>5, <2>2, <2>3
<1> QED BY <1>3, <1>6, <1>7, <1>8 DEF Entering

LEMMA FlowInvInit ==
    ASSUME RulesInit
    PROVE  FlowInv
BY DistinctAssumption DEF RulesInit, FlowInv, FirewallOK, InnerFlows, InnerOK, OuterFlows,
                          OuterOK, OneReply, Reserved

LEMMA FlowInvStep ==
    ASSUME FlowInv, [RulesNext]_rulesVars
    PROVE  FlowInv'
<1>1. ASSUME UNCHANGED flows, FirewallOK'
      PROVE  FlowInv'
  BY <1>1 DEF FlowInv, InnerFlows, OuterFlows
<1>2. ASSUME NEW c \in Connections, Install(c)
      PROVE  FlowInv'
  BY <1>1, <1>2 DEF Install, FlowInv, FirewallOK
<1>3. ASSUME NEW c \in Connections, Uninstall(c)
      PROVE  FlowInv'
  <2>1. c # "host"
    BY Distinct DEF Reserved
  <2>2. FirewallOK'
    BY <1>3 DEF Uninstall, FlowInv, FirewallOK
  <2>3. flows'["host"] = flows["host"] /\ flows'[c] = {}
        /\ \A d \in Connections \ {c} : flows'[d] = flows[d]
    BY <1>3, <2>1 DEF Uninstall, FlowInv, FirewallOK
  <2>4. OuterFlows' /\ OneReply(flows["host"])'
    BY <2>3 DEF FlowInv, OuterFlows
  <2>5. InnerOK(c, {}, flows["host"])
    BY DEF InnerOK
  <2>6. InnerFlows'
    BY <2>3, <2>5 DEF FlowInv, InnerFlows
  <2> QED BY <2>2, <2>4, <2>6 DEF FlowInv
<1>4. ASSUME NEW c \in Connections, TunnelUp(c)
      PROVE  FlowInv'
  BY <1>1, <1>4 DEF TunnelUp, FlowInv, FirewallOK
<1>5. ASSUME NEW c \in Connections, TunnelDown(c)
      PROVE  FlowInv'
  BY <1>1, <1>5 DEF TunnelDown, FlowInv, FirewallOK
<1>6. CASE UNCHANGED rulesVars
  BY <1>1, <1>6 DEF rulesVars, FlowInv, FirewallOK
<1> QED BY <1>2, <1>3, <1>4, <1>5, <1>6, SendInsideKeeps, SendOutsideKeeps DEF RulesNext

-----------------------------------------------------------------------------
\* The theorems.

\* Whatever flows the kernel tracks, on the host and in the namespaces, whichever
\* kill switches come, go and are replaced: each is an OpenVPN's with a server, a
\* host's of the internet with a proxy, or an OpenVPN's with the proxy that has the
\* port of its server; and what is known inside is known outside.
THEOREM FlowsAreKnown == RulesSpec => []FlowInv
<1>1. RulesInit => FlowInv
  BY FlowInvInit
<1>2. FlowInv /\ [RulesNext]_rulesVars => FlowInv'
  BY FlowInvStep
<1> QED BY <1>1, <1>2, PTL DEF RulesSpec

\* nftables and iptables treat every IPv4 packet alike, on a host that forwards; by
\* IPv6 iptables lets pass what nftables drops (firewall_rules.py, where the two
\* rule sets are written apart).
THEOREM FirewallsAgree == RulesSpec => []BackendsAgree
<1>1. ASSUME FlowInv, forwards, NEW c \in Installed, NEW p \in SentInside(c)
      PROVE  IF p.family = "ip6" /\ RouteInside(c, p.dst) # "tun0"
             THEN /\ FromInside("nftables", c, p).at = "stopped"
                  /\ FromInside("iptables", c, p).at = "host"
             ELSE FromInside("nftables", c, p) = FromInside("iptables", c, p)
  <2>0. c \in Connections
    BY DEF Installed
  <2>1. CASE p.family = "ip4" /\ IsPacket(p)
    BY <1>1, <2>1, OuterIp4, SameInside
  <2>2. CASE /\ p.family = "ip6" /\ IsPacket(p)
             /\ p.dst = Gateway6(c) \/ (tunnel[c] /\ p.dst = Elsewhere6)
             /\ RouteInside(c, p.dst) # "tun0" => p.src = Inside6(c)
    <3>1. \A b \in Backends : FromInside(b, c, p) =
              IF RouteInside(c, p.dst) = "tun0" THEN [at |-> "tun0", packet |-> p]
              ELSE IF b = "nftables" THEN [at |-> "stopped", packet |-> p]
              ELSE [at |-> "host", packet |-> p]
      BY <1>1, <2>2, Ip6Inside
    <3>2. /\ FromInside("nftables", c, p) =
                 IF RouteInside(c, p.dst) = "tun0" THEN [at |-> "tun0", packet |-> p]
                 ELSE [at |-> "stopped", packet |-> p]
          /\ FromInside("iptables", c, p) =
                 IF RouteInside(c, p.dst) = "tun0" THEN [at |-> "tun0", packet |-> p]
                 ELSE [at |-> "host", packet |-> p]
      BY <3>1 DEF Backends
    <3> QED BY <2>2, <3>2
  <2>3. \A a, d, t, m, n : p = Packet(a, d, t, m, n) => p.family = "ip4" /\ IsPacket(p)
    BY PacketFields
  <2>4. \A k : p = Invert(Entered(k, c)) => p.family = "ip4" /\ IsPacket(p)
    BY ShapesAreIp4, InvertedFamily
  <2> QED BY <1>1, <2>0, <2>1, <2>2, <2>3, <2>4, SentInsideShape
<1>2. ASSUME FlowInv, forwards, NEW p \in SentOutside
      PROVE  IF /\ p.family = "ip6" /\ p.proto = "tcp"
                /\ p.dport \in Installed /\ spec[p.dport].socks
             THEN /\ OnHost("nftables", p, "eth0").at = "dropped"
                  /\ OnHost("iptables", p, "eth0").at = "host"
             ELSE OnHost("nftables", p, "eth0") = OnHost("iptables", p, "eth0")
  <2>1. CASE p.family = "ip4" /\ IsPacket(p)
    BY <1>2, <2>1, OuterIp4, SameOnHost
  <2>2. CASE p.family = "ip6" /\ IsPacket(p) /\ p.src = Elsewhere6 /\ p.dst = HostAddress6
    <3>1. \A c \in Connections : p.src # Inside(c) /\ p.dst # Inside(c)
      BY <2>2, DistinctLocal
    <3>2. \A b \in Backends : OnHost(b, p, "eth0") =
              [at |-> IF /\ b = "nftables"
                         /\ \E c \in Installed :
                                spec[c].socks /\ p.proto = "tcp" /\ p.dport = c
                      THEN "dropped" ELSE "host",
               packet |-> p]
      BY <1>2, <2>2, <3>1, HostRoutes, Ip6Stays
    <3>3. /\ OnHost("nftables", p, "eth0") =
                 [at |-> IF \E c \in Installed :
                                spec[c].socks /\ p.proto = "tcp" /\ p.dport = c
                         THEN "dropped" ELSE "host",
                  packet |-> p]
          /\ OnHost("iptables", p, "eth0") = [at |-> "host", packet |-> p]
      BY <3>2 DEF Backends
    <3> QED BY <2>2, <3>3
  <2>3. \/ p.family = "ip4" /\ IsPacket(p)
        \/ p.family = "ip6" /\ IsPacket(p) /\ p.src = Elsewhere6 /\ p.dst = HostAddress6
    <3>1. CASE \E f \in flows["host"] : p = f.reply
      <4>1. PICK f \in flows["host"] : p = f.reply
        BY <3>1
      <4>2. \E c \in Connections :
                \/ \E n \in Remotes, t \in Protocols : VpnFlow(c, n, t, f)
                \/ \E k \in Calls(c) : ProxyFlow(c, k, f)
        BY <1>2, OuterPackets DEF FlowInv, OuterFlows
      <4>3. IsPacket(p)
        BY <4>1, <4>2, InvertedFamily DEF VpnFlow, ProxyFlow
      <4> QED BY <1>2, <4>1, <4>3, OuterIp4
    <3>2. CASE \E a, t, n :
              p = [family |-> "ip4", src |-> a, dst |-> HostAddress, proto |-> t,
                   sport |-> Own(a, HostAddress), dport |-> n]
      BY <3>2 DEF IsPacket
    <3>3. CASE \E t, n :
              p = [family |-> "ip6", src |-> Elsewhere6, dst |-> HostAddress6, proto |-> t,
                   sport |-> Own(Elsewhere6, HostAddress6), dport |-> n]
      BY <3>3 DEF IsPacket
    <3> QED BY <3>1, <3>2, <3>3 DEF SentOutside
  <2> QED BY <2>1, <2>2, <2>3
<1>3. FlowInv => BackendsAgree
  BY <1>1, <1>2, Zenon DEF BackendsAgree
<1> QED BY <1>3, FlowsAreKnown, PTL

\* Whatever a process of a namespace sends, outside the tunnel it reaches only the
\* endpoint of a VPN server, by a new flow only that of the connection's node, or
\* the proxy that has its port, or as an answer the caller of its proxy; and by IPv6
\* the host, with iptables (firewall_rules.py).
THEOREM NobodyGoesAround == RulesSpec => []NoWayAround
<1>1. ASSUME FlowInv, NEW c \in Installed, NEW p \in SentInside(c), NEW e,
             e = FromInside(backend, c, p),
             e.at \notin {"stopped", "dropped", "tun0"}
      PROVE  \/ /\ p.dst \in Remotes /\ p.dport = RemotePort[p.dst]
                /\ State(c, p) = "new" => p.dst = spec[c].remote /\ p.proto = spec[c].proto
                /\ \/ e.at = "eth0" /\ e.packet.dst = p.dst
                   \/ e.at \in {"eth0", p.dport} /\ e.packet.dst = Inside(p.dport)
             \/ /\ p.sport = c /\ State(c, p) = "established"
                /\ \/ e.at = "eth0" /\ e.packet.dst \in Outside
                   \/ \E d \in Connections :
                          e.at \in {"eth0", d} /\ e.packet.dst = Inside(d)
             \/ p.family = "ip6" /\ e.at = "host" /\ backend = "iptables"
  <2>1. Leaving(c, p, e)
    BY <1>1, InsideLeaves
  <2>2. CASE ToServerLeaves(c, p, e)
    <3>1. PICK n \in Remotes, t \in Protocols :
              /\ p = ToVpn(c, n, t)
              /\ State(c, p) = "new" => n = spec[c].remote /\ t = spec[c].proto
              /\ \/ e.packet = Masked(c, n, t) /\ e.at \in {"eth0", "dropped"}
                 \/ \E d \in Connections :
                        /\ d = RemotePort[n] /\ e.packet = Entered(p, d)
                        /\ e.at \in {d, "eth0", "dropped"}
      BY <2>2 DEF ToServerLeaves
    <3>2. /\ p.dst = n /\ p.dport = RemotePort[n] /\ p.proto = t
          /\ Masked(c, n, t).dst = n /\ \A d : Entered(p, d).dst = Inside(d)
      BY <3>1, VpnFields, ProxyFields
    <3>3. \/ e.at = "eth0" /\ e.packet.dst = p.dst
          \/ e.at \in {"eth0", p.dport} /\ e.packet.dst = Inside(p.dport)
      BY <1>1, <3>1, <3>2
    <3> QED BY <3>1, <3>2, <3>3
  <2>3. CASE AnswerLeaves(c, p, e)
    <3>1. PICK k \in Calls(c) :
              /\ p = Invert(Entered(k, c)) /\ e.packet = Invert(k)
              /\ State(c, p) = "established"
              /\ \/ \E a \in Outside : k = ToPort(a, c) /\ e.at \in {"eth0", "dropped"}
                 \/ \E d \in Connections, n \in Remotes :
                        k = ToVpn(d, n, "tcp") /\ e.at \in {d, "eth0", "dropped"}
      BY <2>3 DEF AnswerLeaves
    <3>2. p.sport = c
      BY <3>1, ProxyFields
    <3>3. CASE \E a \in Outside : k = ToPort(a, c) /\ e.at \in {"eth0", "dropped"}
      <4>1. e.at = "eth0" /\ e.packet.dst \in Outside
        BY <1>1, <3>1, <3>3, ProxyFields
      <4> QED BY <3>1, <3>2, <4>1
    <3>4. CASE \E d \in Connections, n \in Remotes :
                   k = ToVpn(d, n, "tcp") /\ e.at \in {d, "eth0", "dropped"}
      <4>1. PICK d \in Connections, n \in Remotes :
                k = ToVpn(d, n, "tcp") /\ e.at \in {d, "eth0", "dropped"}
        BY <3>4
      <4>2. e.at \in {"eth0", d} /\ e.packet.dst = Inside(d)
        BY <1>1, <3>1, <4>1, VpnFields
      <4> QED BY <3>1, <3>2, <4>2
    <3> QED BY <3>1, <3>3, <3>4
  <2> QED BY <2>1, <2>2, <2>3 DEF Leaving
<1>2. ASSUME FlowInv
      PROVE  NoWayAround
  <2> SUFFICES ASSUME NEW c \in Installed, NEW p \in SentInside(c),
                      NEW e \in {FromInside(backend, c, p)},
                      e.at \notin {"stopped", "dropped", "tun0"}
               PROVE  \/ /\ p.dst \in Remotes /\ p.dport = RemotePort[p.dst]
                         /\ State(c, p) = "new" => p.dst = spec[c].remote /\ p.proto = spec[c].proto
                         /\ \/ e.at = "eth0" /\ e.packet.dst = p.dst
                            \/ e.at \in {"eth0", p.dport} /\ e.packet.dst = Inside(p.dport)
                      \/ /\ p.sport = c /\ State(c, p) = "established"
                         /\ \/ e.at = "eth0" /\ e.packet.dst \in Outside
                            \/ \E d \in Connections :
                                   e.at \in {"eth0", d} /\ e.packet.dst = Inside(d)
                      \/ p.family = "ip6" /\ e.at = "host" /\ backend = "iptables"
    BY DEF NoWayAround
  <2>1. e = FromInside(backend, c, p)
    OBVIOUS
  <2> QED BY <1>2, <2>1, <1>1
<1> QED BY <1>2, FlowsAreKnown, PTL

\* Only those whom the list allows open a flow into a namespace, and only by the
\* port of its proxy, which no process of the host is reached by, but by IPv6 with
\* iptables; a namespace opens one into another only without a list
\* (firewall_rules.py).
THEOREM NobodyElseEnters == RulesSpec => []OnlyAllowedEnter
<1>0. \A d \in Connections : d \notin {"host", "eth0", "dropped", "stopped", "tun0"}
  BY Distinct DEF Reserved
<1>1. ASSUME FlowInv, NEW p \in SentOutside, NEW e, e = OnHost(backend, p, "eth0")
      PROVE  /\ e.at \in Connections /\ FlowsOf("host", p) = {} =>
                    /\ p.proto = "tcp" /\ p.dport = e.at /\ spec[e.at].socks
                    /\ spec[e.at].allow = {} \/ p.src \in spec[e.at].allow
             /\ e.at = "host" /\ p.proto = "tcp" /\ p.dport \in Installed =>
                    ~spec[p.dport].socks \/ (p.family = "ip6" /\ backend = "iptables")
  <2>1. Entering(p, e)
    BY <1>1, OutsideEnters
  <2>2. CASE CallEntering(p, e)
    <3>1. PICK a \in Outside, c \in Connections :
              /\ p = ToPort(a, c) /\ e.at \in {c, "eth0", "dropped"}
              /\ FlowsOf("host", p) = {} =>
                     spec[c].socks /\ (spec[c].allow = {} \/ a \in spec[c].allow)
      BY <2>2 DEF CallEntering
    <3>2. p.proto = "tcp" /\ p.dport = c /\ p.src = a
      BY <3>1, ProxyFields
    <3> QED BY <1>0, <3>1, <3>2
  <2>3. CASE AnswerEntering(p, e)
    BY <1>0, <2>3 DEF AnswerEntering
  <2>4. CASE EndsOnHost(p, e)
    BY <1>0, <2>4 DEF EndsOnHost
  <2> QED BY <2>1, <2>2, <2>3, <2>4 DEF Entering
<1>2. ASSUME FlowInv, NEW c \in Installed, NEW p \in SentInside(c), NEW e,
             e = FromInside(backend, c, p), e.at \in Connections, FlowsOf("host", p) = {}
      PROVE  /\ p.proto = "tcp" /\ p.dport = e.at
             /\ spec[e.at].socks /\ spec[e.at].allow = {}
  <2>1. Leaving(c, p, e)
    BY <1>0, <1>2, InsideLeaves
  <2>2. CASE ToServerLeaves(c, p, e)
    <3>1. PICK n \in Remotes, t \in Protocols :
              /\ p = ToVpn(c, n, t)
              /\ \/ e.at \in {"eth0", "dropped"}
                 \/ \E d \in Connections :
                        /\ d = RemotePort[n] /\ t = "tcp"
                        /\ e.at \in {d, "eth0", "dropped"}
                        /\ spec[d].socks /\ spec[d].allow = {}
      BY <1>2, <2>2 DEF ToServerLeaves
    <3>2. p.proto = t /\ p.dport = RemotePort[n]
      BY <3>1, VpnFields
    <3> QED BY <1>0, <1>2, <3>1, <3>2
  <2>3. CASE AnswerLeaves(c, p, e)
    <3>1. \E g \in flows["host"] : g.reply = p
      BY <2>3 DEF AnswerLeaves
    <3> QED BY <1>2, <3>1 DEF FlowsOf
  <2> QED BY <1>0, <1>2, <2>1, <2>2, <2>3 DEF Leaving
<1>3. FlowInv => OnlyAllowedEnter
  BY <1>1, <1>2, Zenon DEF OnlyAllowedEnter
<1> QED BY <1>3, FlowsAreKnown, PTL

-----------------------------------------------------------------------------
\* What has to be open is open.

Forwarded(b, frame) ==
    forwards \/ (b = "iptables" /\ \E c \in Installed : MayPass(c, frame))

LEMMA ForwardsIs ==
    ASSUME NEW b \in Backends, NEW frame, Sees(b, frame)
    PROVE  HostForwards(b, frame) <=> Forwarded(b, frame)
BY Decisions DEF HostForwards, Forwarded

LEMMA RoutedIs ==
    ASSUME NEW p, IsPacket(p), NEW a
    PROVE  LET routed == [p EXCEPT !.dst = a]
           IN  /\ routed.family = p.family /\ routed.src = p.src /\ routed.dst = a
               /\ routed.proto = p.proto /\ routed.sport = p.sport /\ routed.dport = p.dport
<1>1. [p EXCEPT !.dst = a] = [family |-> p.family, src |-> p.src, dst |-> a,
                              proto |-> p.proto, sport |-> p.sport, dport |-> p.dport]
  BY DEF IsPacket
<1> QED BY <1>1

\* The packet between the two translations, as the forward chain sees it.
Between(p, a, iif, oif) == Frame([p EXCEPT !.dst = a], iif, oif, State("host", p))

LEMMA BetweenFields ==
    ASSUME NEW p, IsPacket(p), NEW a, NEW iif, NEW oif
    PROVE  LET frame == Between(p, a, iif, oif)
           IN  /\ frame.family = p.family /\ frame.src = p.src /\ frame.dst = a
               /\ frame.proto = p.proto /\ frame.sport = p.sport /\ frame.dport = p.dport
               /\ frame.iif = iif /\ frame.oif = oif /\ frame.ct = State("host", p)
<1> DEFINE routed == [p EXCEPT !.dst = a]
<1>1. /\ routed.family = p.family /\ routed.src = p.src /\ routed.dst = a
      /\ routed.proto = p.proto /\ routed.sport = p.sport /\ routed.dport = p.dport
  BY RoutedIs
<1>2. Between(p, a, iif, oif) = Frame(routed, iif, oif, State("host", p))
  BY DEF Between
<1> HIDE DEF routed
<1> QED BY <1>1, <1>2, FrameFields

LEMMA PassesOutside ==
    ASSUME NEW b \in Backends, NEW p, IsPacket(p), p.family = "ip4", NEW iif, NEW final,
           RouteOnHost(final.dst) = "eth0",
           Forwarded(b, Between(p, final.dst, iif, "eth0"))
    PROVE  Passed(b, p, iif, final) = "eth0"
<1>1. HostForwards(b, Between(p, final.dst, iif, "eth0"))
  BY BetweenFields, ForwardsIs DEF Sees
<1>2. "eth0" \notin Connections
  BY DistinctAssumption DEF Reserved
<1> QED BY <1>1, <1>2 DEF Passed, Between

LEMMA PassesInside ==
    ASSUME NEW b \in Backends, NEW p, IsPacket(p), p.family = "ip4", NEW iif,
           NEW final, final.family = "ip4",
           NEW c \in Connections, RouteOnHost(final.dst) = c,
           Forwarded(b, Between(p, final.dst, iif, c)),
           MayEnter(c, Frame(final, "veth", "none", State(c, final)))
    PROVE  Passed(b, p, iif, final) = c
<1>1. HostForwards(b, Between(p, final.dst, iif, c))
  BY BetweenFields, ForwardsIs DEF Sees
<1>2. c # "local"
  BY Distinct DEF Reserved
<1>3. Outcome(b, c, "input", Frame(final, "veth", "none", State(c, final)),
              InsidePolicy(b)) = "accept"
  BY FrameFields, Enters DEF Sees
<1> QED BY <1>1, <1>2, <1>3 DEF Passed, Between

\* OpenVPN reaches the node of its connection, unless a proxy takes its flow.
LEMMA ServerReached ==
    ASSUME FlowInv, backend = "iptables" \/ forwards, NEW c \in Installed
    PROVE  LET e == FromInside(backend, c, ToServer(c))
           IN  (e.at = "eth0" /\ e.packet.dst = spec[c].remote /\ e.packet.src = HostAddress)
                   <=> ~Captured(c)
<1> DEFINE n == spec[c].remote
           t == spec[c].proto
           p == ToVpn(c, n, t)
           final == Masked(c, n, t)
           e == FromInside(backend, c, p)
<1>1. c \in Connections /\ n \in Remotes /\ backend \in Backends
  BY InstalledSpec
<1>2. ToServer(c) = p
  BY DEF ToServer, ToVpn, Packet
<1>3. /\ p.dst = n /\ p.src = Inside(c) /\ p.proto = t /\ p.dport = RemotePort[n]
      /\ p.family = "ip4" /\ IsPacket(p)
  BY VpnFields, ShapesAreIp4
<1>4. e = OnHost(backend, p, c)
  <2>1. RouteInside(c, p.dst) = "veth"
    BY <1>3 DEF RouteInside
  <2> DEFINE frame == Frame(p, "none", "veth", State(c, p))
  <2>2. MayLeave(c, frame) /\ Sees(backend, frame)
    <3>1. /\ frame.oif = "veth" /\ frame.dst = n /\ frame.proto = t
          /\ frame.dport = RemotePort[n] /\ frame.family = "ip4"
      <4> HIDE DEF p
      <4> QED BY <1>3, FrameFields
    <3> HIDE DEF frame
    <3> QED BY <3>1 DEF MayLeave, Sees
  <2>3. Outcome(backend, c, "output", frame, InsidePolicy(backend)) = "accept"
    <3> HIDE DEF frame
    <3> QED BY <1>1, <2>2, Leaves
  <2> HIDE DEF p
  <2> QED BY <2>1, <2>3 DEF FromInside
<1>5. CASE ~Captured(c)
  <2>1. Translated(backend, p, c) = final
    BY <1>5, NodeTranslated
  <2>2. e.packet = final /\ e.at = Passed(backend, p, c, final)
    BY <1>4, <2>1, OnHostIs
  <2>3. final.dst = n /\ final.src = HostAddress /\ RouteOnHost(final.dst) = "eth0"
    BY <1>1, VpnFields, MaskEndsOutside
  <2>4. e.at = "eth0"
    <3> HIDE DEF p, final, e
    <3>1. MayPass(c, Between(p, final.dst, c, "eth0"))
      <4>1. ToNode(c, Between(p, final.dst, c, "eth0"))
        BY <1>3, <2>3, BetweenFields DEF ToNode
      <4> QED BY <1>3, <4>1, BetweenFields, StateIs DEF MayPass
    <3>2. Forwarded(backend, Between(p, final.dst, c, "eth0"))
      BY <3>1 DEF Forwarded
    <3> QED BY <1>1, <1>3, <2>2, <2>3, <3>2, PassesOutside
  <2> QED BY <1>2, <1>5, <2>2, <2>3, <2>4
<1>6. CASE Captured(c)
  <2>1. RemotePort[n] \in Connections /\ Translated(backend, p, c) = Entered(p, RemotePort[n])
    BY <1>6, NodeTranslated
  <2>2. e.packet.dst = Inside(RemotePort[n])
    <3> HIDE DEF p
    <3> QED BY <1>4, <2>1, OnHostIs, ProxyFields
  <2>3. Inside(RemotePort[n]) # n
    BY <1>1, <2>1, Distinct, SourcePorts
  <2> QED BY <1>2, <1>6, <2>2, <2>3
<1> QED BY <1>5, <1>6

\* An allowed client reaches the proxy.
LEMMA ProxyReached ==
    ASSUME FlowInv, backend = "iptables" \/ forwards, NEW c \in Installed, spec[c].socks,
           NEW k \in Outside, spec[c].allow = {} \/ k \in spec[c].allow
    PROVE  OnHost(backend, ToProxy(k, c), "eth0").at = c
<1> DEFINE p == ToPort(k, c)
           final == Entered(p, c)
<1>1. c \in Connections /\ backend \in Backends
  BY InstalledSpec
<1>2. /\ ToProxy(k, c) = p /\ p.src = k /\ p.dst = HostAddress /\ p.proto = "tcp"
      /\ p.dport = c /\ p.family = "ip4" /\ IsPacket(p) /\ p \in Calls(c)
  BY ProxyFields, ShapesAreIp4, CallsAre DEF ToProxy, ToPort, Packet
<1>3. /\ final.src = Gateway(c) /\ final.dst = Inside(c) /\ final.proto = "tcp"
      /\ final.dport = c /\ final.family = "ip4"
  <2> HIDE DEF p
  <2> QED BY ProxyFields, ShapesAreIp4
<1>4. Translated(backend, p, "eth0") = final
  <2>1. CASE FlowsOf("host", p) # {}
    <3>1. PICK e \in Connections :
              \/ \E n \in Remotes, t \in Protocols : p = ToVpn(e, n, t) \/ p = Invert(Masked(e, n, t))
              \/ \E m \in Calls(e) :
                     \/ p = m /\ Translated(backend, p, "eth0") = Entered(m, e)
                     \/ p = Invert(Entered(m, e))
      <4> HIDE DEF p
      <4> QED BY <2>1, KnownTranslated
    <3>2. \A n, t : p # ToVpn(e, n, t)
      BY <1>2, VpnFields, Distinct
    <3>3. \A t : \A n \in Remotes : p # Invert(Masked(e, n, t))
      BY <1>1, <1>2, VpnNoProxy
    <3>4. \A m \in Calls(e) : p # Invert(Entered(m, e)) /\ (p = m => c = e)
      BY <1>1, <1>2, ProxyDiffers
    <3> QED BY <3>1, <3>2, <3>3, <3>4
  <2>2. CASE FlowsOf("host", p) = {}
    <3>1. Maps(c, Frame(p, "eth0", "none", "new"))
      <4> HIDE DEF p
      <4> QED BY <1>2, FrameFields DEF Maps
    <3> HIDE DEF p
    <3> QED BY <1>1, <1>2, <2>2, <3>1, CallEnters
  <2> QED BY <2>1, <2>2
<1> HIDE DEF p, final
<1>5. RouteOnHost(final.dst) = c
  BY <1>1, <1>3, HostRoutes
<1>6. MayEnter(c, Frame(final, "veth", "none", State(c, final)))
  BY <1>3, FrameFields DEF MayEnter
<1>7. MayPass(c, Between(p, final.dst, "eth0", c))
  BY <1>2, <1>3, BetweenFields, StateIs DEF MayPass
<1>8. Forwarded(backend, Between(p, final.dst, "eth0", c))
  BY <1>7 DEF Forwarded
<1>9. Passed(backend, p, "eth0", final) = c
  BY <1>1, <1>2, <1>3, <1>5, <1>6, <1>8, PassesInside
<1> QED BY <1>2, <1>4, <1>9, OnHostIs

\* Its answer reaches the client.
LEMMA AnswerReaches ==
    ASSUME FlowInv, backend = "iptables" \/ forwards, NEW c \in Installed, spec[c].socks,
           NEW k \in Outside, NEW f \in flows[c], f.orig.dst = Inside(c),
           f.orig.sport = Own(k, HostAddress)
    PROVE  FromInside(backend, c, f.reply) = [at |-> "eth0", packet |-> Invert(ToProxy(k, c))]
<1> DEFINE m == ToPort(k, c)
           p == Invert(Entered(m, c))
           final == Invert(m)
           e == FromInside(backend, c, p)
<1>1. c \in Connections /\ backend \in Backends
  BY InstalledSpec
<1>2. /\ m \in Calls(c) /\ m.sport = Own(k, HostAddress) /\ ToProxy(k, c) = m
  BY CallsAre, ProxyFields DEF ToProxy, ToPort, Packet
<1>3. InnerOK(c, flows[c], flows["host"])
  BY <1>1 DEF FlowInv, InnerFlows
<1>4. InnerProxy(c, m, f, flows["host"])
  <2>1. ASSUME NEW n \in Remotes, NEW t \in Protocols, InnerVpn(c, n, t, f, flows["host"])
        PROVE  FALSE
    <3>1. f.orig = ToVpn(c, n, t)
      BY <2>1, FlowFields DEF InnerVpn
    <3>2. f.orig.dst = n
      BY <3>1, VpnFields
    <3>3. n \in Outside /\ Inside(c) = n
      BY <3>2 DEF Outside
    <3> QED BY <1>1, <3>3, Distinct
  <2>2. PICK j \in Calls(c) : InnerProxy(c, j, f, flows["host"])
    BY <1>3, <2>1 DEF InnerOK, InnerFlow
  <2>3. f.orig = Entered(j, c)
    BY <2>2, FlowFields DEF InnerProxy
  <2>4. f.orig.sport = j.sport
    BY <2>3, ProxyFields
  <2>5. j = m
    <3> HIDE DEF m
    <3>1. j.sport = m.sport
      BY <1>2, <2>4
    <3> QED BY <1>1, <1>2, <3>1, CallsDiffer
  <2> QED BY <2>2, <2>5
<1> HIDE DEF m
<1>5. f.reply = p
  BY <1>4, FlowFields DEF InnerProxy
<1>6. /\ p.family = "ip4" /\ IsPacket(p) /\ p.src = Inside(c) /\ p.dst = Gateway(c)
      /\ p.sport = c
  BY ProxyFields, ShapesAreIp4, InvertedFamily
<1>7. PICK g \in flows["host"] : g.orig = m /\ g.reply = p
  BY <1>4 DEF InnerProxy
<1>8. Translated(backend, p, c) = final
  <2>1. FlowsOf("host", p) # {}
    BY <1>7 DEF FlowsOf
  <2> QED BY <1>1, <1>2, <2>1, AnswerTranslated
<1>9. State(c, p) = "established" /\ State("host", p) = "established"
  BY <1>5, <1>7 DEF State
<1>10. RouteOnHost(final.dst) = "eth0"
  BY AnswerEndsOutside DEF m
<1> HIDE DEF p, final
<1>11. RouteInside(c, p.dst) = "veth"
  BY <1>6 DEF RouteInside
<1>12. e = OnHost(backend, p, c)
  <2> DEFINE frame == Frame(p, "none", "veth", State(c, p))
  <2>1. frame.ct = "established" /\ frame.family = "ip4"
    BY <1>6, <1>9, FrameFields
  <2>2. Outcome(backend, c, "output", frame, InsidePolicy(backend)) = "accept"
    <3> HIDE DEF frame
    <3> QED BY <1>1, <2>1, Leaves DEF MayLeave, Sees
  <2> QED BY <1>11, <2>2 DEF FromInside
<1>13. MayPass(c, Between(p, final.dst, c, "eth0"))
  BY <1>6, <1>9, BetweenFields DEF MayPass
<1>14. Forwarded(backend, Between(p, final.dst, c, "eth0"))
  BY <1>13 DEF Forwarded
<1>15. Passed(backend, p, c, final) = "eth0"
  BY <1>1, <1>6, <1>10, <1>14, PassesOutside
<1>16. OnHost(backend, p, c) = [at |-> "eth0", packet |-> final]
  BY <1>8, <1>15, OnHostIs
<1> QED BY <1>2, <1>5, <1>12, <1>16 DEF final

\* The rules close nothing that has to be open, whatever other connections have
\* installed and whatever flows are left, but the way to a server whose port is that
\* of a proxy without a list, exactly (firewall_rules.py).
THEOREM NothingIsClosed == RulesSpec => []LetsThrough
<1>1. ASSUME FlowInv, backend = "iptables" \/ forwards, NEW c \in Installed
      PROVE  \A e \in {FromInside(backend, c, ToServer(c))} :
                 (e.at = "eth0" /\ e.packet.dst = spec[c].remote
                                /\ e.packet.src = HostAddress) <=> ~Captured(c)
  BY <1>1, ServerReached
<1>2. ASSUME FlowInv, backend = "iptables" \/ forwards, NEW c \in Installed, spec[c].socks,
             NEW k \in Outside
      PROVE  /\ spec[c].allow = {} \/ k \in spec[c].allow =>
                    OnHost(backend, ToProxy(k, c), "eth0").at = c
             /\ \A f \in {g \in flows[c] : /\ g.orig.dst = Inside(c)
                                           /\ g.orig.sport = Own(k, HostAddress)} :
                    FromInside(backend, c, f.reply)
                        = [at |-> "eth0", packet |-> Invert(ToProxy(k, c))]
  BY <1>2, ProxyReached, AnswerReaches
<1>3. FlowInv => LetsThrough
  BY <1>1, <1>2, Zenon DEF LetsThrough
<1> QED BY <1>3, FlowsAreKnown, PTL
=============================================================================
