-------------------------- MODULE RootHelperProofs --------------------------
(***************************************************************************)
(* Every operation of the root helper, started on a guarded machine, ends  *)
(* on a guarded machine and only takes steps of the fail-closed tunnel,    *)
(* whichever of its outcomes is the one that happens.  The spawns need     *)
(* more than a guarded machine: what the look before them has seen.        *)
(***************************************************************************)
EXTENDS RootHelper, TLAPS

\* The node that the kill switch lets through.
GuardOf(r) == IF r.hostRules THEN r.ks ELSE NoNode

\* From r to s the kill switch changes only while nothing runs, or goes away
\* with everything it guards.
ReguardStep(r, s) ==
    /\ ~HasProcess(r) /\ s.vpn = r.vpn /\ s.socks = r.socks

\* From r to s the tunnel comes up to the node of the kill switch, or the proxy
\* comes up behind it, and nothing else changes.
OpenStep(r, s) ==
    /\ GuardOf(s) = GuardOf(r) /\ GuardOf(r) # NoNode
    /\ \/ r.vpn = NoNode /\ s.vpn = GuardOf(r) /\ s.socks = r.socks
       \/ s.vpn = r.vpn /\ s.socks

\* From r to s tunnel or proxy end; the kill switch goes only when both have.
CloseStep(r, s) ==
    /\ s.vpn \in {r.vpn, NoNode} /\ s.socks \in {r.socks, FALSE}
    /\ \/ GuardOf(s) = GuardOf(r)
       \/ GuardOf(s) = NoNode /\ ~HasProcess(s)

Kept(r, s) == ReguardStep(r, s) \/ OpenStep(r, s) \/ CloseStep(r, s)

\* A namespace without a name has no rules that the helper can see, and nothing
\* is orphaned without a process.
Tidy(r) == (r.nsRules => r.ns) /\ (r.orphaned => HasProcess(r))

\* What a spawn needs: the kill switch, and OpenVPN that of its node.
Ready(c, r) ==
    /\ c.op \in Spawns => KillswitchActive(r)
    /\ c.op = "spawnOpenvpn" => r.ks = c.node

\* An operation that finds r may leave s.
Lawful(r, s) ==
    /\ s \in Runtime
    /\ Tidy(r) => Tidy(s)
    /\ Guarded(r) => Guarded(s) /\ Kept(r, s)

SameProcesses(r, s) == s.vpn = r.vpn /\ s.socks = r.socks

\* The kill switch and the namespace of r are those of s.
SameFence(r, s) ==
    s.ks = r.ks /\ s.hostRules = r.hostRules /\ s.ns = r.ns /\ s.nsRules = r.nsRules

-----------------------------------------------------------------------------
\* The pieces that the operations are made of.

LEMMA SameLawful ==
    ASSUME NEW r \in Runtime
    PROVE  Lawful(r, r)
BY DEF Lawful, Kept, CloseStep

LEMMA FailLeaves ==
    ASSUME NEW s
    PROVE  Fail(s).rt = s /\ ~Fail(s).ok /\ (s \in Runtime => Fail(s) \in Outcome)
BY DEF Fail, Outcome

LEMMA OkLeaves ==
    ASSUME NEW s
    PROVE  Ok(s).rt = s /\ Ok(s).ok /\ (s \in Runtime => Ok(s) \in Outcome)
BY DEF Ok, Outcome

\* A lost answer changes what the caller sees, not what happened.
LEMMA LossyLeaves ==
    ASSUME NEW S, NEW o \in Lossy({Ok(s) : s \in S})
    PROVE  \E s \in S : o = Ok(s) \/ o = Fail(s)
<1>1. CASE o \in {Ok(s) : s \in S}
  BY <1>1
<1>2. CASE o \in {Fail(p.rt) : p \in {Ok(s) : s \in S}}
  <2>1. PICK s \in S : o = Fail(Ok(s).rt)
    BY <1>2
  <2> QED BY <2>1, OkLeaves
<1> QED BY <1>1, <1>2 DEF Lossy

LEMMA LossyOutcomes ==
    ASSUME NEW s, NEW o \in Lossy({Ok(s)})
    PROVE  o = Ok(s) \/ o = Fail(s)
BY DEF Lossy, Ok, Fail

\* What an answer about s is.
LEMMA AnswerLeaves ==
    ASSUME NEW s, NEW o, o = Ok(s) \/ o = Fail(s)
    PROVE  o.rt = s /\ (s \in Runtime => o \in Outcome)
BY OkLeaves, FailLeaves

LEMMA WithoutVpnLawful ==
    ASSUME NEW r \in Runtime
    PROVE  /\ Lawful(r, WithoutVpn(r)) /\ SameFence(r, WithoutVpn(r))
           /\ WithoutVpn(r).vpn = NoNode /\ WithoutVpn(r).socks = r.socks
BY DEF WithoutVpn, Settle, HasProcess, Runtime, Guarded, Kept, CloseStep, GuardOf,
       Lawful, Tidy, SameFence

LEMMA WithoutSocksLawful ==
    ASSUME NEW r \in Runtime
    PROVE  /\ Lawful(r, WithoutSocks(r)) /\ SameFence(r, WithoutSocks(r))
           /\ WithoutSocks(r).vpn = r.vpn /\ ~WithoutSocks(r).socks
BY DEF WithoutSocks, Settle, HasProcess, Runtime, Guarded, Kept, CloseStep, GuardOf,
       Lawful, Tidy, SameFence

\* A namespace that goes takes its rules along; what runs in it is orphaned.
LEMMA WithoutNamespaceLawful ==
    ASSUME NEW r \in Runtime
    PROVE  /\ Lawful(r, WithoutNamespace(r)) /\ SameProcesses(r, WithoutNamespace(r))
           /\ Tidy(WithoutNamespace(r))
BY DEF WithoutNamespace, HasProcess, Runtime, Guarded, Kept, CloseStep, GuardOf,
       Lawful, Tidy, SameProcesses

\* The fields of what a cleanup may leave.
LEMMA ResidueFields ==
    ASSUME NEW r \in Runtime, NEW n \in Nodes \cup {NoNode},
           NEW s \in Residue(r, n)
    PROVE  /\ s \in Runtime /\ SameProcesses(r, s)
           /\ s.ks = n /\ s.hostRules \in {FALSE, r.hostRules}
           /\ s.nsRules \in {FALSE, r.nsRules}
           /\ s.ns = r.ns /\ s.orphaned = r.orphaned
<1>1. PICK h \in {FALSE, r.hostRules}, g \in {FALSE, r.nsRules} :
          s = [r EXCEPT !.ks = n, !.hostRules = h, !.nsRules = g]
  BY DEF Residue
<1>2. h \in BOOLEAN /\ g \in BOOLEAN
  BY DEF Runtime
<1> QED BY <1>1, <1>2 DEF Runtime, SameProcesses

\* While nothing runs, any state of the rules and of the state file is guarded.
LEMMA ResidueLawful ==
    ASSUME NEW r \in Runtime, ~HasProcess(r), NEW n \in Nodes \cup {NoNode},
           NEW s \in Residue(r, n)
    PROVE  Lawful(r, s) /\ ~HasProcess(s)
<1>1. /\ s \in Runtime /\ SameProcesses(r, s)
      /\ s.nsRules \in {FALSE, r.nsRules}
      /\ s.ns = r.ns /\ s.orphaned = r.orphaned
  BY ResidueFields
<1>2. Kept(r, s) /\ ~HasProcess(s)
  BY <1>1 DEF Kept, ReguardStep, SameProcesses, HasProcess
<1>3. Guarded(s)
  BY <1>2 DEF Guarded, HasProcess
<1>4. Tidy(r) => Tidy(s)
  BY <1>1 DEF Tidy, HasProcess, SameProcesses
<1> QED BY <1>1, <1>2, <1>3, <1>4 DEF Lawful

LEMMA WithKillswitchLawful ==
    ASSUME NEW r \in Runtime, r.ns, ~HasProcess(r), NEW n \in Nodes \cup {NoNode}
    PROVE  /\ Lawful(r, WithKillswitch(r, n)) /\ SameProcesses(r, WithKillswitch(r, n))
           /\ ~HasProcess(WithKillswitch(r, n))
BY DEF WithKillswitch, HasProcess, Runtime, Guarded, Kept, ReguardStep, Lawful, Tidy,
       SameProcesses

\* Without namespace, processes and state file only host rules are left.
LEMMA NothingLeft ==
    ASSUME NEW s \in Runtime,
           s.ns = FALSE, s.ks = NoNode, s.nsRules = FALSE,
           s.vpn = NoNode, s.socks = FALSE, s.orphaned = FALSE
    PROVE  NothingButRules(s)
<1>1. /\ CleanRuntime \in Runtime
      /\ CleanRuntime.ns = FALSE /\ CleanRuntime.ks = NoNode
      /\ CleanRuntime.nsRules = FALSE /\ CleanRuntime.vpn = NoNode
      /\ CleanRuntime.socks = FALSE /\ CleanRuntime.orphaned = FALSE
  BY DEF CleanRuntime, Runtime
<1>2. [CleanRuntime EXCEPT !.hostRules = s.hostRules] \in Runtime
  BY <1>1 DEF Runtime
<1>3. s = [CleanRuntime EXCEPT !.hostRules = s.hostRules]
  BY <1>1, <1>2 DEF Runtime
<1> QED BY <1>3, Zenon DEF NothingButRules

-----------------------------------------------------------------------------
\* The operations.

LEMMA NamespaceCreateLeaves ==
    ASSUME NEW r \in Runtime, NEW o \in NamespaceCreate(r)
    PROVE  o \in Outcome /\ Lawful(r, o.rt) /\ SameProcesses(r, o.rt)
<1> DEFINE s == [r EXCEPT !.ns = TRUE, !.nsRules = FALSE]
<1>1. o = Fail(r) \/ (~r.ns /\ (o = Ok(s) \/ o = Fail(s)))
  <2>1. CASE r.ns
    BY <2>1 DEF NamespaceCreate
  <2>2. CASE ~r.ns
    <3> HIDE DEF s
    <3>1. NamespaceCreate(r) = {Fail(r)} \cup Lossy({Ok(s)})
      BY <2>2 DEF NamespaceCreate, s
    <3> QED BY <2>2, <3>1, LossyOutcomes
  <2> QED BY <2>1, <2>2
<1>2. ~r.ns => Lawful(r, s) /\ SameProcesses(r, s)
  BY DEF Runtime, Guarded, HasProcess, Kept, CloseStep, GuardOf, Lawful, Tidy,
         SameProcesses
<1>3. SameProcesses(r, r) /\ Lawful(r, r)
  BY SameLawful DEF SameProcesses
<1> HIDE DEF s
<1> QED BY <1>1, <1>2, <1>3, AnswerLeaves DEF Lawful

LEMMA NamespaceDeleteLeaves ==
    ASSUME NEW r \in Runtime, NEW o \in NamespaceDelete(r)
    PROVE  /\ o \in Outcome /\ Lawful(r, o.rt) /\ SameProcesses(r, o.rt)
           /\ Tidy(r) /\ ~HasProcess(r) /\ r.ks = NoNode /\ o.ok => NothingButRules(o.rt)
<1> DEFINE s == IF r.ns THEN WithoutNamespace(r) ELSE r
<1>1. o = Fail(r) \/ o = Ok(s) \/ o = Fail(s)
  BY LossyOutcomes DEF NamespaceDelete
<1>2. Lawful(r, s) /\ SameProcesses(r, s)
  BY SameLawful, WithoutNamespaceLawful DEF SameProcesses
<1>3. Lawful(r, r) /\ SameProcesses(r, r)
  BY SameLawful DEF SameProcesses
<1>4. ASSUME Tidy(r), ~HasProcess(r), r.ks = NoNode
      PROVE  NothingButRules(s)
  <2>1. HasProcess(r) = FALSE
    BY <1>4 DEF HasProcess
  <2>2. /\ s.ks = NoNode /\ s.nsRules = FALSE /\ s.ns = FALSE
        /\ s.vpn = NoNode /\ s.socks = FALSE /\ s.orphaned = FALSE
        /\ s \in Runtime
    <3>1. r.vpn = NoNode /\ r.socks = FALSE
      BY <1>4 DEF HasProcess, Runtime
    <3>2. CASE r.ns
      BY <1>4, <2>1, <3>1, <3>2 DEF WithoutNamespace, Runtime
    <3>3. CASE ~r.ns
      BY <1>4, <2>1, <3>1, <3>3 DEF Tidy, Runtime
    <3> QED BY <3>2, <3>3
  <2> HIDE DEF s
  <2> QED BY <2>2, NothingLeft
<1> HIDE DEF s
<1>5. o.ok => o.rt = s
  BY <1>1, OkLeaves, FailLeaves
<1>6. o \in Outcome /\ Lawful(r, o.rt) /\ SameProcesses(r, o.rt)
  BY <1>1, <1>2, <1>3, AnswerLeaves DEF Lawful
<1>7. Tidy(r) /\ ~HasProcess(r) /\ r.ks = NoNode /\ o.ok => NothingButRules(o.rt)
  BY <1>4, <1>5
<1> QED BY <1>6, <1>7

\* An installation changes nothing while a process runs.
LEMMA KillswitchApplyLeaves ==
    ASSUME NEW r \in Runtime, NEW n \in Nodes \cup {NoNode}, NEW o \in KillswitchApply(r, n)
    PROVE  /\ o \in Outcome /\ Lawful(r, o.rt) /\ SameProcesses(r, o.rt)
           /\ o.ok => ~HasProcess(o.rt)
<1> DEFINE w == WithKillswitch(r, n)
<1>1. CASE ~r.ns \/ HasProcess(r)
  <2>1. o = Fail(r)
    BY <1>1 DEF KillswitchApply
  <2> QED BY <2>1, FailLeaves, SameLawful DEF SameProcesses
<1>2. CASE r.ns /\ ~HasProcess(r)
  <2>1. w \in Runtime /\ Lawful(r, w) /\ SameProcesses(r, w) /\ ~HasProcess(w)
    BY <1>2, WithKillswitchLawful DEF Lawful
  <2>2. r.ks \in Nodes \cup {NoNode}
    BY DEF Runtime
  <2>3. \A k \in {r.ks, NoNode} : \A s \in Residue(r, k) :
            Lawful(r, s) /\ SameProcesses(r, s) /\ ~HasProcess(s)
    BY <1>2, <2>2, ResidueLawful, ResidueFields
  <2>4. ASSUME NEW k \in {n, NoNode}, NEW s \in Residue(w, k)
        PROVE  Lawful(r, s) /\ SameProcesses(r, s) /\ ~HasProcess(s)
    <3> HIDE DEF w
    <3>1. Lawful(w, s) /\ ~HasProcess(s) /\ SameProcesses(w, s) /\ s \in Runtime
      BY <2>1, <2>4, ResidueLawful, ResidueFields
    <3>2. SameProcesses(r, s)
      BY <2>1, <3>1 DEF SameProcesses
    <3>3. Kept(r, s) /\ Guarded(s)
      BY <1>2, <3>1, <3>2 DEF Kept, ReguardStep, SameProcesses, Guarded, HasProcess
    <3>4. Tidy(r) => Tidy(s)
      BY <2>1, <3>1 DEF Lawful
    <3> QED BY <3>1, <3>2, <3>3, <3>4 DEF Lawful
  <2>5. \E s \in Residue(r, r.ks) \cup Residue(r, NoNode) \cup Residue(w, n)
                 \cup Residue(w, NoNode) \cup {w} : o = Ok(s) \/ o = Fail(s)
    <3> HIDE DEF w
    <3>1. KillswitchApply(r, n) =
            {Fail(s) : s \in Residue(r, r.ks) \cup Residue(r, NoNode)
                                  \cup Residue(w, n) \cup Residue(w, NoNode)}
                 \cup Lossy({Ok(w)})
      BY <1>2, Zenon DEF KillswitchApply, w
    <3>2. CASE o \in Lossy({Ok(w)})
      BY <3>2, LossyOutcomes
    <3>3. CASE o \notin Lossy({Ok(w)})
      BY <3>1, <3>3
    <3> QED BY <3>2, <3>3
  <2>6. PICK s : /\ Lawful(r, s) /\ SameProcesses(r, s) /\ ~HasProcess(s)
                 /\ o = Ok(s) \/ o = Fail(s)
    <3> HIDE DEF w
    <3> QED BY <2>1, <2>3, <2>4, <2>5
  <2> QED BY <2>6, AnswerLeaves DEF Lawful
<1> QED BY <1>1, <1>2

\* A removal keeps the guard because it looks for managed processes first.
LEMMA KillswitchRemoveLeaves ==
    ASSUME NEW r \in Runtime, NEW o \in KillswitchRemove(r)
    PROVE  /\ o \in Outcome /\ Lawful(r, o.rt) /\ SameProcesses(r, o.rt)
           /\ o.ok => ~HasProcess(o.rt) /\ o.rt.ks = NoNode
<1>1. CASE HasProcess(r)
  <2>1. o = Fail(r)
    BY <1>1 DEF KillswitchRemove
  <2> QED BY <2>1, FailLeaves, SameLawful DEF SameProcesses
<1>2. CASE ~HasProcess(r) /\ r.ks = NoNode
  <2>1. o = Ok(r) \/ o = Fail(r)
    BY <1>2 DEF KillswitchRemove
  <2> QED BY <1>2, <2>1, AnswerLeaves, SameLawful DEF SameProcesses
<1>3. CASE ~HasProcess(r) /\ r.ks # NoNode
  <2>1. KillswitchRemove(r) = {Fail(s) : s \in Residue(r, r.ks)}
                              \cup Lossy({Ok(s) : s \in Residue(r, NoNode)})
    BY <1>3 DEF KillswitchRemove
  <2>2. r.ks \in Nodes \cup {NoNode}
    BY DEF Runtime
  <2>3. CASE o \in {Fail(s) : s \in Residue(r, r.ks)}
    <3>1. PICK s \in Residue(r, r.ks) : o = Fail(s)
      BY <2>3
    <3>2. Lawful(r, s) /\ SameProcesses(r, s)
      BY <1>3, <2>2, ResidueLawful, ResidueFields
    <3> QED BY <3>1, <3>2, FailLeaves DEF Lawful
  <2>4. CASE o \in Lossy({Ok(s) : s \in Residue(r, NoNode)})
    <3>1. PICK s \in Residue(r, NoNode) : o = Ok(s) \/ o = Fail(s)
      BY <2>4, LossyLeaves
    <3>2. Lawful(r, s) /\ SameProcesses(r, s) /\ ~HasProcess(s) /\ s.ks = NoNode
      BY <1>3, ResidueLawful, ResidueFields
    <3> QED BY <3>1, <3>2, AnswerLeaves DEF Lawful
  <2> QED BY <2>1, <2>3, <2>4
<1> QED BY <1>1, <1>2, <1>3

\* A look changes nothing, and says yes only to what the spawn needs.
LEMMA AskLeaves ==
    ASSUME NEW r \in Runtime, NEW n, NEW o \in OpenvpnAsk(r, n) \cup SocksAsk(r)
    PROVE  /\ o \in Outcome /\ o.rt = r
           /\ o.ok => KillswitchActive(r)
           /\ o.ok /\ o \in OpenvpnAsk(r, n) => r.ks = n
           /\ o.ok /\ o \in SocksAsk(r) => TunReady(r)
BY OkLeaves, FailLeaves DEF OpenvpnAsk, SocksAsk

LEMMA OpenvpnSpawnLeaves ==
    ASSUME NEW r \in Runtime, NEW n \in Nodes \cup {NoNode}, NEW o \in OpenvpnSpawn(r, n)
    PROVE  /\ o \in Outcome /\ (Tidy(r) => Tidy(o.rt)) /\ SameFence(r, o.rt)
           /\ o.rt.vpn \in {r.vpn, n} /\ o.rt.socks = r.socks
           /\ KillswitchActive(r) /\ r.ks = n => Lawful(r, o.rt)
<1> DEFINE s == [r EXCEPT !.vpn = n]
<1>1. \/ o = Ok(r) \/ o = Fail(r)
      \/ r.vpn = NoNode /\ (o = Ok(s) \/ o = Fail(s))
  <2> HIDE DEF s
  <2>1. CASE r.vpn # NoNode \/ ~r.ns
    BY <2>1 DEF OpenvpnSpawn
  <2>2. CASE r.vpn = NoNode /\ r.ns
    <3>1. OpenvpnSpawn(r, n) = {Fail(r)} \cup Lossy({Ok(s)})
      BY <2>2 DEF OpenvpnSpawn, s
    <3> QED BY <2>2, <3>1, LossyOutcomes
  <2> QED BY <2>1, <2>2
<1>2. s \in Runtime /\ SameFence(r, s) /\ s.vpn = n /\ s.socks = r.socks
  BY DEF Runtime, SameFence
<1>3. r.vpn = NoNode /\ Tidy(r) => Tidy(s)
  BY DEF Runtime, Tidy, HasProcess
<1>4. r.vpn = NoNode /\ KillswitchActive(r) /\ r.ks = n => Lawful(r, s)
  <2> SUFFICES ASSUME r.vpn = NoNode, KillswitchActive(r), r.ks = n
               PROVE  Lawful(r, s)
    OBVIOUS
  <2>1. Guarded(s)
    BY DEF Runtime, Guarded, HasProcess, KillswitchActive
  <2>2. Kept(r, s)
    BY DEF Runtime, KillswitchActive, Kept, OpenStep, GuardOf
  <2> QED BY <1>2, <1>3, <2>1, <2>2 DEF Lawful
<1>5. SameFence(r, r) /\ Lawful(r, r)
  BY SameLawful DEF SameFence
<1> HIDE DEF s
<1>6. CASE o = Ok(r) \/ o = Fail(r)
  BY <1>5, <1>6, AnswerLeaves
<1>7. CASE r.vpn = NoNode /\ (o = Ok(s) \/ o = Fail(s))
  BY <1>2, <1>3, <1>4, <1>7, AnswerLeaves
<1> QED BY <1>1, <1>6, <1>7

\* The start keeps the guard because it demands the kill switch of its node.
LEMMA OpenvpnStartLeaves ==
    ASSUME NEW r \in Runtime, NEW n \in Nodes, NEW o \in OpenvpnStart(r, n)
    PROVE  /\ o \in Outcome /\ Lawful(r, o.rt)
           /\ o.rt.vpn \in {r.vpn, n} /\ o.rt.socks = r.socks
<1>1. CASE o = Fail(r)
  BY <1>1, FailLeaves, SameLawful
<1>2. CASE o # Fail(r)
  <2>1. PICK a \in OpenvpnAsk(r, n) : a.ok /\ o \in OpenvpnSpawn(a.rt, n)
    BY <1>2 DEF OpenvpnStart
  <2>2. a.rt = r /\ KillswitchActive(r) /\ r.ks = n
    BY <2>1, AskLeaves
  <2> QED BY <2>1, <2>2, OpenvpnSpawnLeaves
<1> QED BY <1>1, <1>2

LEMMA OpenvpnStopLeaves ==
    ASSUME NEW r \in Runtime, NEW o \in OpenvpnStop(r)
    PROVE  /\ o \in Outcome /\ Lawful(r, o.rt)
           /\ o.rt.vpn \in {r.vpn, NoNode} /\ o.rt.socks = r.socks
           /\ o.ok => o.rt.vpn = NoNode
<1> DEFINE s == WithoutVpn(r)
<1>1. Lawful(r, s) /\ s.vpn = NoNode /\ s.socks = r.socks /\ s \in Runtime
  BY WithoutVpnLawful DEF Lawful
<1> HIDE DEF s
<1>2. o = Fail(r) \/ o = Ok(s) \/ o = Fail(s)
  BY LossyOutcomes DEF OpenvpnStop, s
<1> QED BY <1>1, <1>2, FailLeaves, AnswerLeaves, SameLawful

LEMMA SocksSpawnLeaves ==
    ASSUME NEW r \in Runtime, NEW o \in SocksSpawn(r)
    PROVE  /\ o \in Outcome /\ (Tidy(r) => Tidy(o.rt)) /\ SameFence(r, o.rt)
           /\ o.rt.vpn = r.vpn
           /\ KillswitchActive(r) => Lawful(r, o.rt)
<1> DEFINE s == [r EXCEPT !.socks = TRUE]
<1>1. o = Ok(r) \/ o = Fail(r) \/ o = Ok(s) \/ o = Fail(s)
  <2> HIDE DEF s
  <2>1. CASE r.socks \/ ~r.ns
    BY <2>1 DEF SocksSpawn
  <2>2. CASE ~r.socks /\ r.ns
    <3>1. SocksSpawn(r) = {Fail(r)} \cup Lossy({Ok(s)})
      BY <2>2 DEF SocksSpawn, s
    <3> QED BY <3>1, LossyOutcomes
  <2> QED BY <2>1, <2>2
<1>2. s \in Runtime /\ SameFence(r, s) /\ s.vpn = r.vpn /\ (Tidy(r) => Tidy(s))
  BY DEF Runtime, SameFence, Tidy, HasProcess
<1>3. KillswitchActive(r) => Lawful(r, s)
  <2> SUFFICES ASSUME KillswitchActive(r) PROVE Lawful(r, s)
    OBVIOUS
  <2>1. Guarded(r) => Guarded(s)
    BY DEF Runtime, Guarded, HasProcess, KillswitchActive
  <2>2. Kept(r, s)
    BY DEF Runtime, KillswitchActive, Kept, OpenStep, GuardOf
  <2> QED BY <1>2, <2>1, <2>2 DEF Lawful
<1>4. SameFence(r, r) /\ Lawful(r, r)
  BY SameLawful DEF SameFence
<1> HIDE DEF s
<1> QED BY <1>1, <1>2, <1>3, <1>4, AnswerLeaves

LEMMA SocksStopLeaves ==
    ASSUME NEW r \in Runtime, NEW o \in SocksStop(r)
    PROVE  /\ o \in Outcome /\ Lawful(r, o.rt) /\ o.rt.vpn = r.vpn
           /\ o.rt.socks => r.socks
           /\ o.ok => ~o.rt.socks
<1> DEFINE s == WithoutSocks(r)
<1>1. Lawful(r, s) /\ s.vpn = r.vpn /\ ~s.socks /\ s \in Runtime
  BY WithoutSocksLawful DEF Lawful
<1> HIDE DEF s
<1>2. o = Fail(r) \/ o = Ok(s) \/ o = Fail(s)
  BY LossyOutcomes DEF SocksStop, s
<1> QED BY <1>1, <1>2, FailLeaves, AnswerLeaves, SameLawful

\* The purge may take the rules away because it has stopped the proxy and the
\* OpenVPN before.  It starts nothing, and when it reports success it has left
\* nothing but rules.
LEMMA PurgeLeaves ==
    ASSUME NEW r \in Runtime, NEW o \in Purge(r)
    PROVE  /\ o \in Outcome /\ Lawful(r, o.rt)
           /\ o.rt.vpn \in {r.vpn, NoNode} /\ (o.rt.socks => r.socks)
           /\ o.ok => NothingButRules(o.rt)
<1> DEFINE noSocks == WithoutSocks(r)
           noVpn   == WithoutVpn(noSocks)
           noFile  == Residue(noVpn, NoNode)
<1>1. noSocks \in Runtime /\ Lawful(r, noSocks) /\ noSocks.vpn = r.vpn
      /\ ~noSocks.socks /\ SameFence(r, noSocks)
  BY WithoutSocksLawful DEF Lawful
<1>2. /\ noVpn \in Runtime /\ Lawful(noSocks, noVpn)
      /\ noVpn.vpn = NoNode /\ noVpn.socks = FALSE
      /\ SameFence(noSocks, noVpn)
      /\ noVpn.orphaned = FALSE
  <2> HIDE DEF noSocks
  <2>1. Lawful(noSocks, noVpn) /\ SameFence(noSocks, noVpn) /\ noVpn.vpn = NoNode
        /\ noVpn.socks = noSocks.socks
    BY <1>1, WithoutVpnLawful
  <2>2. noVpn.orphaned = FALSE
    BY <1>1 DEF WithoutVpn, Settle, HasProcess, Runtime
  <2>3. noSocks.socks = FALSE
    BY <1>1 DEF Runtime
  <2> QED BY <2>1, <2>2, <2>3 DEF Lawful
<1>3. Purge(r) = {Fail(s) : s \in {r, noSocks, noVpn} \cup Residue(noVpn, noVpn.ks)
                                    \cup noFile}
                 \cup Lossy({Ok(WithoutNamespace(s)) : s \in noFile})
  BY DEF Purge
<1> HIDE DEF noSocks, noVpn
<1>4. ~HasProcess(noVpn) /\ noVpn.ks \in Nodes \cup {NoNode}
  BY <1>2 DEF HasProcess, Runtime
\* What is left once both have stopped.
<1> DEFINE Bare(s) ==
        /\ s \in Runtime /\ s.vpn = NoNode /\ s.socks = FALSE /\ s.orphaned = FALSE
        /\ Tidy(r) => Tidy(s)
        /\ GuardOf(s) \in {GuardOf(r), NoNode}
<1>5. ASSUME NEW s, Bare(s)
      PROVE  Lawful(r, s)
  <2>1. Guarded(s)
    BY <1>5 DEF Guarded, HasProcess
  <2>2. Kept(r, s)
    BY <1>5 DEF Kept, CloseStep, HasProcess
  <2> QED BY <1>5, <2>1, <2>2 DEF Lawful
<1>6. Bare(noVpn)
  BY <1>1, <1>2 DEF Lawful, SameFence, GuardOf
<1>7. ASSUME NEW k \in {noVpn.ks, NoNode}, NEW s \in Residue(noVpn, k)
      PROVE  Bare(s)
  <2>1. k \in Nodes \cup {NoNode}
    BY <1>4
  <2>2. /\ s \in Runtime /\ SameProcesses(noVpn, s) /\ s.ks = k
        /\ s.hostRules \in {FALSE, noVpn.hostRules} /\ s.orphaned = noVpn.orphaned
    <3>1. noVpn \in Runtime
      BY <1>2
    <3>2. s \in Residue(noVpn, k)
      BY <1>7
    <3> QED BY <2>1, <3>1, <3>2, ResidueFields, Zenon
  <2>3. Tidy(noVpn) => Tidy(s)
    BY <1>2, <1>4, <1>7, <2>1, ResidueLawful DEF Lawful
  <2>4. GuardOf(s) \in {GuardOf(noVpn), NoNode}
    BY <2>2 DEF GuardOf
  <2> QED BY <1>2, <1>6, <2>2, <2>3, <2>4 DEF SameProcesses
<1>8. ASSUME NEW s \in noFile
      PROVE  Bare(WithoutNamespace(s)) /\ NothingButRules(WithoutNamespace(s))
  <2>1. Bare(s)
    BY <1>7, <1>8
  <2>0. s.ks = NoNode
    BY <1>2, <1>8, ResidueFields
  <2>2. HasProcess(s) = FALSE
    BY <2>1 DEF HasProcess
  <2>3. WithoutNamespace(s) = [s EXCEPT !.ns = FALSE, !.nsRules = FALSE, !.orphaned = FALSE]
    BY <2>2, Zenon DEF WithoutNamespace
  <2>4. NothingButRules(WithoutNamespace(s))
    <3>1. /\ WithoutNamespace(s) \in Runtime
          /\ WithoutNamespace(s).ns = FALSE /\ WithoutNamespace(s).ks = NoNode
          /\ WithoutNamespace(s).nsRules = FALSE /\ WithoutNamespace(s).vpn = NoNode
          /\ WithoutNamespace(s).socks = FALSE /\ WithoutNamespace(s).orphaned = FALSE
      BY <2>0, <2>1, <2>3 DEF Runtime
    <3> QED BY <3>1, NothingLeft
  <2>5. Bare(WithoutNamespace(s))
    BY <2>1, <2>3 DEF Runtime, Tidy, GuardOf
  <2> QED BY <2>4, <2>5
<1> HIDE DEF Bare, noFile
<1> DEFINE Left(s) == Lawful(r, s) /\ s.vpn \in {r.vpn, NoNode} /\ (s.socks => r.socks)
<1>9. \A s : Bare(s) => Left(s) /\ s \in Runtime
  BY <1>5 DEF Bare
<1>10. Left(r) /\ Left(noSocks)
  BY <1>1, SameLawful
<1> HIDE DEF Left
<1>11. CASE o \in {Fail(s) : s \in {r, noSocks, noVpn} \cup Residue(noVpn, noVpn.ks)
                                    \cup noFile}
  <2>1. PICK s : /\ s \in {r, noSocks, noVpn} \cup Residue(noVpn, noVpn.ks) \cup noFile
                 /\ o = Fail(s)
    BY <1>11
  <2>2. Left(s) /\ s \in Runtime
    BY <1>1, <1>6, <1>7, <1>9, <1>10, <2>1 DEF noFile
  <2> QED BY <2>1, <2>2, FailLeaves DEF Left
<1>12. CASE o \in Lossy({Ok(WithoutNamespace(s)) : s \in noFile})
  <2> DEFINE S == {WithoutNamespace(s) : s \in noFile}
  <2>1. {Ok(WithoutNamespace(s)) : s \in noFile} = {Ok(t) : t \in S}
    OBVIOUS
  <2>2. PICK t \in S : o = Ok(t) \/ o = Fail(t)
    BY <1>12, <2>1, LossyLeaves
  <2>3. Bare(t) /\ NothingButRules(t)
    BY <1>8, <2>2
  <2>4. Left(t) /\ t \in Runtime
    BY <1>9, <2>3
  <2> QED BY <2>2, <2>3, <2>4, AnswerLeaves DEF Left
<1> QED BY <1>3, <1>11, <1>12

-----------------------------------------------------------------------------
\* The operations together.

\* Whatever an operation finds, what it leaves is a machine; on a guarded machine
\* it keeps the guard, if it is not a spawn that comes too late.
LEMMA OutcomesLawful ==
    ASSUME NEW r \in Runtime, NEW c \in Call, NEW o \in Outcomes(c, r)
    PROVE  /\ o \in Outcome
           /\ Tidy(r) => Tidy(o.rt)
           /\ Ready(c, r) => Lawful(r, o.rt)
<1>1. c.node \in Nodes \cup {NoNode} /\ c.op \in HelperSteps
  BY DEF Call
<1> DEFINE n == c.node
           Answers == o \in Outcome /\ (Tidy(r) => Tidy(o.rt))
                      /\ (Ready(c, r) => Lawful(r, o.rt))
<1> HIDE DEF n
<1>2. Lawful(r, r) /\ r \in Runtime
  BY SameLawful
<1>3. CASE c.op = "createNamespace"
  BY <1>3, NamespaceCreateLeaves DEF Outcomes, Lawful
<1>4. CASE c.op = "deleteNamespace"
  BY <1>4, NamespaceDeleteLeaves DEF Outcomes, Lawful
<1>5. CASE c.op = "applyKillswitch"
  BY <1>1, <1>5, KillswitchApplyLeaves DEF Outcomes, Lawful
<1>6. CASE c.op = "removeKillswitch"
  BY <1>6, KillswitchRemoveLeaves DEF Outcomes, Lawful
<1>7. CASE c.op = "askOpenvpn"
  BY <1>2, <1>7, AskLeaves DEF Outcomes
<1>8. CASE c.op = "spawnOpenvpn"
  <2>1. o \in OpenvpnSpawn(r, c.node)
    BY <1>8 DEF Outcomes
  <2> QED BY <1>1, <1>8, <2>1, OpenvpnSpawnLeaves DEF Ready, Spawns
<1>9. CASE c.op = "stopOpenvpn"
  BY <1>9, OpenvpnStopLeaves DEF Outcomes, Lawful
<1>10. CASE c.op = "askSocks"
  BY <1>2, <1>10, AskLeaves DEF Outcomes
<1>11. CASE c.op = "spawnSocks"
  <2>1. o \in SocksSpawn(r)
    BY <1>11 DEF Outcomes
  <2> QED BY <1>11, <2>1, SocksSpawnLeaves DEF Ready, Spawns
<1>12. CASE c.op = "stopSocks"
  BY <1>12, SocksStopLeaves DEF Outcomes, Lawful
<1>13. CASE c.op = "purge"
  BY <1>13, PurgeLeaves DEF Outcomes, Lawful
<1> QED BY <1>1, <1>3, <1>4, <1>5, <1>6, <1>7, <1>8, <1>9, <1>10, <1>11, <1>12, <1>13
        DEF HelperSteps

\* A look that says yes leaves the machine ready for its spawn.
LEMMA AskMakesReady ==
    ASSUME NEW r \in Runtime, NEW c \in Call, NEW o \in Outcomes(c, r),
           c.op \in Asks, o.ok
    PROVE  o.rt = r /\ Ready([c EXCEPT !.op = SpawnAfter(c.op)], r)
<1>1. CASE c.op = "askOpenvpn"
  <2>1. o \in OpenvpnAsk(r, c.node)
    BY <1>1 DEF Outcomes
  <2>2. o.rt = r /\ KillswitchActive(r) /\ r.ks = c.node
    BY <2>1, AskLeaves
  <2> QED BY <2>2 DEF Ready, Call
<1>2. CASE c.op = "askSocks"
  <2>1. o \in SocksAsk(r)
    BY <1>2 DEF Outcomes
  <2>2. o.rt = r /\ KillswitchActive(r)
    BY <2>1, AskLeaves
  <2> QED BY <1>2, <2>2 DEF Ready, Call, SpawnAfter
<1> QED BY <1>1, <1>2 DEF Asks

\* A process that ends, or a helper that only looks, keeps what a spawn needs.
LEMMA FenceKeepsReady ==
    ASSUME NEW r, NEW s, NEW c, Ready(c, r), SameFence(r, s)
    PROVE  Ready(c, s)
BY DEF Ready, SameFence, KillswitchActive
=============================================================================
