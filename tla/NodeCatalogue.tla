--------------------------- MODULE NodeCatalogue ---------------------------
(***************************************************************************)
(* The rows of the nodes and who writes them: the import of a feed, node   *)
(* scans with their records, the classification of an exit, the health     *)
(* checks and starts that measure the exit of a connection, and switches.  *)
(*                                                                         *)
(* Each of them is a coroutine with a database session of its own.  It     *)
(* loads the row once, awaits the scan and the lookup of the exit, and     *)
(* commits: only the columns that now differ from what it had loaded are   *)
(* written (autoflush and expire_on_commit are off).  What runs between    *)
(* two awaits is one step, for all of them share the event loop.           *)
(***************************************************************************)
EXTENDS Naturals, FiniteSets

CONSTANTS
    Nodes,          \* the configurations a feed may offer, by their hash
    Tcp, Ipv6,      \* those that are reached over TCP, those with an IPv6 address
    Exits,          \* the addresses from which traffic can leave
    Countries,
    ServerOf,       \* the address of a node's server
    CountryOf,      \* what the provider answers for an address
    Offers,         \* bound: the sets of nodes that a feed offers
    Feeds,          \* bound: the countries that a feed gives a node, None if it has none
    Answers,        \* bound: the sets of columns that a provider's answer may have
    Asked,          \* bound: the kinds of sessions that are asked for, by node
    MaxSessions,    \* bound: the sessions of a behaviour
    None

ASSUME CatalogueAssumption ==
    /\ Tcp \subseteq Nodes /\ Ipv6 \subseteq Nodes
    /\ ServerOf \in [Nodes -> Exits] /\ CountryOf \in [Exits -> Countries]
    /\ Offers \subseteq SUBSET Nodes /\ Feeds \subseteq Countries \cup {None}
    /\ Answers \subseteq SUBSET {"country", "asn", "ptr"}
    /\ Asked \in [Nodes -> SUBSET {"fast", "full", "classify", "check", "switch"}]
    /\ MaxSessions \in Nat
    /\ None \notin Nodes \cup Exits \cup Countries

VARIABLES
    imported,       \* the nodes that have a row
    rows,           \* [Nodes -> Row]
    sessions,       \* [Ids -> Session], in the order in which they load their row
    overlapped,     \* history: the nodes of which two sessions were open at once
    listed          \* history: per node, the countries that feeds have named

vars == <<imported, rows, sessions, overlapped, listed>>

Ids == 1..MaxSessions

-----------------------------------------------------------------------------
\* feed is the country of the feed's row; exit is classified_exit_ip, and country
\* exit_country_code with the columns of its name and city.  Of asn (which stands for
\* asn_organization and isp too) and of ptr the address that they belong to is kept.
Row == [available : BOOLEAN, failures : Nat, exit : Exits \cup {None},
        country : Countries \cup {None}, asn : Exits \cup {None}, ptr : Exits \cup {None},
        feed : Countries \cup {None}]

NewRow(feed) ==
    [available |-> FALSE, failures |-> 0, exit |-> None, country |-> None,
     asn |-> None, ptr |-> None, feed |-> feed]

Scans == {"fast", "full"}
Kinds == Scans \cup {"classify", "check", "switch"}

\* Where a session stands.  Of the last five none does anything any more.
Open == {"measuring", "enriching", "verifying"}
Over == {"done", "cancelled", "refused", "raised", "crashed"}

\* What a session found out: a scan that failed, that only saw a route, that
\* reached the node; a tunnel that was measured; a switch that was verified.
Outcomes == {"failed", "simulated", "routed", "reached", "measured", "verified"}

Records == {"RUNNING", "SUCCEEDED", "FAILED"}

ASSUME NoneAssumption == None \notin Kinds \cup Outcomes \cup Records

Session ==
    [at : Open \cup Over \cup {"unused"}, node : Nodes \cup {None},
     kind : Kinds \cup {None}, outcome : Outcomes \cup {None},
     record : Records \cup {None},
     exit : Exits \cup {None}, seen : Row, wanted : Row]

Unused ==
    [at |-> "unused", node |-> None, kind |-> None, outcome |-> None, record |-> None,
     exit |-> None, seen |-> NewRow(None), wanted |-> NewRow(None)]

IsLive(i) == sessions[i].at \in Open

-----------------------------------------------------------------------------
\* The newest successful full scan of the node that was not simulated.
Classifiable(n) ==
    {i \in Ids : /\ sessions[i].node = n
                 /\ sessions[i].kind = "full"
                 /\ sessions[i].record = "SUCCEEDED"
                 /\ sessions[i].outcome = "measured"}

Newest(ids) == CHOOSE i \in ids : \A j \in ids : j <= i

\* A scan commits its record, RUNNING, before it does anything else, and raises at
\* once if the address of the node is not IPv4.
Begun(n, kind) ==
    [at      |-> CASE kind \in Scans /\ n \in Ipv6 -> "raised"
                   [] kind = "classify" -> "enriching"
                   [] OTHER -> "measuring",
     node    |-> n,
     kind    |-> kind,
     outcome |-> None,
     record  |-> IF kind \in Scans THEN "RUNNING" ELSE None,
     exit    |-> IF kind = "classify" THEN sessions[Newest(Classifiable(n))].exit ELSE None,
     seen    |-> rows[n],
     wanted  |-> rows[n]]

\* A session loads the row.
Begin(i, n, kind) ==
    /\ sessions[i].at = "unused" /\ \A j \in 1..(i - 1) : sessions[j].at # "unused"
    /\ n \in imported
    /\ kind = "classify" => Classifiable(n) # {}
    /\ kind = "switch" => rows[n].available
    /\ sessions' = [sessions EXCEPT ![i] = Begun(n, kind)]
    /\ overlapped' = IF \E j \in Ids : IsLive(j) /\ sessions[j].node = n
                     THEN overlapped \cup {n} ELSE overlapped
    /\ UNCHANGED <<imported, rows, listed>>

-----------------------------------------------------------------------------
\* Any success of a scan is taken for a connection (for the mutants).
ConfirmedByAny(outcome) == outcome \in {"reached", "measured", "routed", "simulated"}

Confirmed(outcome) == outcome \in {"reached", "measured"}

\* A success leaves the failures as they are (for the mutants).
JudgedKeepingFailures(row, kind, outcome) ==
    CASE kind \in Scans /\ outcome = "failed" ->
           [row EXCEPT !.available = FALSE, !.failures = @ + 1]
      [] (kind \in Scans /\ Confirmed(outcome)) \/ outcome = "verified" ->
           [row EXCEPT !.available = TRUE]
      [] OTHER -> row

\* _apply_real_outcome, and what a switch does to its candidate.
Judged(row, kind, outcome) ==
    CASE kind \in Scans /\ Confirmed(outcome) ->
           [row EXCEPT !.available = TRUE, !.failures = 0]
      [] kind \in Scans /\ outcome = "failed" ->
           [row EXCEPT !.available = FALSE, !.failures = @ + 1]
      [] kind = "switch" /\ outcome = "simulated" -> [row EXCEPT !.failures = 0]
      [] outcome = "verified" -> [row EXCEPT !.available = TRUE, !.failures = 0]
      [] OTHER -> row

\* The first of two values that is known.
Or(value, other) == IF value # None THEN value ELSE other

\* The column of a provider's answer, which has the given columns.
Answered(answer, column, value) == IF column \in answer THEN value ELSE None

\* The row's columns are taken whatever its exit was (for the mutants).
EnrichedFromAnyExit(row, n, exit, answer) ==
    [row EXCEPT !.exit = exit,
                !.country = Or(Answered(answer, "country", CountryOf[exit]), @),
                !.asn = Or(Answered(answer, "asn", exit), @),
                !.ptr = Or(Answered(answer, "ptr", exit), @)]

\* enrich_node: a lookup that fails answers nothing.  What the session has loaded may
\* know the country, from the same exit before or from the feed if the server is the
\* exit.  In both cases the other columns are kept, whatever exit they are of.
Enriched(row, n, exit, answer) ==
    LET same == row.exit = exit
        atServer == ServerOf[n] = exit
        Kept(value) == IF same \/ atServer THEN value ELSE None
        cached == IF same THEN row.country ELSE None
        named == IF atServer THEN row.feed ELSE None
    IN  [row EXCEPT !.exit = exit,
                    !.country = Or(Answered(answer, "country", CountryOf[exit]), Or(cached, named)),
                    !.asn = Or(Answered(answer, "asn", exit), Kept(@)),
                    !.ptr = Or(Answered(answer, "ptr", exit), Kept(@))]

\* Every column is written (for the mutants).
ColumnAlways(now, seen, wanted) == wanted

\* The flush: a column that is as it was loaded is not written.
Column(now, seen, wanted) == IF wanted = seen THEN now ELSE wanted

Flushed(now, seen, wanted) ==
    [available |-> Column(now.available, seen.available, wanted.available),
     failures  |-> Column(now.failures, seen.failures, wanted.failures),
     exit      |-> Column(now.exit, seen.exit, wanted.exit),
     country   |-> Column(now.country, seen.country, wanted.country),
     asn       |-> Column(now.asn, seen.asn, wanted.asn),
     ptr       |-> Column(now.ptr, seen.ptr, wanted.ptr),
     feed      |-> Column(now.feed, seen.feed, wanted.feed)]

\* A session that is over remembers no row.
Closed(s, at, outcome, record) ==
    [at |-> at, node |-> s.node, kind |-> s.kind, outcome |-> outcome, record |-> record,
     exit |-> s.exit, seen |-> NewRow(None), wanted |-> NewRow(None)]

\* Without the case of the failed scan (for the mutants).
StatusUnmapped(s, outcome) == IF s.kind \in Scans THEN outcome ELSE None

Status(s, outcome) ==
    IF s.kind \notin Scans THEN None
    ELSE IF outcome = "failed" THEN "FAILED" ELSE "SUCCEEDED"

\* The row and the record are written by one commit, or by none of both.
Commit(i, row, outcome) ==
    LET s == sessions[i]
    IN  /\ \/ /\ sessions' = [sessions EXCEPT ![i] =
                                  Closed(s, "done", outcome, Status(s, outcome))]
              /\ rows' = [rows EXCEPT ![s.node] =
                              Flushed(@, s.seen, Judged(row, s.kind, outcome))]
           \/ /\ sessions' = [sessions EXCEPT ![i] = Closed(s, "refused", None, s.record)]
              /\ UNCHANGED rows
        /\ UNCHANGED <<imported, overlapped, listed>>

-----------------------------------------------------------------------------
\* The scan returns.  Which of them are simulated is a setting of the service.
ScanOutcomes(s) ==
    {"failed", "simulated"} \cup
    IF s.kind = "full" THEN {} ELSE IF s.node \in Tcp THEN {"reached"} ELSE {"routed"}

\* A fast scan that succeeds also looks for the name of the server's address.
WithName(s, outcome) ==
    {s.wanted} \cup
    IF outcome \in {"reached", "routed"} THEN {[s.wanted EXCEPT !.ptr = ServerOf[s.node]]} ELSE {}

ScanEnds(i) ==
    /\ sessions[i].at = "measuring" /\ sessions[i].kind \in Scans
    /\ \E outcome \in ScanOutcomes(sessions[i]) :
           \E row \in WithName(sessions[i], outcome) : Commit(i, row, outcome)

\* A dry run of a check writes nothing; the one of a switch clears the failures.
DryRunEnds(i) ==
    /\ sessions[i].at = "measuring" /\ sessions[i].kind \in {"check", "switch"}
    /\ Commit(i, sessions[i].wanted, "simulated")

\* The tunnel did not come up: the commit of the connection has no column of the row.
MeasureFails(i) ==
    /\ sessions[i].at = "measuring" /\ sessions[i].kind \in {"check", "switch"}
    /\ Commit(i, sessions[i].wanted, None)

\* The exit of the tunnel is known, and the session looks it up.
Measured(i, exit) ==
    /\ sessions[i].at = "measuring" /\ sessions[i].kind # "fast"
    /\ sessions[i].node \notin Ipv6
    /\ sessions' = [sessions EXCEPT ![i] = [@ EXCEPT !.at = "enriching", !.exit = exit]]
    /\ UNCHANGED <<imported, rows, overlapped, listed>>

\* The lookup answers, or fails with an error of the provider.
LookedUp(i) ==
    LET s == sessions[i]
        WithAnswer(answer) ==
            LET row == Enriched(s.wanted, s.node, s.exit, answer)
            IN  IF s.kind \in {"check", "switch"}
                THEN /\ sessions' = [sessions EXCEPT ![i] =
                                         [s EXCEPT !.at = "verifying", !.wanted = row]]
                     /\ UNCHANGED <<imported, rows, overlapped, listed>>
                ELSE Commit(i, row, "measured")
    IN  /\ s.at = "enriching"
        /\ \E answer \in Answers : WithAnswer(answer)

\* The lookup breaks off: a scan does without it, all others write no column.
LookupBreaks(i) ==
    /\ sessions[i].at = "enriching"
    /\ Commit(i, sessions[i].wanted, IF sessions[i].kind = "full" THEN "measured" ELSE None)

\* What is left of a check or a switch: the services, the proxy.  A switch that
\* fails here commits what it has learned of the exit.
Verified(i) ==
    /\ sessions[i].at = "verifying"
    /\ \E outcome \in {None, IF sessions[i].kind = "switch" THEN "verified" ELSE "measured"} :
           Commit(i, sessions[i].wanted, outcome)

-----------------------------------------------------------------------------
\* The cancelled scan does not catch it (for the mutants).
CancelledUncaught(s) == s.record

\* Only the scan itself expects to be cancelled; its record says so.
CancelledRecord(s) ==
    IF s.kind \in Scans /\ s.at = "measuring" THEN "FAILED" ELSE s.record

Cancel(i) ==
    LET s == sessions[i]
    IN  /\ IsLive(i)
        /\ sessions' = [sessions EXCEPT ![i] =
                            Closed(s, "cancelled", None, CancelledRecord(s))]
        /\ UNCHANGED <<imported, rows, overlapped, listed>>

\* The service stops at once.  Nothing ends the records of its scans later.
Crash ==
    /\ \E i \in Ids : IsLive(i)
    /\ sessions' = [i \in Ids |->
           IF IsLive(i) THEN Closed(sessions[i], "crashed", None, sessions[i].record)
           ELSE sessions[i]]
    /\ UNCHANGED <<imported, rows, overlapped, listed>>

\* The row is made anew (for the mutants).
ImportedAnew(n, feed) == NewRow(feed)

\* import_nodes: the feed is fetched before a row is read.
ImportedRow(n, feed) ==
    IF n \in imported THEN [rows[n] EXCEPT !.feed = feed] ELSE NewRow(feed)

Refresh(offered, feed) ==
    /\ imported' = imported \cup offered
    /\ rows' = [n \in Nodes |-> IF n \in offered THEN ImportedRow(n, feed) ELSE rows[n]]
    /\ listed' = [n \in Nodes |->
           IF n \in offered THEN listed[n] \cup ({feed} \ {None}) ELSE listed[n]]
    /\ UNCHANGED <<sessions, overlapped>>

-----------------------------------------------------------------------------
Init ==
    /\ imported = {}
    /\ rows = [n \in Nodes |-> NewRow(None)]
    /\ sessions = [i \in Ids |-> Unused]
    /\ overlapped = {}
    /\ listed = [n \in Nodes |-> {}]

Step(i) ==
    \/ \E n \in Nodes : \E kind \in Asked[n] : Begin(i, n, kind)
    \/ ScanEnds(i) \/ DryRunEnds(i) \/ MeasureFails(i)
    \/ \E exit \in Exits : Measured(i, exit)
    \/ LookedUp(i) \/ LookupBreaks(i) \/ Verified(i) \/ Cancel(i)

Next ==
    \/ \E i \in Ids : Step(i)
    \/ Crash
    \/ \E offered \in Offers, feed \in Feeds : Refresh(offered, feed)

Spec == Init /\ [][Next]_vars

-----------------------------------------------------------------------------
CatalogueTypeOK ==
    /\ imported \subseteq Nodes /\ overlapped \subseteq Nodes
    /\ listed \in [Nodes -> SUBSET Countries]
    /\ rows \in [Nodes -> Row]
    /\ sessions \in [Ids -> Session]

Committed(n) == {i \in Ids : sessions[i].node = n /\ sessions[i].at = "done"}

Failing(n) == {i \in Committed(n) : sessions[i].outcome = "failed"}

\* The scans that reached the node, and the switches that verified it.
Reaching(n) ==
    {i \in Committed(n) : \/ sessions[i].outcome \in {"reached", "verified"}
                          \/ sessions[i].outcome = "measured" /\ sessions[i].kind = "full"}

\* A dry run of a switch clears the failures as well.
Clearing(n) ==
    Reaching(n) \cup {i \in Committed(n) : /\ sessions[i].kind = "switch"
                                           /\ sessions[i].outcome = "simulated"}

\* The row of a node of which no two sessions were ever open together says what
\* their records say: available if the last scan or switch that decided anything
\* reached the node, with as many failures as scans failed since the last success.
\* Of sessions that overlap one may undo the other, for each of them writes what
\* differs from the row that it had loaded before its awaits.
RowFollowsRecords ==
    \A n \in Nodes \ overlapped :
        /\ rows[n].available <=> \E i \in Reaching(n) : \A j \in Failing(n) : j < i
        /\ rows[n].failures =
               Cardinality({i \in Failing(n) : \A j \in Clearing(n) : j < i})

\* However the sessions overlap, a node is available only after it was reached: by
\* a full scan through the tunnel, by a TCP connection of a fast scan, or by a
\* switch.  No simulated scan, no UDP route and no import makes it so.
AvailableWasReached ==
    \A n \in Nodes : rows[n].available => Reaching(n) # {}

\* What a row says of its exit belongs to that exit.  The country was looked up for
\* it, or the exit is the server and a feed named the country for this node; it is
\* never that of an exit that an earlier session saw.  The columns of the network are
\* the exit's too, but that a fast scan writes the name of the server in any case, and
\* that a row whose exit is the server may keep them from any exit before it.
RowDescribesExit ==
    \A n \in Nodes \ overlapped :
        LET row == rows[n]
        IN  /\ \/ row.country = None
               \/ row.country = CountryOf[row.exit]
               \/ row.exit = ServerOf[n] /\ row.country \in listed[n]
            /\ \/ row.exit = ServerOf[n]
               \/ row.asn \in {None, row.exit} /\ row.ptr \in {None, row.exit, ServerOf[n]}

\* A record says RUNNING while its scan runs.  Afterwards only if the service
\* crashed, the commit was refused, the address was no IPv4 address, or the scan
\* was cancelled while the exit was looked up: none of these ends it later.
RunningHasScan ==
    \A i \in Ids :
        sessions[i].record = "RUNNING" =>
            \/ IsLive(i)
            \/ sessions[i].at \in {"refused", "raised", "crashed"}
            \/ sessions[i].at = "cancelled" /\ sessions[i].exit # None

\* Availability and failures change with the commit that ends a session which found
\* something out about the node, and then with no other row's: not with an import,
\* a classification or a check, whatever they had loaded.
VerdictWithRecord ==
    [][\A n \in Nodes :
           \/ /\ rows'[n].available = rows[n].available
              /\ rows'[n].failures = rows[n].failures
           \/ \E i \in Ids :
                 /\ IsLive(i) /\ i \in (Clearing(n) \cup Failing(n))'
                 /\ sessions'[i].record # "RUNNING"]_vars
=============================================================================
