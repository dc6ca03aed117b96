------------------------ MODULE NodeCatalogueProofs ------------------------
(***************************************************************************)
(* For any nodes, addresses and number of sessions: what the rows of the   *)
(* nodes say agrees with the records of the sessions.  For any table of    *)
(* rows: a switch goes to the best node that is allowed.  And for any      *)
(* configuration: what is kept of it is harmless and accepted again.       *)
(*                                                                         *)
(* A session decides on the row that it loaded.  The argument is that the  *)
(* verdict it writes is either its own or the one it had loaded, which is  *)
(* not written; and that while no other session of the node is open, what  *)
(* it loaded is what the row still says.                                   *)
(*                                                                         *)
(* The keys of two rows are never equal, since the ids are not, and order  *)
(* them as Better does; so a table can be sorted, and its first row is the *)
(* one that no other is better than.                                       *)
(*                                                                         *)
(* A configuration that was sanitised is read again line by line, with the *)
(* first reading ahead of the second by at most the bytes of a block: so   *)
(* nothing that was kept is refused.                                       *)
(***************************************************************************)
EXTENDS MCCatalogue, FiniteSetTheorems, SequenceTheorems, WellFoundedInduction, TLAPS

-----------------------------------------------------------------------------
\* The invariant.

\* The columns of the exit belong to the exit of the row, and the feed's to a feed.
Fits(n, row) ==
    /\ row.feed = None \/ row.feed \in listed[n]
    /\ \/ row.country = None
       \/ row.country = CountryOf[row.exit]
       \/ row.exit = ServerOf[n] /\ row.country \in listed[n]
    /\ \/ row.exit = ServerOf[n]
       \/ row.asn \in {None, row.exit} /\ row.ptr \in {None, row.exit, ServerOf[n]}

\* Two rows that agree in what sessions write.
Alike(row, other) ==
    /\ row.available = other.available /\ row.failures = other.failures
    /\ row.exit = other.exit /\ row.country = other.country
    /\ row.asn = other.asn /\ row.ptr = other.ptr

\* What each session is, whatever the others do.
SessionOK(s) ==
    /\ s.at = "unused" => s = Unused
    /\ s.at # "unused" => s.node \in imported /\ s.kind \in Kinds
    /\ s.kind \notin Scans => s.record = None
    /\ s.at = "done" => s.record # "RUNNING"
    /\ s.at = "cancelled" /\ s.record = "RUNNING" => s.exit # None
    /\ s.at \in {"enriching", "verifying"} => s.exit \in Exits /\ s.kind # "fast"
    /\ s.at = "verifying" => s.kind \in {"check", "switch"}
    /\ s.outcome = "measured" => s.exit \in Exits
    /\ s.at \in Open => /\ s.wanted.available = s.seen.available
                        /\ s.wanted.failures = s.seen.failures

\* The rows that no session ever loaded with another one.
Alone(s) ==
    s.at \in Open /\ s.node \notin overlapped =>
        Alike(s.seen, rows[s.node]) /\ Fits(s.node, s.wanted)

\* Only the last session of a node is open, if no two of them ever were.
LastIsOpen ==
    \A i, j \in Ids :
        /\ sessions[i].at \in Open /\ sessions[i].node \notin overlapped
        /\ sessions[j].node = sessions[i].node /\ j # i
        => j < i /\ sessions[j].at \notin Open

InOrder ==
    \A i, j \in Ids : j < i /\ sessions[i].at # "unused" => sessions[j].at # "unused"

\* What a row says of a node that was never imported, and of one that was.
RowOK(n) ==
    /\ n \notin imported => rows[n].available = FALSE /\ rows[n].failures = 0
    /\ rows[n].available => Reaching(n) # {}

Reached(n) == \E i \in Reaching(n) : \A j \in Failing(n) : j < i

Since(n) == {i \in Failing(n) : \A j \in Clearing(n) : j < i}

\* What RowFollowsRecords and RowDescribesExit say of a node.
Follows(n) ==
    n \notin overlapped => /\ rows[n].available <=> Reached(n)
                           /\ rows[n].failures = Cardinality(Since(n))
                           /\ Fits(n, rows[n])

CInv ==
    /\ CatalogueTypeOK
    /\ \A i \in Ids : SessionOK(sessions[i]) /\ Alone(sessions[i])
    /\ LastIsOpen /\ InOrder
    /\ \A n \in Nodes : RowOK(n) /\ Follows(n)

-----------------------------------------------------------------------------
\* Types of what sessions carry.

LEMMA RowsTyped ==
    /\ \A feed \in Countries \cup {None} : NewRow(feed) \in Row
    /\ Unused \in Session
    /\ \A s \in Session : s.seen \in Row /\ s.wanted \in Row
<1>1. \A feed \in Countries \cup {None} : NewRow(feed) \in Row
  BY DEF NewRow, Row
<1>2. NewRow(None) \in Row
  BY <1>1
<1>3. Unused \in Session
  BY <1>2 DEF Unused, Session
<1> QED
  BY <1>1, <1>3 DEF Session

LEMMA ClosedTyped ==
    ASSUME NEW s \in Session, NEW at \in Over, NEW outcome \in Outcomes \cup {None},
           NEW record \in Records \cup {None}
    PROVE  /\ Closed(s, at, outcome, record) \in Session
           /\ Closed(s, at, outcome, record).at = at
           /\ Closed(s, at, outcome, record).node = s.node
           /\ Closed(s, at, outcome, record).kind = s.kind
           /\ Closed(s, at, outcome, record).outcome = outcome
           /\ Closed(s, at, outcome, record).record = record
           /\ Closed(s, at, outcome, record).exit = s.exit
<1>1. NewRow(None) \in Row
  BY RowsTyped
<1> QED
  BY <1>1 DEF Closed, Session

LEMMA StatusTyped ==
    ASSUME NEW s \in Session, NEW outcome
    PROVE  /\ Status(s, outcome) \in Records \cup {None}
           /\ Status(s, outcome) # "RUNNING"
           /\ s.kind \notin Scans => Status(s, outcome) = None
<1>1. None # "RUNNING"
  BY NoneAssumption DEF Records
<1> QED
  BY <1>1 DEF Status, Records

\* A judgement changes at most the verdict of a row.
LEMMA JudgedTyped ==
    ASSUME NEW row \in Row, NEW kind, NEW outcome
    PROVE  /\ Judged(row, kind, outcome) \in Row
           /\ Judged(row, kind, outcome).exit = row.exit
           /\ Judged(row, kind, outcome).country = row.country
           /\ Judged(row, kind, outcome).asn = row.asn
           /\ Judged(row, kind, outcome).ptr = row.ptr
           /\ Judged(row, kind, outcome).feed = row.feed
<1>1. row.failures + 1 \in Nat /\ 0 \in Nat
  BY DEF Row
<1>2. /\ [row EXCEPT !.available = TRUE, !.failures = 0] \in Row
      /\ [row EXCEPT !.available = FALSE, !.failures = @ + 1] \in Row
      /\ [row EXCEPT !.failures = 0] \in Row
  BY <1>1 DEF Row
<1>3. \/ Judged(row, kind, outcome) = [row EXCEPT !.available = TRUE, !.failures = 0]
      \/ Judged(row, kind, outcome) = [row EXCEPT !.available = FALSE, !.failures = @ + 1]
      \/ Judged(row, kind, outcome) = [row EXCEPT !.failures = 0]
      \/ Judged(row, kind, outcome) = row
  BY DEF Judged
<1>4. \A r \in {[row EXCEPT !.available = TRUE, !.failures = 0],
                [row EXCEPT !.available = FALSE, !.failures = @ + 1],
                [row EXCEPT !.failures = 0], row} :
          /\ r.exit = row.exit /\ r.country = row.country
          /\ r.asn = row.asn /\ r.ptr = row.ptr /\ r.feed = row.feed
  BY DEF Row
<1>5. PICK r : r = Judged(row, kind, outcome)
  OBVIOUS
<1> QED
  BY <1>2, <1>3, <1>4, <1>5

LEMMA FlushedTyped ==
    ASSUME NEW now \in Row, NEW seen \in Row, NEW wanted \in Row
    PROVE  Flushed(now, seen, wanted) \in Row
BY DEF Flushed, Column, Row

\* What the lookup teaches fits the exit, if what was known before did.
LEMMA EnrichedTyped ==
    ASSUME NEW n \in Nodes, NEW row \in Row, NEW exit \in Exits,
           NEW answer
    PROVE  /\ Enriched(row, n, exit, answer) \in Row
           /\ Enriched(row, n, exit, answer).available = row.available
           /\ Enriched(row, n, exit, answer).failures = row.failures
           /\ Fits(n, row) => Fits(n, Enriched(row, n, exit, answer))
<1> DEFINE same == row.exit = exit
           home == ServerOf[n] = exit
           Kept(value) == IF same \/ home THEN value ELSE None
           cached == IF same THEN row.country ELSE None
           named == IF home THEN row.feed ELSE None
           country == Or(Answered(answer, "country", CountryOf[exit]), Or(cached, named))
           asn == Or(Answered(answer, "asn", exit), Kept(row.asn))
           ptr == Or(Answered(answer, "ptr", exit), Kept(row.ptr))
<1>1. CountryOf[exit] \in Countries
  BY CatalogueAssumption
<1>2. /\ country \in Countries \cup {None}
      /\ asn \in Exits \cup {None} /\ ptr \in Exits \cup {None}
  BY <1>1 DEF Or, Answered, Row
<1>3. Enriched(row, n, exit, answer) =
          [row EXCEPT !.exit = exit, !.country = country, !.asn = asn, !.ptr = ptr]
  BY DEF Enriched
<1>4. ASSUME Fits(n, row)
      PROVE  /\ \/ country = None
                \/ country = CountryOf[exit]
                \/ exit = ServerOf[n] /\ country \in listed[n]
             /\ \/ exit = ServerOf[n]
                \/ asn \in {None, exit} /\ ptr \in {None, exit, ServerOf[n]}
  BY <1>4 DEF Or, Answered, Fits
<1> HIDE DEF country, asn, ptr
<1>5. Enriched(row, n, exit, answer) \in Row
  BY <1>2, <1>3 DEF Row
<1>6. /\ Enriched(row, n, exit, answer).available = row.available
      /\ Enriched(row, n, exit, answer).failures = row.failures
      /\ Enriched(row, n, exit, answer).feed = row.feed
      /\ Enriched(row, n, exit, answer).exit = exit
      /\ Enriched(row, n, exit, answer).country = country
      /\ Enriched(row, n, exit, answer).asn = asn
      /\ Enriched(row, n, exit, answer).ptr = ptr
  BY <1>3 DEF Row
<1> QED
  BY <1>4, <1>5, <1>6 DEF Fits

\* The newest of some sessions is one of them.
LEMMA NewestIsIn ==
    ASSUME NEW S \in SUBSET Ids, S # {}
    PROVE  Newest(S) \in S
<1> DEFINE T == {MaxSessions - i : i \in S}
<1>1. T \subseteq Nat /\ T # {}
  <2>1. \A i \in S : i \in 1..MaxSessions
    BY DEF Ids
  <2>2. \A i \in S : MaxSessions - i \in Nat
    BY <2>1, CatalogueAssumption
  <2>3. PICK i \in S : TRUE
    OBVIOUS
  <2>4. MaxSessions - i \in T
    BY <2>3
  <2> QED
    BY <2>2, <2>4
<1>2. PICK x \in T : \A y \in T : <<y, x>> \notin OpToRel(<, Nat)
  BY <1>1, NatLessThanWellFounded, WFMin
<1>3. \A y \in T : ~(y < x)
  BY <1>1, <1>2 DEF OpToRel
<1>4. PICK i \in S : x = MaxSessions - i
  BY <1>2
<1>5. ASSUME NEW j \in S PROVE j <= i
  <2>1. ~(MaxSessions - j < MaxSessions - i)
    BY <1>3, <1>4
  <2>2. MaxSessions \in Nat
    BY CatalogueAssumption
  <2> QED
    BY <2>1, <2>2 DEF Ids
<1> QED
  BY <1>4, <1>5 DEF Newest

-----------------------------------------------------------------------------
\* What a step does to the records.

\* Where no session commits, the records stay.
LEMMA RecordsStay ==
    ASSUME NEW n,
           \A i \in Ids : \/ sessions'[i] = sessions[i]
                          \/ sessions[i].at # "done" /\ sessions'[i].at # "done"
    PROVE  /\ Failing(n)' = Failing(n) /\ Reaching(n)' = Reaching(n)
           /\ Clearing(n)' = Clearing(n)
           /\ Reached(n)' = Reached(n) /\ Since(n)' = Since(n)
<1>1. Committed(n)' = Committed(n)
  BY DEF Committed
<1>2. \A i \in Committed(n) : i \in Ids /\ sessions'[i] = sessions[i]
  BY DEF Committed
<1>3. Failing(n)' = Failing(n)
  BY <1>1, <1>2 DEF Failing
<1>4. Reaching(n)' = Reaching(n)
  BY <1>1, <1>2 DEF Reaching
<1>5. Clearing(n)' = Clearing(n)
  BY <1>1, <1>2, <1>4 DEF Clearing
<1> QED
  BY <1>3, <1>4, <1>5 DEF Reached, Since

\* Does a committed session t reach its node, or clear its failures?
Reaches(t) ==
    t.outcome \in {"reached", "verified"} \/ (t.outcome = "measured" /\ t.kind = "full")

Clears(t) == Reaches(t) \/ (t.kind = "switch" /\ t.outcome = "simulated")

\* A session that commits adds its record to those of its node.
LEMMA RecordAdded ==
    ASSUME NEW i \in Ids, NEW t \in Session, NEW n, sessions \in [Ids -> Session],
           sessions[i].at # "done", t.at = "done", t.node = sessions[i].node,
           sessions' = [sessions EXCEPT ![i] = t]
    PROVE  /\ n # t.node => /\ Failing(n)' = Failing(n) /\ Reaching(n)' = Reaching(n)
                            /\ Clearing(n)' = Clearing(n)
           /\ n = t.node =>
                /\ Failing(n)' = IF t.outcome = "failed" THEN Failing(n) \cup {i}
                                 ELSE Failing(n)
                /\ Reaching(n)' = IF Reaches(t) THEN Reaching(n) \cup {i} ELSE Reaching(n)
                /\ Clearing(n)' = IF Clears(t) THEN Clearing(n) \cup {i} ELSE Clearing(n)
<1>1. sessions'[i] = t /\ \A j \in Ids \ {i} : sessions'[j] = sessions[j]
  OBVIOUS
<1>2. i \notin Committed(n)
  BY DEF Committed
<1>3. Committed(n)' = IF n = t.node THEN Committed(n) \cup {i} ELSE Committed(n)
  BY <1>1, <1>2 DEF Committed
<1>4. \A j \in Committed(n) : j \in Ids \ {i} /\ sessions'[j] = sessions[j]
  BY <1>1, <1>2 DEF Committed
<1>5. CASE n # t.node
  <2>1. Failing(n)' = Failing(n)
    BY <1>3, <1>4, <1>5 DEF Failing
  <2>2. Reaching(n)' = Reaching(n)
    BY <1>3, <1>4, <1>5 DEF Reaching
  <2>3. Clearing(n)' = Clearing(n)
    BY <1>3, <1>4, <1>5, <2>2 DEF Clearing
  <2> QED
    BY <1>5, <2>1, <2>2, <2>3
<1>6. CASE n = t.node
  <2>1. Failing(n)' = IF t.outcome = "failed" THEN Failing(n) \cup {i} ELSE Failing(n)
    BY <1>1, <1>3, <1>4, <1>6 DEF Failing
  <2>2. /\ Reaching(n)' = {j \in Committed(n)' : Reaches(sessions'[j])}
        /\ Reaching(n) = {j \in Committed(n) : Reaches(sessions[j])}
    BY Zenon DEF Reaching, Reaches
  <2>3. /\ Clearing(n)' = {j \in Committed(n)' : Clears(sessions'[j])}
        /\ Clearing(n) = {j \in Committed(n) : Clears(sessions[j])}
    BY <2>2 DEF Clearing, Clears
  <2>4. \A j \in Committed(n)' : j = i \/ j \in Committed(n)
    BY <1>3, <1>6
  <2>5. Reaching(n)' = IF Reaches(t) THEN Reaching(n) \cup {i} ELSE Reaching(n)
    BY <1>1, <1>3, <1>4, <1>6, <2>2, <2>4
  <2>6. Clearing(n)' = IF Clears(t) THEN Clearing(n) \cup {i} ELSE Clearing(n)
    BY <1>1, <1>3, <1>4, <1>6, <2>3, <2>4
  <2> QED
    BY <1>6, <2>1, <2>5, <2>6
<1> QED
  BY <1>5, <1>6

-----------------------------------------------------------------------------
\* Steps that neither commit nor touch a row.

\* An open session s becomes t, or ends without a commit.
Quiet(s, t) ==
    /\ s.at \in Open /\ t.node = s.node
    /\ t.at \notin {"done", "unused"}
    /\ SessionOK(t)
    /\ t.at \in Open => t.seen = s.seen /\ (Fits(s.node, s.wanted) => Fits(t.node, t.wanted))

\* What a step may do to the verdicts of the rows.
Verdict ==
    \A n \in Nodes :
        \/ /\ rows'[n].available = rows[n].available
           /\ rows'[n].failures = rows[n].failures
        \/ \E i \in Ids :
              /\ IsLive(i) /\ i \in (Clearing(n) \cup Failing(n))'
              /\ sessions'[i].record # "RUNNING"

LEMMA QuietSound ==
    ASSUME CInv, UNCHANGED <<imported, rows, overlapped, listed>>, sessions' \in [Ids -> Session],
           \A i \in Ids : sessions'[i] = sessions[i] \/ Quiet(sessions[i], sessions'[i])
    PROVE  CInv' /\ Verdict
<1>1. CatalogueTypeOK'
  BY DEF CInv, CatalogueTypeOK
<1>2. \A i \in Ids : /\ sessions'[i].node = sessions[i].node
                     /\ sessions'[i].at \in Open => sessions[i].at \in Open
                     /\ sessions'[i].at = "unused" <=> sessions[i].at = "unused"
                     /\ \/ sessions'[i] = sessions[i]
                        \/ sessions[i].at # "done" /\ sessions'[i].at # "done"
  BY Zenon DEF Quiet, Open
<1>3. ASSUME NEW i \in Ids PROVE (SessionOK(sessions[i]) /\ Alone(sessions[i]))'
  <2>1. SessionOK(sessions[i]) /\ Alone(sessions[i])
    BY DEF CInv
  <2>2. SessionOK(sessions'[i])
    BY <2>1 DEF Quiet
  <2>3. Alone(sessions'[i])
    BY <2>1 DEF Quiet, Alone
  <2>4. SessionOK(sessions[i])'
    BY <2>2 DEF SessionOK
  <2> QED
    BY <2>3, <2>4 DEF Alone, Fits
<1>4. LastIsOpen'
  BY <1>2 DEF CInv, LastIsOpen
<1>5. InOrder'
  BY <1>2 DEF CInv, InOrder
<1>6. ASSUME NEW n \in Nodes PROVE (RowOK(n) /\ Follows(n))'
  <2>1. RowOK(n) /\ Follows(n)
    BY DEF CInv
  <2>2. /\ Reaching(n)' = Reaching(n) /\ Reached(n)' = Reached(n) /\ Since(n)' = Since(n)
    BY <1>2, RecordsStay
  <2> QED
    BY <2>1, <2>2 DEF RowOK, Follows, Fits
<1>7. Verdict
  BY DEF Verdict
<1> QED
  BY <1>1, <1>3, <1>4, <1>5, <1>6, <1>7 DEF CInv

-----------------------------------------------------------------------------
\* The commit of a session.

\* What each kind of session can find out.
Fitting(s, outcome) ==
    /\ outcome \in {"failed", "reached", "routed"} => s.kind \in Scans
    /\ outcome = "measured" => s.kind # "fast" /\ s.exit \in Exits
    /\ outcome = "verified" => s.kind = "switch"

\* The verdict is about what the record says, and about nothing else.
LEMMA JudgedVerdict ==
    ASSUME NEW row \in Row, NEW t \in Session, Fitting(t, t.outcome)
    PROVE  /\ Reaches(t) => /\ Judged(row, t.kind, t.outcome).available = TRUE
                            /\ Judged(row, t.kind, t.outcome).failures = 0
           /\ t.outcome = "failed" =>
                /\ Judged(row, t.kind, t.outcome).available = FALSE
                /\ Judged(row, t.kind, t.outcome).failures = row.failures + 1
           /\ Clears(t) /\ ~Reaches(t) =>
                /\ Judged(row, t.kind, t.outcome).available = row.available
                /\ Judged(row, t.kind, t.outcome).failures = 0
           /\ ~Clears(t) /\ t.outcome # "failed" => Judged(row, t.kind, t.outcome) = row
<1> DEFINE judged == Judged(row, t.kind, t.outcome)
<1>1. ASSUME Reaches(t)
      PROVE  judged = [row EXCEPT !.available = TRUE, !.failures = 0]
  BY <1>1 DEF Reaches, Fitting, Judged, Confirmed, Scans
<1>2. ASSUME t.outcome = "failed"
      PROVE  judged = [row EXCEPT !.available = FALSE, !.failures = @ + 1]
  BY <1>2 DEF Fitting, Judged, Confirmed, Scans
<1>3. ASSUME Clears(t), ~Reaches(t)
      PROVE  judged = [row EXCEPT !.failures = 0]
  BY <1>3 DEF Reaches, Clears, Fitting, Judged, Confirmed, Scans
<1>4. ASSUME ~Clears(t), t.outcome # "failed"
      PROVE  judged = row
  BY <1>4 DEF Reaches, Clears, Fitting, Judged, Confirmed, Scans
<1> QED
  BY <1>1, <1>2, <1>3, <1>4 DEF Row

\* A record that is newer than all others of its node moves what the row has to say
\* as the verdict does.
LEMMA NewestRecordCounts ==
    ASSUME NEW i \in Ids, NEW t \in Session, NEW n, sessions \in [Ids -> Session],
           sessions[i].at # "done", t.at = "done", t.node = sessions[i].node, n = t.node,
           sessions' = [sessions EXCEPT ![i] = t], \A j \in Committed(n) : j < i
    PROVE  /\ IsFiniteSet(Since(n)) /\ Cardinality(Since(n)) \in Nat
           /\ Reaches(t) /\ t.outcome # "failed" =>
                Reached(n)' /\ Cardinality(Since(n)') = 0
           /\ t.outcome = "failed" /\ ~Clears(t) =>
                ~Reached(n)' /\ Cardinality(Since(n)') = Cardinality(Since(n)) + 1
           /\ Clears(t) /\ ~Reaches(t) /\ t.outcome # "failed" =>
                Reached(n)' = Reached(n) /\ Cardinality(Since(n)') = 0
           /\ ~Clears(t) /\ t.outcome # "failed" =>
                Reached(n)' = Reached(n) /\ Since(n)' = Since(n)
<1>1. /\ Failing(n)' = IF t.outcome = "failed" THEN Failing(n) \cup {i} ELSE Failing(n)
      /\ Reaching(n)' = IF Reaches(t) THEN Reaching(n) \cup {i} ELSE Reaching(n)
      /\ Clearing(n)' = IF Clears(t) THEN Clearing(n) \cup {i} ELSE Clearing(n)
  BY RecordAdded
<1>2. /\ Failing(n) \subseteq Committed(n)
      /\ Reaching(n) \subseteq Committed(n) /\ Clearing(n) \subseteq Committed(n)
  BY DEF Failing, Reaching, Clearing
<1>3. Ids \subseteq Nat /\ IsFiniteSet(Ids)
  BY CatalogueAssumption, FS_Interval DEF Ids
<1>4. Committed(n) \subseteq Ids /\ Since(n) \subseteq Failing(n)
  BY DEF Committed, Since
<1>5. IsFiniteSet(Since(n)) /\ Cardinality(Since(n)) \in Nat
  BY <1>2, <1>3, <1>4, FS_Subset, FS_CardinalityType
<1>6. \A j \in Committed(n) : j \in Nat /\ i \in Nat /\ j < i /\ ~(i < j) /\ j # i
  <2>1. \A j, k \in Nat : j < k => ~(k < j) /\ j # k
    OBVIOUS
  <2>2. i \in Nat /\ \A j \in Committed(n) : j \in Nat /\ j < i
    BY <1>3, <1>4
  <2> QED
    BY <2>1, <2>2
<1>7. Cardinality({}) = 0
  BY FS_EmptySet
<1>8. ASSUME Reaches(t), t.outcome # "failed"
      PROVE  Reached(n)' /\ Cardinality(Since(n)') = 0
  <2>1. Clears(t)
    BY <1>8 DEF Clears
  <2>2. Reached(n)'
    BY <1>1, <1>2, <1>6, <1>8 DEF Reached
  <2>3. Since(n)' = {}
    BY <1>1, <1>2, <1>6, <1>8, <2>1 DEF Since
  <2> QED
    BY <1>7, <2>2, <2>3
<1>9. ASSUME t.outcome = "failed", ~Clears(t)
      PROVE  ~Reached(n)' /\ Cardinality(Since(n)') = Cardinality(Since(n)) + 1
  <2>1. ~Reaches(t)
    BY <1>9 DEF Clears
  <2>2. ~Reached(n)'
    BY <1>1, <1>2, <1>6, <1>9, <2>1 DEF Reached
  <2>3. Since(n)' = Since(n) \cup {i}
    BY <1>1, <1>2, <1>6, <1>9 DEF Since
  <2>4. i \notin Since(n)
    BY <1>2, <1>4, <1>6
  <2> QED
    BY <1>5, <2>2, <2>3, <2>4, FS_AddElement
<1>10. ASSUME Clears(t), ~Reaches(t), t.outcome # "failed"
       PROVE  Reached(n)' = Reached(n) /\ Cardinality(Since(n)') = 0
  <2>1. Reached(n)' = Reached(n)
    BY <1>1, <1>10 DEF Reached
  <2>2. Since(n)' = {}
    BY <1>1, <1>2, <1>6, <1>10 DEF Since
  <2> QED
    BY <1>7, <2>1, <2>2
<1>11. ASSUME ~Clears(t), t.outcome # "failed"
       PROVE  Reached(n)' = Reached(n) /\ Since(n)' = Since(n)
  <2>1. ~Reaches(t)
    BY <1>11 DEF Clears
  <2> QED
    BY <1>1, <1>11, <2>1 DEF Reached, Since
<1> QED
  BY <1>5, <1>8, <1>9, <1>10, <1>11

\* A column that is flushed is as wanted, unless it was not as the session thought.
LEMMA FlushedColumns ==
    ASSUME NEW now, NEW seen, NEW wanted
    PROVE  LET row == Flushed(now, seen, wanted)
           IN  /\ row.available = now.available
                    \/ (row.available = wanted.available /\ wanted.available # seen.available)
               /\ row.failures = now.failures
                    \/ (row.failures = wanted.failures /\ wanted.failures # seen.failures)
               /\ Alike(seen, now) => Alike(row, wanted)
               /\ row.feed \in {now.feed, wanted.feed}
BY DEF Flushed, Column, Alike

LEMMA CommitSound ==
    ASSUME CInv, NEW i \in Ids, IsLive(i), NEW row \in Row, NEW outcome \in Outcomes \cup {None},
           Fitting(sessions[i], outcome), row.available = sessions[i].seen.available,
           row.failures = sessions[i].seen.failures,
           Fits(sessions[i].node, sessions[i].wanted) => Fits(sessions[i].node, row),
           Commit(i, row, outcome)
    PROVE  CInv' /\ Verdict
<1> DEFINE s == sessions[i]
           judged == Judged(row, s.kind, outcome)
           flushed == Flushed(rows[s.node], s.seen, judged)
<1>1. /\ s \in Session /\ s.at \in Open /\ SessionOK(s) /\ Alone(s)
      /\ sessions \in [Ids -> Session] /\ rows \in [Nodes -> Row]
      /\ imported \subseteq Nodes /\ overlapped \subseteq Nodes
  BY DEF CInv, CatalogueTypeOK, IsLive
<1>2. /\ s.at \notin {"unused", "done"} /\ s.kind \in Kinds
      /\ s.node \in imported /\ s.node \in Nodes
  BY <1>1 DEF Open, SessionOK
<1>3. CASE /\ sessions' = [sessions EXCEPT ![i] = Closed(s, "refused", None, s.record)]
           /\ UNCHANGED <<imported, rows, overlapped, listed>>
  <2> DEFINE u == Closed(s, "refused", None, s.record)
  <2>1. s.record \in Records \cup {None} /\ "refused" \in Over
    BY <1>1 DEF Session, Over
  <2>2. /\ u \in Session /\ u.at = "refused" /\ u.node = s.node /\ u.kind = s.kind
        /\ u.outcome = None /\ u.record = s.record
    BY <1>1, <2>1, ClosedTyped
  <2> HIDE DEF u
  <2>3. None # "measured"
    BY NoneAssumption DEF Outcomes
  <2>4. SessionOK(u)
    BY <1>1, <1>2, <2>2, <2>3 DEF SessionOK, Open
  <2>5. Quiet(s, u)
    BY <1>1, <2>2, <2>4 DEF Quiet, Open
  <2>6. sessions' = [sessions EXCEPT ![i] = u]
    BY <1>3 DEF u
  <2>7. sessions' \in [Ids -> Session]
    BY <1>1, <2>2, <2>6
  <2>8. \A j \in Ids : sessions'[j] = sessions[j] \/ Quiet(sessions[j], sessions'[j])
    BY <1>1, <2>5, <2>6
  <2> QED
    BY <1>3, <2>7, <2>8, QuietSound
<1>4. CASE /\ sessions' = [sessions EXCEPT ![i] =
                             Closed(s, "done", outcome, Status(s, outcome))]
           /\ rows' = [rows EXCEPT ![s.node] = flushed]
           /\ UNCHANGED <<imported, overlapped, listed>>
  <2>1. /\ Status(s, outcome) \in Records \cup {None} /\ Status(s, outcome) # "RUNNING"
        /\ s.kind \notin Scans => Status(s, outcome) = None
    BY <1>1, StatusTyped
  <2>2. PICK n \in Nodes : n = s.node
    BY <1>2
  <2> DEFINE closed == Closed(s, "done", outcome, Status(s, outcome))
  <2>3. PICK t \in Session : /\ t = closed /\ t.at = "done" /\ t.node = n /\ t.kind = s.kind
                             /\ t.outcome = outcome /\ t.record = Status(s, outcome)
                             /\ t.exit = s.exit
    <3>1. "done" \in Over
      BY DEF Over
    <3>2. /\ closed \in Session /\ closed.at = "done" /\ closed.node = s.node
          /\ closed.kind = s.kind /\ closed.outcome = outcome
          /\ closed.record = Status(s, outcome) /\ closed.exit = s.exit
      BY <1>1, <2>1, <3>1, ClosedTyped
    <3> HIDE DEF closed
    <3> QED
      BY <2>2, <3>2
  <2>4. /\ judged \in Row /\ judged.exit = row.exit /\ judged.country = row.country
        /\ judged.asn = row.asn /\ judged.ptr = row.ptr /\ judged.feed = row.feed
    BY JudgedTyped
  <2>5. s.seen \in Row /\ s.wanted \in Row
    BY <1>1 DEF Session
  <2>6. flushed \in Row
    BY <1>1, <1>2, <2>4, <2>5, FlushedTyped
  <2>7. LET r == rows[n]
        IN  /\ flushed.available = r.available
                 \/ (flushed.available = judged.available /\ judged.available # s.seen.available)
            /\ flushed.failures = r.failures
                 \/ (flushed.failures = judged.failures /\ judged.failures # s.seen.failures)
            /\ Alike(s.seen, r) => Alike(flushed, judged)
            /\ flushed.feed \in {r.feed, judged.feed}
    BY <2>2, FlushedColumns
  <2>8. /\ Reaches(t) => judged.available = TRUE /\ judged.failures = 0
        /\ outcome = "failed" => /\ judged.available = FALSE
                                 /\ judged.failures = row.failures + 1
        /\ Clears(t) /\ ~Reaches(t) => judged.available = row.available /\ judged.failures = 0
        /\ ~Clears(t) /\ outcome # "failed" => judged = row
    <3>1. Fitting(t, t.outcome) /\ judged = Judged(row, t.kind, t.outcome)
      BY <2>3 DEF Fitting
    <3> HIDE DEF judged
    <3>2. /\ Reaches(t) => judged.available = TRUE /\ judged.failures = 0
          /\ t.outcome = "failed" => /\ judged.available = FALSE
                                     /\ judged.failures = row.failures + 1
          /\ Clears(t) /\ ~Reaches(t) => /\ judged.available = row.available
                                         /\ judged.failures = 0
          /\ ~Clears(t) /\ t.outcome # "failed" => judged = row
      BY <3>1, JudgedVerdict
    <3> QED
      BY <2>3, <3>2
  <2> HIDE DEF judged, flushed
  <2> HIDE DEF closed
  <2>9. /\ sessions' = [sessions EXCEPT ![i] = t] /\ sessions'[i] = t
        /\ \A j \in Ids \ {i} : sessions'[j] = sessions[j]
        /\ rows'[n] = flushed /\ \A m \in Nodes \ {n} : rows'[m] = rows[m]
    BY <1>1, <1>2, <1>4, <2>2, <2>3 DEF closed
  <2>10. CatalogueTypeOK'
    <3>1. listed \in [Nodes -> SUBSET Countries]
      BY DEF CInv, CatalogueTypeOK
    <3> QED BY <3>1, <1>1, <1>4, <2>2, <2>3, <2>6, <2>9 DEF CatalogueTypeOK
  <2>11. \A j \in Ids : (SessionOK(sessions[j]) /\ Alone(sessions[j]))'
    <3>1. ASSUME NEW j \in Ids, j # i PROVE (SessionOK(sessions[j]) /\ Alone(sessions[j]))'
      <4>1. SessionOK(sessions[j]) /\ Alone(sessions[j]) /\ sessions[j] \in Session
        BY <1>1 DEF CInv
      <4>2. SessionOK(sessions[j])'
        BY <1>4, <2>9, <3>1, <4>1 DEF SessionOK
      <4>3. sessions[j].node = n /\ n \notin overlapped => sessions[j].at \notin Open
        BY <1>1, <2>2, <3>1 DEF CInv, LastIsOpen
      <4>4. Alone(sessions[j])'
        <5>1. sessions[j].at # "unused" => sessions[j].node \in Nodes
          BY <1>1, <4>1 DEF SessionOK
        <5>2. sessions[j].at \in Open => sessions[j].at # "unused"
          BY DEF Open
        <5> QED
          BY <1>4, <2>9, <3>1, <4>1, <4>3, <5>1, <5>2 DEF Alone, Fits
      <4> QED
        BY <4>2, <4>4
    <3>2. (SessionOK(sessions[i]) /\ Alone(sessions[i]))'
      <4>1. SessionOK(t)'
        BY <1>1, <1>2, <1>4, <2>1, <2>2, <2>3, <2>9 DEF SessionOK, Fitting, Open
      <4> QED
        BY <2>3, <2>9, <4>1 DEF Alone, Open
    <3> QED
      BY <3>1, <3>2
  <2>12. \A j \in Ids : /\ sessions'[j].node = sessions[j].node
                        /\ sessions'[j].at \in Open => sessions[j].at \in Open
                        /\ sessions'[j].at = "unused" <=> sessions[j].at = "unused"
    BY <1>2, <2>2, <2>3, <2>9 DEF Open
  <2>13. LastIsOpen' /\ InOrder'
    BY <1>4, <2>12 DEF CInv, LastIsOpen, InOrder
  <2>14. /\ Failing(n)' = IF outcome = "failed" THEN Failing(n) \cup {i} ELSE Failing(n)
         /\ Reaching(n)' = IF Reaches(t) THEN Reaching(n) \cup {i} ELSE Reaching(n)
         /\ Clearing(n)' = IF Clears(t) THEN Clearing(n) \cup {i} ELSE Clearing(n)
    <3>1. sessions[i].at # "done" /\ t.node = sessions[i].node /\ n = t.node
      BY <1>2, <2>2, <2>3
    <3>2. /\ Failing(n)' = IF t.outcome = "failed" THEN Failing(n) \cup {i} ELSE Failing(n)
          /\ Reaching(n)' = IF Reaches(t) THEN Reaching(n) \cup {i} ELSE Reaching(n)
          /\ Clearing(n)' = IF Clears(t) THEN Clearing(n) \cup {i} ELSE Clearing(n)
      BY <1>1, <2>3, <2>9, <3>1, RecordAdded
    <3> QED
      BY <2>3, <3>2
  <2>15. RowOK(n) /\ Follows(n)
    BY <1>2 DEF CInv
  <2>16. RowOK(n)'
    BY <1>2, <1>4, <2>7, <2>8, <2>9, <2>14, <2>15 DEF RowOK
  <2>17. Follows(n)'
    <3> SUFFICES ASSUME n \notin overlapped PROVE Follows(n)'
      BY <1>4 DEF Follows
    <3>1. Alike(flushed, judged) /\ Fits(n, row) /\ Alike(s.seen, rows[n])
      BY <1>1, <2>2, <2>7 DEF Alone
    <3>2. Fits(n, flushed)
      BY <2>4, <2>7, <2>15, <3>1 DEF Fits, Alike, Follows
    <3>3. /\ row.available = rows[n].available /\ row.failures = rows[n].failures
          /\ rows[n].available <=> Reached(n)
          /\ rows[n].failures = Cardinality(Since(n))
      BY <2>15, <3>1 DEF Alike, Follows
    <3>4. \A j \in Committed(n) : j < i
      BY <1>1, <1>2, <2>2 DEF Committed, CInv, LastIsOpen
    <3>5. /\ Reaches(t) /\ outcome # "failed" => Reached(n)' /\ Cardinality(Since(n)') = 0
          /\ outcome = "failed" /\ ~Clears(t) =>
               ~Reached(n)' /\ Cardinality(Since(n)') = Cardinality(Since(n)) + 1
          /\ Clears(t) /\ ~Reaches(t) /\ outcome # "failed" =>
               Reached(n)' = Reached(n) /\ Cardinality(Since(n)') = 0
          /\ ~Clears(t) /\ outcome # "failed" =>
               Reached(n)' = Reached(n) /\ Since(n)' = Since(n)
      BY <1>1, <1>2, <2>2, <2>3, <2>9, <3>4, NewestRecordCounts
    <3>6. outcome = "failed" => ~Clears(t)
      BY <2>3 DEF Clears, Reaches
    <3>7. /\ judged.available <=> Reached(n)'
          /\ judged.failures = Cardinality(Since(n)')
      BY <2>8, <3>3, <3>5, <3>6 DEF Clears
    <3> QED
      BY <1>4, <2>9, <3>1, <3>2, <3>7 DEF Follows, Alike, Fits
  <2>18. ASSUME NEW m \in Nodes, m # n PROVE (RowOK(m) /\ Follows(m))'
    <3>1. Failing(m)' = Failing(m) /\ Reaching(m)' = Reaching(m) /\ Clearing(m)' = Clearing(m)
      <4>1. sessions[i].at # "done" /\ t.node = sessions[i].node /\ m # t.node
        BY <1>2, <2>2, <2>3, <2>18
      <4> QED
        BY <1>1, <2>3, <2>9, <4>1, RecordAdded
    <3>2. RowOK(m) /\ Follows(m) /\ rows'[m] = rows[m]
      BY <2>9, <2>18 DEF CInv
    <3> QED
      BY <1>4, <3>1, <3>2 DEF RowOK, Follows, Reached, Since, Fits
  <2>19. Verdict
    <3>1. \/ flushed.available = rows[n].available /\ flushed.failures = rows[n].failures
          \/ Clears(t) \/ outcome = "failed"
      BY <2>7, <2>8
    <3>2. sessions'[i].record # "RUNNING"
      BY <2>1, <2>3, <2>9
    <3> QED
      BY <2>9, <2>14, <3>1, <3>2 DEF Verdict
  <2> QED
    BY <2>10, <2>11, <2>13, <2>16, <2>17, <2>18, <2>19 DEF CInv
<1> QED
  BY <1>3, <1>4 DEF Commit

-----------------------------------------------------------------------------
\* The actions, one by one.

LEMMA BeginSound ==
    ASSUME CInv, NEW i \in Ids, NEW n \in Nodes, NEW kind \in Kinds, Begin(i, n, kind)
    PROVE  CInv' /\ Verdict
<1>1. /\ sessions \in [Ids -> Session] /\ rows \in [Nodes -> Row]
      /\ imported \subseteq Nodes /\ overlapped \subseteq Nodes
      /\ n \in imported /\ sessions[i].at = "unused"
      /\ \A j \in Ids : SessionOK(sessions[j]) /\ Alone(sessions[j])
      /\ UNCHANGED <<imported, rows, listed>>
  BY DEF CInv, CatalogueTypeOK, Begin
<1>2. PICK t : /\ t = Begun(n, kind)
               /\ t.at = IF kind \in Scans /\ n \in Ipv6 THEN "raised"
                         ELSE IF kind = "classify" THEN "enriching" ELSE "measuring"
               /\ t.node = n /\ t.kind = kind /\ t.outcome = None
               /\ t.record = IF kind \in Scans THEN "RUNNING" ELSE None
               /\ t.exit = IF kind = "classify"
                           THEN sessions[Newest(Classifiable(n))].exit ELSE None
               /\ t.seen = rows[n] /\ t.wanted = rows[n]
  <2> DEFINE t == Begun(n, kind)
  <2>1. t.at = IF kind \in Scans /\ n \in Ipv6 THEN "raised"
               ELSE IF kind = "classify" THEN "enriching" ELSE "measuring"
    <3>1. "classify" \notin Scans
      BY DEF Scans
    <3>2. t.at = CASE kind \in Scans /\ n \in Ipv6 -> "raised"
                   [] kind = "classify" -> "enriching"
                   [] OTHER -> "measuring"
      BY DEF Begun
    <3> QED
      BY <3>1, <3>2
  <2>2. /\ t.node = n /\ t.kind = kind /\ t.outcome = None
        /\ t.record = IF kind \in Scans THEN "RUNNING" ELSE None
        /\ t.exit = IF kind = "classify"
                    THEN sessions[Newest(Classifiable(n))].exit ELSE None
        /\ t.seen = rows[n] /\ t.wanted = rows[n]
    BY DEF Begun
  <2> HIDE DEF t
  <2> QED
    BY <2>1, <2>2 DEF t
<1>3. t.exit \in Exits \cup {None} /\ (kind = "classify" => t.exit \in Exits)
  <2>1. CASE kind = "classify"
    <3>1. Classifiable(n) # {} /\ Classifiable(n) \in SUBSET Ids
      BY <2>1 DEF Begin, Classifiable
    <3>2. Newest(Classifiable(n)) \in Classifiable(n)
      BY <3>1, NewestIsIn
    <3>3. PICK k \in Ids : k = Newest(Classifiable(n)) /\ sessions[k].outcome = "measured"
      BY <3>2 DEF Classifiable
    <3> QED
      BY <1>1, <1>2, <2>1, <3>3 DEF SessionOK
  <2> QED
    BY <1>2, <2>1
<1>4. t \in Session
  <2>1. t.at \in Open \cup Over \cup {"unused"} /\ t.record \in Records \cup {None}
    BY <1>2 DEF Open, Over, Records
  <2>2. rows[n] \in Row
    BY <1>1
  <2>3. t = [at |-> t.at, node |-> n, kind |-> kind, outcome |-> None, record |-> t.record,
             exit |-> t.exit, seen |-> rows[n], wanted |-> rows[n]]
    BY <1>2 DEF Begun
  <2> QED
    BY <1>3, <2>1, <2>2, <2>3 DEF Session
<1>5. /\ sessions' = [sessions EXCEPT ![i] = t] /\ sessions'[i] = t
      /\ \A j \in Ids \ {i} : sessions'[j] = sessions[j]
  BY <1>1, <1>2 DEF Begin
<1>6. /\ overlapped \subseteq overlapped' /\ overlapped' \subseteq Nodes
      /\ n \notin overlapped' =>
           \A j \in Ids : sessions[j].node = n => sessions[j].at \notin Open
  BY <1>1 DEF Begin, IsLive
<1>7. CatalogueTypeOK'
  <2>1. listed \in [Nodes -> SUBSET Countries]
    BY DEF CInv, CatalogueTypeOK
  <2> QED BY <1>1, <1>4, <1>5, <1>6, <2>1 DEF CatalogueTypeOK
<1>8. t.at \notin {"unused", "done", "cancelled", "verifying"}
      /\ (t.at = "enriching" => kind = "classify")
  BY <1>2
<1>9. ASSUME NEW j \in Ids PROVE (SessionOK(sessions[j]) /\ Alone(sessions[j]))'
  <2>1. CASE j = i
    <3>1. None # "measured"
      BY NoneAssumption DEF Outcomes
    <3>2. kind = "classify" => kind # "fast" /\ kind \notin Scans
      BY DEF Scans
    <3>3. SessionOK(t)
      BY <1>1, <1>2, <1>3, <1>8, <3>1, <3>2 DEF SessionOK
    <3>4. n \notin overlapped' => Fits(n, rows[n])
      BY <1>6 DEF CInv, Follows
    <3> QED
      BY <1>1, <1>2, <1>5, <2>1, <3>3, <3>4 DEF SessionOK, Alone, Alike, Fits
  <2>2. CASE j # i
    BY <1>1, <1>5, <1>6, <2>2 DEF SessionOK, Alone, Fits
  <2> QED
    BY <2>1, <2>2
<1>10. \A j \in Ids : sessions[j].node = n => sessions[j].at # "unused"
  BY <1>1, CatalogueAssumption DEF SessionOK, Unused
<1>11. Ids \subseteq Nat
  BY CatalogueAssumption DEF Ids
<1>12. \A j \in Ids \ {i} : (sessions[j].at # "unused" <=> j < i)
  <2>1. ASSUME NEW j \in Ids, j < i PROVE sessions[j].at # "unused"
    <3>1. j \in 1..(i - 1)
      BY <2>1, CatalogueAssumption DEF Ids
    <3> QED
      BY <3>1 DEF Begin
  <2>2. ASSUME NEW j \in Ids, i < j PROVE sessions[j].at = "unused"
    BY <1>1, <2>2 DEF CInv, InOrder
  <2>3. \A j \in Ids \ {i} : (j < i \/ i < j) /\ ~(j < i /\ i < j)
    BY <1>11
  <2> QED
    BY <2>1, <2>2, <2>3
<1>13. LastIsOpen'
  <2> SUFFICES ASSUME NEW a \in Ids, NEW b \in Ids, sessions'[a].at \in Open,
                      sessions'[a].node \notin overlapped',
                      sessions'[b].node = sessions'[a].node, b # a
               PROVE  b < a /\ sessions'[b].at \notin Open
    BY DEF LastIsOpen
  <2>1. CASE a = i
    BY <1>2, <1>5, <1>6, <1>10, <1>12, <2>1
  <2>2. CASE b = i
    BY <1>2, <1>5, <1>6, <2>2
  <2>3. CASE a # i /\ b # i
    BY <1>5, <1>6, <2>3 DEF CInv, LastIsOpen
  <2> QED
    BY <2>1, <2>2, <2>3
<1>14. InOrder'
  <2> SUFFICES ASSUME NEW a \in Ids, NEW b \in Ids, b < a, sessions'[a].at # "unused"
               PROVE  sessions'[b].at # "unused"
    BY DEF InOrder
  <2>1. CASE b = i
    BY <1>5, <1>8, <2>1
  <2>2. CASE a = i /\ b # i
    BY <1>5, <1>12, <2>2
  <2>3. CASE a # i /\ b # i
    BY <1>5, <2>3 DEF CInv, InOrder
  <2> QED
    BY <2>1, <2>2, <2>3
<1>15. ASSUME NEW m \in Nodes PROVE (RowOK(m) /\ Follows(m))'
  <2>1. \A j \in Ids : \/ sessions'[j] = sessions[j]
                       \/ sessions[j].at # "done" /\ sessions'[j].at # "done"
    BY <1>1, <1>5, <1>8
  <2>2. /\ Reaching(m)' = Reaching(m) /\ Reached(m)' = Reached(m) /\ Since(m)' = Since(m)
    BY <2>1, RecordsStay
  <2>3. RowOK(m) /\ Follows(m)
    BY DEF CInv
  <2> QED
    BY <1>1, <1>6, <2>2, <2>3 DEF RowOK, Follows, Fits
<1>16. Verdict
  BY <1>1 DEF Verdict
<1> QED
  BY <1>7, <1>9, <1>13, <1>14, <1>15, <1>16 DEF CInv

\* An open session that only becomes another one leaves the rest as it is.
LEMMA BecomesSound ==
    ASSUME CInv, NEW i \in Ids, NEW t \in Session, Quiet(sessions[i], t),
           sessions' = [sessions EXCEPT ![i] = t], UNCHANGED <<imported, rows, overlapped, listed>>
    PROVE  CInv' /\ Verdict
<1>1. sessions \in [Ids -> Session]
  BY DEF CInv, CatalogueTypeOK
<1>2. sessions' \in [Ids -> Session]
  BY <1>1
<1>3. \A j \in Ids : sessions'[j] = sessions[j] \/ Quiet(sessions[j], sessions'[j])
  BY <1>1
<1> QED
  BY <1>2, <1>3, QuietSound

\* What is known of an open session.
LEMMA OpenSession ==
    ASSUME CInv, NEW i \in Ids, sessions[i].at \in Open
    PROVE  /\ sessions[i] \in Session /\ SessionOK(sessions[i]) /\ IsLive(i)
           /\ sessions[i].node \in Nodes /\ sessions[i].node \in imported
           /\ sessions[i].kind \in Kinds
           /\ sessions[i].seen \in Row /\ sessions[i].wanted \in Row
           /\ sessions[i].wanted.available = sessions[i].seen.available
           /\ sessions[i].wanted.failures = sessions[i].seen.failures
<1>1. sessions[i] \in Session /\ SessionOK(sessions[i]) /\ imported \subseteq Nodes
  BY DEF CInv, CatalogueTypeOK
<1>2. sessions[i].at # "unused"
  BY DEF Open
<1> QED
  BY <1>1, <1>2 DEF SessionOK, IsLive, Session

LEMMA MeasuredSound ==
    ASSUME CInv, NEW i \in Ids, NEW exit \in Exits, Measured(i, exit)
    PROVE  CInv' /\ Verdict
<1>1. sessions[i].at \in Open
  BY DEF Measured, Open
<1>2. /\ sessions[i] \in Session /\ SessionOK(sessions[i])
  BY <1>1, OpenSession
<1>3. PICK t : t = [sessions[i] EXCEPT !.at = "enriching", !.exit = exit]
  OBVIOUS
<1>4. /\ t \in Session /\ t.at = "enriching" /\ t.exit = exit /\ t.node = sessions[i].node
      /\ t.kind = sessions[i].kind /\ t.record = sessions[i].record
      /\ t.outcome = sessions[i].outcome
      /\ t.seen = sessions[i].seen /\ t.wanted = sessions[i].wanted
  <2>1. "enriching" \in Open
    BY DEF Open
  <2> QED
    BY <1>2, <1>3, <2>1 DEF Session
<1>5. SessionOK(t)
  BY <1>1, <1>2, <1>4 DEF SessionOK, Measured, Open
<1>6. Quiet(sessions[i], t)
  BY <1>1, <1>4, <1>5 DEF Quiet
<1> QED
  BY <1>3, <1>4, <1>6, BecomesSound DEF Measured

LEMMA LookedUpSound ==
    ASSUME CInv, NEW i \in Ids, LookedUp(i)
    PROVE  CInv' /\ Verdict
<1>1. sessions[i].at = "enriching" /\ sessions[i].at \in Open
  BY DEF LookedUp, Open
<1>2. /\ sessions[i] \in Session /\ SessionOK(sessions[i]) /\ IsLive(i)
      /\ sessions[i].node \in Nodes /\ sessions[i].wanted \in Row
      /\ sessions[i].wanted.available = sessions[i].seen.available
      /\ sessions[i].wanted.failures = sessions[i].seen.failures
  BY <1>1, OpenSession
<1>3. sessions[i].exit \in Exits /\ sessions[i].kind # "fast"
  BY <1>1, <1>2 DEF SessionOK
<1>4. PICK answer \in Answers :
          LET s == sessions[i]
              row == Enriched(s.wanted, s.node, s.exit, answer)
          IN  IF s.kind \in {"check", "switch"}
              THEN /\ sessions' = [sessions EXCEPT ![i] =
                                       [s EXCEPT !.at = "verifying", !.wanted = row]]
                   /\ UNCHANGED <<imported, rows, overlapped, listed>>
              ELSE Commit(i, row, "measured")
  BY DEF LookedUp
<1>5. PICK row : row = Enriched(sessions[i].wanted, sessions[i].node, sessions[i].exit, answer)
  OBVIOUS
<1>6. /\ row \in Row /\ row.available = sessions[i].wanted.available
      /\ row.failures = sessions[i].wanted.failures
      /\ Fits(sessions[i].node, sessions[i].wanted) => Fits(sessions[i].node, row)
  BY <1>2, <1>3, <1>5, EnrichedTyped
<1>7. CASE sessions[i].kind \in {"check", "switch"}
  <2>1. PICK t : t = [sessions[i] EXCEPT !.at = "verifying", !.wanted = row]
    OBVIOUS
  <2>2. /\ t \in Session /\ t.at = "verifying" /\ t.exit = sessions[i].exit
        /\ t.node = sessions[i].node /\ t.kind = sessions[i].kind
        /\ t.record = sessions[i].record /\ t.outcome = sessions[i].outcome
        /\ t.seen = sessions[i].seen /\ t.wanted = row
    <3>1. "verifying" \in Open
      BY DEF Open
    <3> QED
      BY <1>2, <1>6, <2>1, <3>1 DEF Session
  <2>3. SessionOK(t)
    BY <1>1, <1>2, <1>3, <1>6, <1>7, <2>2 DEF SessionOK, Open
  <2>4. Quiet(sessions[i], t)
    BY <1>1, <1>6, <2>2, <2>3 DEF Quiet
  <2>5. sessions' = [sessions EXCEPT ![i] = t] /\ UNCHANGED <<imported, rows, overlapped, listed>>
    BY <1>4, <1>5, <1>7, <2>1
  <2> QED
    BY <2>2, <2>4, <2>5, BecomesSound
<1>8. CASE sessions[i].kind \notin {"check", "switch"}
  <2>1. Commit(i, row, "measured")
    BY <1>4, <1>5, <1>8
  <2>2. "measured" \in Outcomes \cup {None} /\ Fitting(sessions[i], "measured")
    BY <1>3 DEF Outcomes, Fitting
  <2> QED
    BY <1>2, <1>6, <2>1, <2>2, CommitSound
<1> QED
  BY <1>7, <1>8

\* A session that commits the row as it knows it.
LEMMA PlainCommitSound ==
    ASSUME CInv, NEW i \in Ids, sessions[i].at \in Open,
           NEW outcome \in Outcomes \cup {None}, Fitting(sessions[i], outcome),
           Commit(i, sessions[i].wanted, outcome)
    PROVE  CInv' /\ Verdict
<1>1. PICK row \in Row : row = sessions[i].wanted
  BY OpenSession
<1> QED
  BY <1>1, OpenSession, CommitSound

LEMMA ScanEndsSound ==
    ASSUME CInv, NEW i \in Ids, ScanEnds(i)
    PROVE  CInv' /\ Verdict
<1>1. PICK outcome \in ScanOutcomes(sessions[i]) :
          \E row \in WithName(sessions[i], outcome) : Commit(i, row, outcome)
  BY DEF ScanEnds
<1>2. outcome \in {"failed", "simulated", "reached", "routed"} /\ sessions[i].kind \in Scans
  BY DEF ScanOutcomes, ScanEnds
<1>3. Fitting(sessions[i], outcome) /\ outcome \in Outcomes \cup {None}
  BY <1>2 DEF Fitting, Outcomes
<1>4. sessions[i].at \in Open
  BY DEF ScanEnds, Open
<1>5. PICK row : row \in WithName(sessions[i], outcome) /\ Commit(i, row, outcome)
  BY <1>1
<1>6. /\ IsLive(i) /\ sessions[i].node \in Nodes /\ sessions[i].wanted \in Row
      /\ sessions[i].wanted.available = sessions[i].seen.available
      /\ sessions[i].wanted.failures = sessions[i].seen.failures
  BY <1>4, OpenSession
<1>7. ServerOf[sessions[i].node] \in Exits
  BY <1>6, CatalogueAssumption
<1>8. \/ row = sessions[i].wanted
      \/ row = [sessions[i].wanted EXCEPT !.ptr = ServerOf[sessions[i].node]]
  BY <1>5 DEF WithName
<1>9. /\ row \in Row /\ row.available = sessions[i].wanted.available
      /\ row.failures = sessions[i].wanted.failures
      /\ Fits(sessions[i].node, sessions[i].wanted) => Fits(sessions[i].node, row)
  BY <1>6, <1>7, <1>8 DEF Row, Fits
<1> QED
  BY <1>3, <1>5, <1>6, <1>9, CommitSound

LEMMA OthersEndSound ==
    ASSUME CInv, NEW i \in Ids,
           DryRunEnds(i) \/ MeasureFails(i) \/ LookupBreaks(i) \/ Verified(i)
    PROVE  CInv' /\ Verdict
<1>1. sessions[i].at \in Open
  BY DEF DryRunEnds, MeasureFails, LookupBreaks, Verified, Open
<1>2. SessionOK(sessions[i])
  BY <1>1, OpenSession
<1>3. None \notin Outcomes
  BY NoneAssumption
<1>4. Fitting(sessions[i], None) /\ Fitting(sessions[i], "simulated")
  BY <1>3 DEF Fitting, Outcomes
<1>5. "simulated" \in Outcomes /\ "measured" \in Outcomes /\ "verified" \in Outcomes
  BY DEF Outcomes
<1>6. CASE DryRunEnds(i)
  BY <1>1, <1>4, <1>5, <1>6, PlainCommitSound DEF DryRunEnds
<1>7. CASE MeasureFails(i)
  BY <1>1, <1>4, <1>7, PlainCommitSound DEF MeasureFails
<1>8. CASE LookupBreaks(i)
  <2>1. sessions[i].exit \in Exits /\ sessions[i].kind # "fast"
    BY <1>2, <1>8 DEF SessionOK, LookupBreaks
  <2>2. Fitting(sessions[i], "measured")
    BY <2>1 DEF Fitting
  <2>3. PICK outcome \in {"measured", None} : Commit(i, sessions[i].wanted, outcome)
    BY <1>8 DEF LookupBreaks
  <2> QED
    BY <1>1, <1>4, <1>5, <2>2, <2>3, PlainCommitSound
<1>9. CASE Verified(i)
  <2>1. sessions[i].exit \in Exits /\ sessions[i].kind \in {"check", "switch"}
    BY <1>2, <1>9 DEF SessionOK, Verified
  <2>2. PICK outcome \in {None, IF sessions[i].kind = "switch" THEN "verified" ELSE "measured"} :
            Commit(i, sessions[i].wanted, outcome)
    BY <1>9 DEF Verified
  <2>3. Fitting(sessions[i], outcome) /\ outcome \in Outcomes \cup {None}
    BY <1>4, <1>5, <2>1, <2>2 DEF Fitting
  <2> QED
    BY <1>1, <2>2, <2>3, PlainCommitSound
<1> QED
  BY <1>6, <1>7, <1>8, <1>9

\* A session that ends without a commit, and what it leaves in its record.
LEMMA EndedIsQuiet ==
    ASSUME CInv, NEW i \in Ids, sessions[i].at \in Open, NEW at \in {"cancelled", "crashed"},
           NEW record \in Records \cup {None}, sessions[i].kind \notin Scans => record = None,
           at = "cancelled" /\ record = "RUNNING" => sessions[i].exit # None
    PROVE  /\ Closed(sessions[i], at, None, record) \in Session
           /\ Quiet(sessions[i], Closed(sessions[i], at, None, record))
<1>1. sessions[i] \in Session /\ SessionOK(sessions[i])
  BY OpenSession
<1>2. at \in Over /\ at \notin Open /\ at \notin {"unused", "done", "enriching", "verifying"}
  BY DEF Over, Open
<1>3. PICK t : t = Closed(sessions[i], at, None, record)
  OBVIOUS
<1>4. /\ t \in Session /\ t.at = at /\ t.node = sessions[i].node /\ t.kind = sessions[i].kind
      /\ t.outcome = None /\ t.record = record /\ t.exit = sessions[i].exit
  BY <1>1, <1>2, <1>3, ClosedTyped
<1>5. None # "measured"
  BY NoneAssumption DEF Outcomes
<1>6. sessions[i].at # "unused"
  BY DEF Open
<1>7. SessionOK(t)
  BY <1>1, <1>2, <1>4, <1>5, <1>6 DEF SessionOK
<1>8. Quiet(sessions[i], t)
  BY <1>2, <1>4, <1>7 DEF Quiet
<1> QED
  BY <1>3, <1>4, <1>8

LEMMA CancelSound ==
    ASSUME CInv, NEW i \in Ids, Cancel(i)
    PROVE  CInv' /\ Verdict
<1>1. sessions[i].at \in Open
  BY DEF Cancel, IsLive
<1>2. sessions[i] \in Session /\ SessionOK(sessions[i])
  BY <1>1, OpenSession
<1>3. PICK record : record = CancelledRecord(sessions[i])
  OBVIOUS
<1>4. None # "RUNNING" /\ None \notin Exits
  BY NoneAssumption, CatalogueAssumption DEF Records
<1>5. record \in Records \cup {None}
  BY <1>2, <1>3 DEF CancelledRecord, Session, Records
<1>6. sessions[i].kind \notin Scans => record = None
  BY <1>2, <1>3 DEF CancelledRecord, SessionOK
<1>7. record = "RUNNING" => sessions[i].exit # None
  <2>1. ASSUME record = "RUNNING" PROVE sessions[i].at \in {"enriching", "verifying"}
    BY <1>1, <1>3, <1>4, <1>6, <2>1 DEF CancelledRecord, Open
  <2> QED
    BY <1>2, <1>4, <2>1 DEF SessionOK
<1> DEFINE t == Closed(sessions[i], "cancelled", None, record)
<1>8. t \in Session /\ Quiet(sessions[i], t)
  BY <1>1, <1>5, <1>6, <1>7, EndedIsQuiet
<1>9. sessions' = [sessions EXCEPT ![i] = t] /\ UNCHANGED <<imported, rows, overlapped, listed>>
  BY <1>3 DEF Cancel
<1> HIDE DEF t
<1> QED
  BY <1>8, <1>9, BecomesSound

LEMMA CrashSound ==
    ASSUME CInv, Crash
    PROVE  CInv' /\ Verdict
<1>1. ASSUME NEW i \in Ids
      PROVE  /\ sessions'[i] \in Session
             /\ sessions'[i] = sessions[i] \/ Quiet(sessions[i], sessions'[i])
  <2>1. sessions[i] \in Session /\ SessionOK(sessions[i])
    BY DEF CInv, CatalogueTypeOK
  <2>2. CASE IsLive(i)
    <3>1. sessions'[i] = Closed(sessions[i], "crashed", None, sessions[i].record)
      BY <2>2 DEF Crash
    <3>2. PICK record \in Records \cup {None} : record = sessions[i].record
      BY <2>1 DEF Session
    <3>3. sessions[i].kind \notin Scans => record = None
      BY <2>1, <3>2 DEF SessionOK
    <3>4. sessions[i].at \in Open
      BY <2>2 DEF IsLive
    <3>5. /\ Closed(sessions[i], "crashed", None, record) \in Session
          /\ Quiet(sessions[i], Closed(sessions[i], "crashed", None, record))
      BY <3>3, <3>4, EndedIsQuiet
    <3> QED
      BY <3>1, <3>2, <3>5
  <2>3. CASE ~IsLive(i)
    BY <2>1, <2>3 DEF Crash
  <2> QED
    BY <2>2, <2>3
<1>2. sessions' = [i \in Ids |-> sessions'[i]]
  BY DEF Crash
<1>3. sessions' \in [Ids -> Session] /\ UNCHANGED <<imported, rows, overlapped, listed>>
  BY <1>1, <1>2 DEF Crash
<1> QED
  BY <1>1, <1>3, QuietSound

\* An import writes the feed's columns, and rows that nobody can have loaded.
LEMMA RefreshSound ==
    ASSUME CInv, NEW offered \in SUBSET Nodes, NEW feed \in Countries \cup {None},
           Refresh(offered, feed)
    PROVE  CInv' /\ Verdict
<1>1. /\ sessions \in [Ids -> Session] /\ rows \in [Nodes -> Row]
      /\ imported \subseteq Nodes /\ overlapped \subseteq Nodes
      /\ \A j \in Ids : SessionOK(sessions[j]) /\ Alone(sessions[j])
      /\ imported' = imported \cup offered /\ UNCHANGED <<sessions, overlapped>>
      /\ listed \in [Nodes -> SUBSET Countries]
  BY DEF CInv, CatalogueTypeOK, Refresh
<1>2. NewRow(feed) \in Row /\ NewRow(feed).available = FALSE /\ NewRow(feed).failures = 0
      /\ NewRow(feed).country = None /\ NewRow(feed).exit = None /\ NewRow(feed).asn = None
      /\ NewRow(feed).ptr = None /\ NewRow(feed).feed = feed
  BY RowsTyped DEF NewRow
<1>3. ASSUME NEW n \in Nodes
      PROVE  /\ rows'[n] \in Row
             /\ n \in imported => Alike(rows'[n], rows[n])
             /\ n \notin imported /\ n \in offered => rows'[n] = NewRow(feed)
             /\ n \notin offered => rows'[n] = rows[n]
             /\ n \in imported /\ n \in offered => rows'[n].feed = feed
  <2>1. rows'[n] = IF n \in offered THEN ImportedRow(n, feed) ELSE rows[n]
    BY DEF Refresh
  <2>2. rows[n] \in Row
    BY <1>1
  <2>3. n \in imported => /\ ImportedRow(n, feed) \in Row
                          /\ Alike(ImportedRow(n, feed), rows[n])
                          /\ ImportedRow(n, feed).feed = feed
    BY <2>2 DEF ImportedRow, Alike, Row
  <2>4. n \notin imported => ImportedRow(n, feed) = NewRow(feed)
    BY DEF ImportedRow
  <2> QED
    BY <1>2, <2>1, <2>2, <2>3, <2>4 DEF Alike
<1>4. rows' \in [Nodes -> Row]
  <2>1. rows' = [n \in Nodes |-> rows'[n]]
    BY DEF Refresh
  <2> QED
    BY <1>3, <2>1
<1>5. ASSUME NEW n \in Nodes
      PROVE  /\ listed[n] \subseteq listed'[n]
             /\ n \in offered => feed = None \/ feed \in listed'[n]
  <2>1. listed'[n] = IF n \in offered THEN listed[n] \cup ({feed} \ {None}) ELSE listed[n]
    BY DEF Refresh
  <2> QED BY <2>1
<1>11. CatalogueTypeOK'
  <2>1. listed' \in [Nodes -> SUBSET Countries]
    BY <1>1 DEF Refresh
  <2> QED BY <1>1, <1>4, <2>1 DEF CatalogueTypeOK
<1>6. ASSUME NEW j \in Ids PROVE (SessionOK(sessions[j]) /\ Alone(sessions[j]))'
  <2>1. SessionOK(sessions[j])'
    BY <1>1 DEF SessionOK
  <2>2. sessions[j].at \in Open => sessions[j].node \in imported
    BY <1>1, OpenSession
  <2>3. Alone(sessions[j])'
    <3> SUFFICES ASSUME sessions[j].at \in Open, sessions[j].node \notin overlapped
                 PROVE  (Alike(sessions[j].seen, rows[sessions[j].node])
                         /\ Fits(sessions[j].node, sessions[j].wanted))'
      BY <1>1 DEF Alone
    <3>1. /\ Alike(sessions[j].seen, rows[sessions[j].node])
          /\ Fits(sessions[j].node, sessions[j].wanted)
          /\ sessions[j].node \in imported /\ sessions[j].node \in Nodes
      BY <1>1, <2>2 DEF Alone
    <3>2. Alike(rows'[sessions[j].node], rows[sessions[j].node])
      BY <1>3, <3>1
    <3>5. listed[sessions[j].node] \subseteq listed'[sessions[j].node]
      BY <1>5, <3>1
    <3>3. Alike(sessions[j].seen, rows[sessions[j].node])'
      BY <1>1, <3>1, <3>2 DEF Alike
    <3>4. Fits(sessions[j].node, sessions[j].wanted)'
      BY <1>1, <3>1, <3>5 DEF Fits
    <3> QED BY <3>3, <3>4
  <2> QED
    BY <2>1, <2>3
<1>7. (LastIsOpen /\ InOrder)'
  BY <1>1 DEF CInv, LastIsOpen, InOrder
<1>8. ASSUME NEW n \in Nodes
      PROVE  /\ rows'[n].available = rows[n].available
             /\ rows'[n].failures = rows[n].failures
             /\ Fits(n, rows[n]) => Fits(n, rows[n])'
  <2>1. RowOK(n)
    BY DEF CInv
  <2>2. CASE n \in imported
    <3>1. Alike(rows'[n], rows[n])
      BY <1>3, <2>2
    <3>2. listed[n] \subseteq listed'[n]
      BY <1>5
    <3>3. CASE n \in offered
      <4>1. rows'[n].feed = feed
        BY <1>3, <2>2, <3>3
      <4>2. feed = None \/ feed \in listed'[n]
        BY <1>5, <3>3
      <4> QED BY <3>1, <3>2, <4>1, <4>2 DEF Alike, Fits
    <3>4. CASE n \notin offered
      <4>1. rows'[n] = rows[n]
        BY <1>3, <3>4
      <4> QED BY <3>2, <4>1 DEF Fits
    <3> QED
      BY <3>3, <3>4
  <2>3. CASE n \notin imported
    <3>1. CASE n \in offered
      <4>1. rows'[n] = NewRow(feed)
        BY <1>3, <2>3, <3>1
      <4>2. feed = None \/ feed \in listed'[n]
        BY <1>5, <3>1
      <4> QED
        BY <1>2, <2>1, <2>3, <4>1, <4>2 DEF RowOK, Fits
    <3>2. CASE n \notin offered
      <4>1. rows'[n] = rows[n]
        BY <1>3, <3>2
      <4>2. listed[n] \subseteq listed'[n]
        BY <1>5
      <4> QED
        BY <4>1, <4>2 DEF Fits
    <3> QED
      BY <3>1, <3>2
  <2> QED
    BY <2>2, <2>3
<1>9. ASSUME NEW n \in Nodes PROVE (RowOK(n) /\ Follows(n))'
  <2>1. /\ Reaching(n)' = Reaching(n) /\ Reached(n)' = Reached(n) /\ Since(n)' = Since(n)
    BY <1>1, RecordsStay
  <2>2. RowOK(n) /\ Follows(n)
    BY DEF CInv
  <2> QED
    BY <1>1, <1>8, <2>1, <2>2 DEF RowOK, Follows
<1>10. Verdict
  BY <1>8 DEF Verdict
<1> QED
  BY <1>6, <1>7, <1>9, <1>10, <1>11 DEF CInv

-----------------------------------------------------------------------------
\* The invariant holds at first and is kept.

LEMMA InitSound == Init => CInv
<1> SUFFICES ASSUME Init PROVE CInv
  OBVIOUS
<1>1. \A i \in Ids : sessions[i] = Unused
  BY DEF Init
<1>2. /\ Unused.at = "unused" /\ Unused.node = None /\ Unused.kind = None
      /\ Unused.outcome = None /\ Unused.record = None
  BY DEF Unused
<1>3. CatalogueTypeOK
  BY RowsTyped DEF Init, CatalogueTypeOK
<1>4. None \notin Records \cup Outcomes
  BY NoneAssumption
<1>5. \A i \in Ids : SessionOK(sessions[i]) /\ Alone(sessions[i])
  BY <1>1, <1>2, <1>4 DEF SessionOK, Alone, Open, Records, Outcomes
<1>6. LastIsOpen /\ InOrder
  BY <1>1, <1>2 DEF LastIsOpen, InOrder, Open
<1>7. ASSUME NEW n \in Nodes PROVE RowOK(n) /\ Follows(n)
  <2>1. Committed(n) = {}
    BY <1>1, <1>2 DEF Committed
  <2>2. Reaching(n) = {} /\ Failing(n) = {}
    BY <2>1 DEF Reaching, Failing
  <2>3. ~Reached(n) /\ Since(n) = {}
    BY <2>2 DEF Reached, Since
  <2>4. /\ rows[n].available = FALSE /\ rows[n].failures = 0 /\ rows[n].country = None
        /\ rows[n].asn = None /\ rows[n].ptr = None /\ rows[n].feed = None
    BY DEF Init, NewRow
  <2> QED
    BY <2>2, <2>3, <2>4, FS_EmptySet DEF RowOK, Follows, Fits
<1> QED
  BY <1>3, <1>5, <1>6, <1>7 DEF CInv

LEMMA NextSound == ASSUME CInv, [Next]_vars PROVE CInv' /\ (Verdict \/ UNCHANGED vars)
<1>1. CASE UNCHANGED vars
  <2>1. sessions' \in [Ids -> Session] /\ UNCHANGED <<imported, rows, overlapped, listed, sessions>>
    BY <1>1 DEF vars, CInv, CatalogueTypeOK
  <2> QED
    BY <2>1, QuietSound
<1>2. ASSUME NEW i \in Ids, Step(i) PROVE CInv' /\ Verdict
  <2>1. CASE \E n \in Nodes : \E kind \in Asked[n] : Begin(i, n, kind)
    <3>1. PICK n \in Nodes : \E kind \in Asked[n] : Begin(i, n, kind)
      BY <2>1
    <3>2. PICK kind \in Asked[n] : Begin(i, n, kind)
      BY <3>1
    <3>3. kind \in Kinds
      BY <3>2, CatalogueAssumption DEF Kinds, Scans
    <3> QED
      BY <3>2, <3>3, BeginSound
  <2>2. CASE ScanEnds(i)
    BY <2>2, ScanEndsSound
  <2>3. CASE DryRunEnds(i) \/ MeasureFails(i) \/ LookupBreaks(i) \/ Verified(i)
    BY <2>3, OthersEndSound
  <2>4. CASE \E exit \in Exits : Measured(i, exit)
    BY <2>4, MeasuredSound
  <2>5. CASE LookedUp(i)
    BY <2>5, LookedUpSound
  <2>6. CASE Cancel(i)
    BY <2>6, CancelSound
  <2> QED
    BY <1>2, <2>1, <2>2, <2>3, <2>4, <2>5, <2>6 DEF Step
<1>3. CASE Crash
  BY <1>3, CrashSound
<1>4. ASSUME NEW offered \in Offers, NEW feed \in Feeds, Refresh(offered, feed)
      PROVE  CInv' /\ Verdict
  <2>1. offered \in SUBSET Nodes /\ feed \in Countries \cup {None}
    BY CatalogueAssumption
  <2> QED
    BY <1>4, <2>1, RefreshSound
<1> QED
  BY <1>1, <1>2, <1>3, <1>4 DEF Next

LEMMA CatalogueInvariant == Spec => []CInv
<1>1. CInv /\ [Next]_vars => CInv'
  BY NextSound
<1> QED
  BY InitSound, <1>1, PTL DEF Spec

-----------------------------------------------------------------------------
\* The theorems.

\* Rows and sessions keep their types: a scan's status is one of the three, whatever
\* ends the scan.
THEOREM CatalogueTypeCorrect == Spec => []CatalogueTypeOK
<1>1. CInv => CatalogueTypeOK
  BY DEF CInv
<1> QED
  BY CatalogueInvariant, <1>1, PTL

\* As long as no two sessions of a node are open at once, its row says what the
\* records of its scans and switches say: whether the last verdict was good, and how
\* many scans failed since the last good one (_apply_real_outcome, the switch).
THEOREM RowsFollowRecords == Spec => []RowFollowsRecords
<1>1. ASSUME CInv, NEW n \in Nodes \ overlapped
      PROVE  /\ rows[n].available <=> \E i \in Reaching(n) : \A j \in Failing(n) : j < i
             /\ rows[n].failures =
                    Cardinality({i \in Failing(n) : \A j \in Clearing(n) : j < i})
  BY <1>1 DEF CInv, Follows, Reached, Since
<1>2. CInv => RowFollowsRecords
  BY <1>1 DEF RowFollowsRecords
<1> QED
  BY CatalogueInvariant, <1>2, PTL

\* However many sessions overlap: what makes a node available is a connection that
\* was made to it, never a simulation, a route or an import.
THEOREM AvailableMeansReached == Spec => []AvailableWasReached
<1>1. CInv => AvailableWasReached
  BY DEF CInv, RowOK, AvailableWasReached
<1> QED
  BY CatalogueInvariant, <1>1, PTL

\* As long as no two sessions of a node are open at once, the country of its row is
\* the one of the exit beside it, or one that a feed named for the server that is the
\* exit; and so are its network and name, unless the exit is the server: then they
\* may be of an earlier exit (enrich_node, and the update of the columns).
THEOREM ExitsAreDescribed == Spec => []RowDescribesExit
<1>1. CInv => RowDescribesExit
  BY DEF CInv, Follows, Fits, RowDescribesExit
<1> QED
  BY CatalogueInvariant, <1>1, PTL

\* A record that says RUNNING without a scan is one that a crash, a refused commit, an
\* IPv6 address or a cancellation during the lookup left behind, and no other.
THEOREM RunningIsExplained == Spec => []RunningHasScan
<1>1. ASSUME CInv, NEW i \in Ids, sessions[i].record = "RUNNING"
      PROVE  \/ IsLive(i)
             \/ sessions[i].at \in {"refused", "raised", "crashed"}
             \/ sessions[i].at = "cancelled" /\ sessions[i].exit # None
  <2>1. sessions[i] \in Session /\ SessionOK(sessions[i])
    BY <1>1 DEF CInv, CatalogueTypeOK
  <2>2. None # "RUNNING"
    BY NoneAssumption DEF Records
  <2>3. sessions[i].at # "unused"
    BY <1>1, <2>1, <2>2 DEF SessionOK, Unused
  <2>4. sessions[i].at \in Open \cup Over
    BY <2>1, <2>3 DEF Session
  <2> QED
    BY <1>1, <2>1, <2>4 DEF SessionOK, Over, IsLive
<1>2. CInv => RunningHasScan
  BY <1>1 DEF RunningHasScan
<1> QED
  BY CatalogueInvariant, <1>2, PTL

\* The verdict of a row changes only with the commit of a session of that node whose
\* record gives the reason: the columns that a session did not mean to change are
\* not written back, however old its row is.
THEOREM VerdictsHaveRecords == Spec => VerdictWithRecord
<1> DEFINE Change ==
        \A n \in Nodes :
           \/ /\ rows'[n].available = rows[n].available
              /\ rows'[n].failures = rows[n].failures
           \/ \E i \in Ids :
                 /\ IsLive(i) /\ i \in (Clearing(n) \cup Failing(n))'
                 /\ sessions'[i].record # "RUNNING"
<1>1. CInv /\ [Next]_vars => [Change]_vars
  BY NextSound DEF Verdict
<1> QED
  BY CatalogueInvariant, <1>1, PTL DEF Spec, VerdictWithRecord

-----------------------------------------------------------------------------
\* The candidate of a switch, for any rows.

Quantity == Int \cup {Unknown}

\* The columns by which a row is judged; a ping that is measured is below the one
\* that the sort gives to a node without a ping.
Judgeable(row) ==
    /\ row.id \in Int /\ row.failures \in Int
    /\ row.ping \in Quantity /\ (row.ping # Unknown => row.ping < NoPing)
    /\ row.speed \in Quantity /\ row.score \in Quantity

\* The rows of a table: any number of them, with ids of their own.
IsTable(table) ==
    /\ IsFiniteSet(table)
    /\ \A row \in table : Judgeable(row)
    /\ \A row, other \in table : row.id = other.id => row = other

\* The number that stands for no ping is not looked into below.
LEMMA NoPingIsInt == NoPing \in Int
BY SMTT(5) DEF NoPing

\* The values in a key, column by column.
LEMMA KeyTyped ==
    ASSUME NEW a, Judgeable(a)
    PROVE  /\ Key(a) = <<a.failures, Known(a.ping, NoPing), -Known(a.speed, 0),
                         -Known(a.score, 0), a.id>>
           /\ Known(a.ping, NoPing) \in Int /\ Known(a.speed, 0) \in Int
           /\ Known(a.score, 0) \in Int
           /\ Known(a.ping, NoPing) <= NoPing
           /\ a.ping # Unknown => Known(a.ping, NoPing) = a.ping /\ a.ping < NoPing
           /\ a.ping = Unknown => Known(a.ping, NoPing) = NoPing
BY NoPingIsInt DEF Judgeable, Quantity, Known, Key

\* The order of two tuples of five.
LEMMA FirstDifference ==
    ASSUME NEW x \in [1..5 -> Int], NEW y \in [1..5 -> Int]
    PROVE  Before(x, y) <=>
               \/ x[1] < y[1]
               \/ /\ x[1] = y[1]
                  /\ \/ x[2] < y[2]
                     \/ /\ x[2] = y[2]
                        /\ \/ x[3] < y[3]
                           \/ /\ x[3] = y[3]
                              /\ \/ x[4] < y[4]
                                 \/ x[4] = y[4] /\ x[5] < y[5]
<1>1. DOMAIN x = 1..5
  OBVIOUS
<1>2. \A j : j \in 1..5 <=> j = 1 \/ j = 2 \/ j = 3 \/ j = 4 \/ j = 5
  OBVIOUS
<1>3. /\ \A j : j \notin 1..(1 - 1)
      /\ \A j : j \in 1..(2 - 1) <=> j = 1
      /\ \A j : j \in 1..(3 - 1) <=> j = 1 \/ j = 2
      /\ \A j : j \in 1..(4 - 1) <=> j = 1 \/ j = 2 \/ j = 3
      /\ \A j : j \in 1..(5 - 1) <=> j = 1 \/ j = 2 \/ j = 3 \/ j = 4
  OBVIOUS
<1> DEFINE First(i) == x[i] < y[i] /\ \A j \in 1..(i - 1) : x[j] = y[j]
<1>4. Before(x, y) <=> First(1) \/ First(2) \/ First(3) \/ First(4) \/ First(5)
  BY <1>1, <1>2, Zenon DEF Before
<1>5. /\ First(1) <=> x[1] < y[1]
      /\ First(2) <=> x[2] < y[2] /\ x[1] = y[1]
      /\ First(3) <=> x[3] < y[3] /\ x[1] = y[1] /\ x[2] = y[2]
      /\ First(4) <=> x[4] < y[4] /\ x[1] = y[1] /\ x[2] = y[2] /\ x[3] = y[3]
      /\ First(5) <=> x[5] < y[5] /\ x[1] = y[1] /\ x[2] = y[2] /\ x[3] = y[3] /\ x[4] = y[4]
  <2> HIDE DEF First
  <2>1. First(1) <=> x[1] < y[1]
    BY <1>3, Zenon DEF First
  <2>2. First(2) <=> x[2] < y[2] /\ x[1] = y[1]
    BY <1>3, Zenon DEF First
  <2>3. First(3) <=> x[3] < y[3] /\ x[1] = y[1] /\ x[2] = y[2]
    BY <1>3, Zenon DEF First
  <2>4. First(4) <=> x[4] < y[4] /\ x[1] = y[1] /\ x[2] = y[2] /\ x[3] = y[3]
    BY <1>3, Zenon DEF First
  <2>5. First(5) <=> x[5] < y[5] /\ x[1] = y[1] /\ x[2] = y[2] /\ x[3] = y[3] /\ x[4] = y[4]
    BY <1>3, Zenon DEF First
  <2> QED
    BY <2>1, <2>2, <2>3, <2>4, <2>5
<1> HIDE DEF First
<1> QED
  BY <1>4, <1>5

\* A key is a tuple of five integers.
LEMMA KeyIsFunction ==
    ASSUME NEW a, Judgeable(a)
    PROVE  /\ Key(a) \in [1..5 -> Int]
           /\ Key(a)[1] = a.failures /\ Key(a)[2] = Known(a.ping, NoPing)
           /\ Key(a)[3] = -Known(a.speed, 0) /\ Key(a)[4] = -Known(a.score, 0)
           /\ Key(a)[5] = a.id
<1> DEFINE k1 == a.failures
           k2 == Known(a.ping, NoPing)
           k3 == -Known(a.speed, 0)
           k4 == -Known(a.score, 0)
           k5 == a.id
<1>1. Key(a) = <<k1, k2, k3, k4, k5>>
  BY KeyTyped
<1>2. k1 \in Int /\ k2 \in Int /\ k3 \in Int /\ k4 \in Int /\ k5 \in Int
  BY KeyTyped DEF Judgeable
<1> HIDE DEF k1, k2, k3, k4, k5
<1>3. /\ Key(a) \in [1..5 -> Int]
      /\ Key(a)[1] = k1 /\ Key(a)[2] = k2 /\ Key(a)[3] = k3 /\ Key(a)[4] = k4 /\ Key(a)[5] = k5
  BY <1>1, <1>2
<1> QED
  BY <1>3 DEF k1, k2, k3, k4, k5

\* The keys order the rows as the list of README.md:15 does.
LEMMA KeyIsOrder ==
    ASSUME NEW a, NEW b, Judgeable(a), Judgeable(b)
    PROVE  Before(Key(a), Key(b)) <=> Better(a, b)
<1>1. Before(Key(a), Key(b)) <=>
         \/ a.failures < b.failures
         \/ /\ a.failures = b.failures
            /\ \/ Known(a.ping, NoPing) < Known(b.ping, NoPing)
               \/ /\ Known(a.ping, NoPing) = Known(b.ping, NoPing)
                  /\ \/ -Known(a.speed, 0) < -Known(b.speed, 0)
                     \/ /\ -Known(a.speed, 0) = -Known(b.speed, 0)
                        /\ \/ -Known(a.score, 0) < -Known(b.score, 0)
                           \/ -Known(a.score, 0) = -Known(b.score, 0) /\ a.id < b.id
  BY FirstDifference, KeyIsFunction
<1>2. Known(a.ping, NoPing) < Known(b.ping, NoPing) <=> Faster(a, b)
  BY KeyTyped, UnknownAssumption DEF Faster
<1>3. Known(a.ping, NoPing) = Known(b.ping, NoPing) <=> a.ping = b.ping
  BY KeyTyped, UnknownAssumption
<1>4. /\ -Known(a.speed, 0) < -Known(b.speed, 0) <=> More(a.speed, b.speed)
      /\ -Known(a.speed, 0) = -Known(b.speed, 0)
            <=> ~More(a.speed, b.speed) /\ ~More(b.speed, a.speed)
      /\ -Known(a.score, 0) < -Known(b.score, 0) <=> More(a.score, b.score)
      /\ -Known(a.score, 0) = -Known(b.score, 0)
            <=> ~More(a.score, b.score) /\ ~More(b.score, a.score)
  BY KeyTyped DEF More
<1> QED
  BY <1>1, <1>2, <1>3, <1>4, Zenon DEF Better

\* The row a comes before the row b.
Lower(a, b) == Before(Key(a), Key(b))

\* The keys of a table order its rows strictly, and any two of them.
LEMMA KeysAreStrict ==
    ASSUME NEW a, NEW b, NEW c, Judgeable(a), Judgeable(b), Judgeable(c)
    PROVE  /\ ~Lower(a, a)
           /\ Lower(a, b) /\ Lower(b, c) => Lower(a, c)
           /\ a.id # b.id => Lower(a, b) \/ Lower(b, a)
<1> DEFINE x == Key(a)
           y == Key(b)
           z == Key(c)
<1>1. x \in [1..5 -> Int] /\ y \in [1..5 -> Int] /\ z \in [1..5 -> Int]
  BY KeyIsFunction
<1>2. a.id # b.id => x[5] # y[5]
  BY KeyIsFunction
<1>3. /\ Lower(a, a) <=> Before(x, x)
      /\ Lower(a, b) <=> Before(x, y)
      /\ Lower(b, a) <=> Before(y, x)
      /\ Lower(b, c) <=> Before(y, z)
      /\ Lower(a, c) <=> Before(x, z)
  BY DEF Lower
<1> HIDE DEF x, y, z
<1>4. ~Before(x, x)
  BY <1>1, FirstDifference
<1>5. Before(x, y) /\ Before(y, z) => Before(x, z)
  BY <1>1, FirstDifference
<1>6. x[5] # y[5] => Before(x, y) \/ Before(y, x)
  BY <1>1, FirstDifference
<1> QED
  BY <1>2, <1>3, <1>4, <1>5, <1>6

\* A number that is the least of those with a property, if any has it.
LEMMA LeastNumber ==
    ASSUME NEW N \in SUBSET Nat, N # {}
    PROVE  \E n \in N : \A k \in Nat : k < n => k \notin N
<1>1. PICK n \in N : \A y \in N : <<y, n>> \notin OpToRel(<, Nat)
  BY NatLessThanWellFounded, WFMin
<1>2. ASSUME NEW k \in Nat, k < n, k \in N PROVE FALSE
  <2>1. n \in Nat
    OBVIOUS
  <2>2. <<k, n>> \in OpToRel(<, Nat)
    BY <1>2, <2>1 DEF OpToRel
  <2> QED
    BY <1>1, <1>2, <2>2
<1> QED
  BY <1>2

IsLast(row, rs) == row \in rs /\ \A other \in rs \ {row} : Lower(other, row)

\* A table without one of its rows.
LEMMA SmallerTable ==
    ASSUME NEW rs, IsTable(rs), NEW row \in rs
    PROVE  /\ IsTable(rs \ {row})
           /\ Cardinality(rs) \in Nat /\ Cardinality(rs \ {row}) \in Nat
           /\ Cardinality(rs \ {row}) = Cardinality(rs) - 1
BY FS_RemoveElement, FS_CardinalityType DEF IsTable

\* Of any table with a row, one is the last.
LEMMA SomeRowIsLast ==
    ASSUME NEW rs, IsTable(rs), rs # {}
    PROVE  \E row : IsLast(row, rs)
<1> DEFINE Endless(t) == IsTable(t) /\ t # {} /\ ~\E row : IsLast(row, t)
           N == {n \in Nat : \E t : Endless(t) /\ Cardinality(t) = n}
<1> SUFFICES ASSUME N # {} PROVE FALSE
  <2>1. Endless(rs) => Cardinality(rs) \in N
    BY FS_CardinalityType DEF IsTable
  <2> QED
    BY <2>1
<1>1. PICK n \in N : \A k \in Nat : k < n => k \notin N
  BY LeastNumber
<1>2. PICK t : Endless(t) /\ Cardinality(t) = n
  OBVIOUS
<1> HIDE DEF N
<1>3. PICK x \in t : TRUE
  BY <1>2
<1> DEFINE u == t \ {x}
<1>4. IsTable(u) /\ Cardinality(u) \in Nat /\ Cardinality(u) < n
  BY <1>2, SmallerTable
<1>5. u # {}
  <2>1. u = {} => IsLast(x, t)
    BY DEF IsLast
  <2> QED
    BY <1>2, <2>1
<1>6. ~Endless(u)
  BY <1>1, <1>4 DEF N
<1>7. PICK m : IsLast(m, u)
  BY <1>4, <1>5, <1>6
<1>8. Judgeable(x) /\ Judgeable(m) /\ \A row \in t : Judgeable(row)
  BY <1>2, <1>7 DEF IsTable, IsLast
<1>9. x.id # m.id
  BY <1>2, <1>7 DEF IsTable, IsLast
<1>10. CASE Lower(x, m)
  <2>1. IsLast(m, t)
    BY <1>7, <1>10 DEF IsLast
  <2> QED
    BY <1>2, <2>1
<1>11. CASE Lower(m, x)
  <2>1. \A other \in u : other # m => Lower(other, x)
    BY <1>7, <1>8, <1>11, KeysAreStrict DEF IsLast
  <2>2. IsLast(x, t)
    BY <2>1, <1>11 DEF IsLast
  <2> QED
    BY <1>2, <2>2
<1> QED
  BY <1>8, <1>9, <1>10, <1>11, KeysAreStrict

IsOrder(order, rs) ==
    /\ order \in [1..Cardinality(rs) -> rs]
    /\ \A i, j \in DOMAIN order : i < j => Lower(order[i], order[j])

\* Any table can be sorted.
LEMMA SomeOrder ==
    ASSUME NEW rs, IsTable(rs)
    PROVE  \E order : IsOrder(order, rs)
<1> DEFINE Unsorted(t) == IsTable(t) /\ ~\E order : IsOrder(order, t)
           N == {n \in Nat : \E t : Unsorted(t) /\ Cardinality(t) = n}
<1> SUFFICES ASSUME N # {} PROVE FALSE
  <2>1. Unsorted(rs) => Cardinality(rs) \in N
    BY FS_CardinalityType DEF IsTable
  <2> QED
    BY <2>1
<1>1. PICK n \in N : \A k \in Nat : k < n => k \notin N
  BY LeastNumber
<1>2. PICK t : Unsorted(t) /\ Cardinality(t) = n
  OBVIOUS
<1>a. n \in Nat
  OBVIOUS
<1> HIDE DEF N
<1>3. CASE t = {}
  <2> DEFINE o == [i \in 1..0 |-> 0]
  <2>1. Cardinality(t) = 0
    BY <1>3, FS_EmptySet
  <2>2. o \in [1..0 -> t] /\ DOMAIN o = {}
    OBVIOUS
  <2>3. IsOrder(o, t)
    BY <2>1, <2>2 DEF IsOrder
  <2> QED
    BY <1>2, <2>3
<1>4. CASE t # {}
  <2>1. PICK m : IsLast(m, t)
    BY <1>2, <1>4, SomeRowIsLast
  <2> DEFINE u == t \ {m}
  <2>2. IsTable(u) /\ Cardinality(u) \in Nat /\ Cardinality(u) = n - 1
    BY <1>2, <2>1, SmallerTable DEF IsLast
  <2>3. PICK q : IsOrder(q, u)
    BY <1>1, <1>a, <2>2 DEF N
  <2> DEFINE o == [i \in 1..n |-> IF i = n THEN m ELSE q[i]]
  <2>4. \A i \in 1..n : i # n => i \in 1..(n - 1) /\ q[i] \in u /\ o[i] = q[i]
    <3>1. q \in [1..(n - 1) -> u]
      BY <2>2, <2>3 DEF IsOrder
    <3> HIDE DEF u
    <3>2. \A i \in 1..n : i # n => i \in 1..(n - 1)
      BY <1>a
    <3> QED
      BY <3>1, <3>2
  <2>5. n \in 1..n /\ o[n] = m
    BY <1>a, <2>2
  <2>6. o \in [1..n -> t]
    BY <2>1, <2>4 DEF IsLast
  <2>7. ASSUME NEW i \in 1..n, NEW j \in 1..n, i < j
        PROVE  Lower(o[i], o[j])
    <3> HIDE DEF o
    <3>1. i # n /\ i \in 1..(n - 1)
      BY <1>a, <2>7
    <3>2. CASE j = n
      BY <2>1, <2>4, <2>5, <3>1, <3>2 DEF IsLast
    <3>3. CASE j # n
      <4>1. DOMAIN q = 1..(n - 1)
        BY <2>2, <2>3 DEF IsOrder
      <4>2. Lower(q[i], q[j])
        BY <2>3, <2>4, <2>7, <3>1, <3>3, <4>1 DEF IsOrder
      <4> QED
        BY <2>4, <3>1, <3>3, <4>2
    <3> QED
      BY <3>2, <3>3
  <2>8. IsOrder(o, t)
    <3>1. DOMAIN o = 1..n
      OBVIOUS
    <3> HIDE DEF o
    <3> QED
      BY <1>2, <2>6, <2>7, <3>1 DEF IsOrder
  <2> QED
    BY <1>2, <2>8
<1> QED
  BY <1>3, <1>4

\* The first row of a sorted table has no row below it, and it is the only one.
LEMMA FirstIsLeast ==
    ASSUME NEW rs, IsTable(rs), rs # {}
    PROVE  /\ Head(Sorted(rs)) \in rs
           /\ \A row \in rs \ {Head(Sorted(rs))} : Lower(Head(Sorted(rs)), row)
<1> DEFINE n == Cardinality(rs)
           order == Sorted(rs)
<1>1. n \in Nat /\ n # 0
  BY FS_CardinalityType, FS_EmptySet DEF IsTable
<1>2. IsOrder(order, rs)
  <2>1. PICK q : IsOrder(q, rs)
    BY SomeOrder
  <2>2. /\ q \in [1..Cardinality(rs) -> rs]
        /\ \A i, j \in DOMAIN q : i < j => Before(Key(q[i]), Key(q[j]))
    BY <2>1 DEF IsOrder, Lower
  <2>3. /\ order \in [1..Cardinality(rs) -> rs]
        /\ \A i, j \in DOMAIN order : i < j => Before(Key(order[i]), Key(order[j]))
    BY <2>2 DEF Sorted
  <2> QED
    BY <2>3, Zenon DEF IsOrder, Lower
<1> HIDE DEF order
<1>3. order \in [1..n -> rs] /\ DOMAIN order = 1..n
  BY <1>2 DEF IsOrder
<1>4. Head(order) = order[1] /\ 1 \in 1..n
  BY <1>1, <1>3
<1>5. ASSUME NEW row \in rs, row # order[1]
      PROVE  Lower(order[1], row)
  <2>1. PICK i \in 1..n : order[i] = row
    <3> SUFFICES ASSUME \A i \in 1..n : order[i] # row PROVE FALSE
      OBVIOUS
    <3> DEFINE others == rs \ {row}
    <3>1. order \in [1..n -> others]
      BY <1>3
    <3>2. IsFiniteSet(others) /\ Cardinality(others) < n
      BY <1>1, SmallerTable DEF IsTable
    <3>3. IsFiniteSet(1..n) /\ Cardinality(1..n) = n
      BY <1>1, FS_Interval
    <3> HIDE DEF n, others
    <3>4. PICK i, j \in 1..n : i # j /\ order[i] = order[j]
      BY <3>1, <3>2, <3>3, FS_PigeonHole
    <3>5. i < j \/ j < i
      BY <3>4, <1>1
    <3>6. Lower(order[i], order[i])
      BY <1>2, <1>3, <3>4, <3>5 DEF IsOrder
    <3>7. Judgeable(order[i])
      BY <1>3 DEF IsTable
    <3> QED
      BY <3>6, <3>7, KeysAreStrict
  <2>2. 1 < i
    BY <1>5, <2>1
  <2> QED
    BY <1>2, <1>3, <1>4, <2>1, <2>2 DEF IsOrder
<1>6. order[1] \in rs
  BY <1>3, <1>4
<1> QED
  BY <1>4, <1>5, <1>6 DEF order

\* For any table, connection, policy, blocked entries and favourites, and for a switch to
\* any node or to one that is asked for: the candidate is the best row that the
\* connection and the policy allow, and there is none only if no row is allowed
\* (select_candidate_node).
THEOREM TheBestIsTaken ==
    ASSUME NEW table, IsTable(table), NEW connection, NEW policy, NEW blocked,
           NEW favorites, NEW requested
    PROVE  Candidate(table, connection, policy, blocked, favorites, requested)
               = Chosen(table, connection, policy, blocked, favorites, requested)
<1> DEFINE eligible == Eligible(table, connection, policy, blocked, favorites, requested)
           Permitted(node) == /\ requested \in {Unknown, node.id}
                              /\ Suits(node, connection, blocked, favorites)
                              /\ SatisfiesCachedPolicy(node, policy)
           chosen == Chosen(table, connection, policy, blocked, favorites, requested)
<1>1. eligible = {node \in table : Permitted(node)}
  <2>1. ASSUME NEW node \in table
        PROVE  node \in eligible <=> Permitted(node)
    <3>1. node.id # Unknown
      BY UnknownAssumption DEF IsTable, Judgeable
    <3>2. node \in Looked(table, requested) /\ node.available
            <=> requested \in {Unknown, node.id} /\ node.available
      BY <3>1 DEF Looked
    <3>3. (\A entry \in blocked : node.id # entry.node /\ node.hash # entry.hash)
            <=> /\ node.id \notin {entry.node : entry \in blocked}
                /\ node.hash \notin {entry.hash : entry \in blocked}
      OBVIOUS
    <3>4. (/\ connection.mode = "FIXED_COUNTRY" => node.country = connection.country
           /\ connection.mode = "FAVORITES" => node.id \in favorites
           /\ connection.mode # "FIXED_NODE")
            <=> CASE connection.mode = "FIXED_COUNTRY" -> node.country = connection.country
                  [] connection.mode = "FAVORITES" -> node.id \in favorites
                  [] connection.mode = "FIXED_NODE" -> FALSE
                  [] OTHER -> TRUE
      OBVIOUS
    <3> QED
      BY <3>2, <3>3, <3>4 DEF Eligible, Suits
  <2>2. eligible \subseteq table
    BY DEF Eligible, Looked
  <2> QED
    BY <2>1, <2>2
<1>2. chosen = {node \in eligible : ~\E other \in eligible : Better(other, node)}
  BY <1>1 DEF Chosen
<1>3. IsTable(eligible)
  BY <1>1, FS_Subset DEF IsTable
<1>4. requested = Unknown /\ connection.mode = "FIXED_NODE" => eligible = {}
  BY DEF Eligible
<1>5. Candidate(table, connection, policy, blocked, favorites, requested)
        = IF eligible = {} THEN {} ELSE {Head(Sorted(eligible))}
  BY <1>4 DEF Candidate
<1> HIDE DEF eligible, chosen
<1>6. CASE eligible = {}
  BY <1>2, <1>5, <1>6 DEF chosen
<1>7. CASE eligible # {}
  <2> DEFINE first == Head(Sorted(eligible))
  <2>1. first \in eligible /\ \A row \in eligible \ {first} : Lower(first, row)
    BY <1>3, <1>7, FirstIsLeast
  <2> HIDE DEF first
  <2>2. \A row \in eligible : Judgeable(row)
    BY <1>3 DEF IsTable
  <2>3. \A a, b \in eligible : Better(a, b) <=> Lower(a, b)
    BY <2>2, KeyIsOrder DEF Lower
  <2>4. \A row \in eligible : ~Lower(row, first)
    BY <2>1, <2>2, KeysAreStrict
  <2>5. chosen = {first}
    BY <1>2, <2>1, <2>3, <2>4
  <2> QED
    BY <1>5, <1>7, <2>5 DEF first, chosen
<1> QED
  BY <1>6, <1>7

\* The rows that the run tries are tables.
LEMMA TablesOfRun ==
    ASSUME NEW a \in Candidates(1), NEW b \in Candidates(2)
    PROVE  IsTable({a, b, Current})
<1>1. a.id = 1 /\ b.id = 2 /\ Current.id = 3
  BY DEF Candidates, Current
<1>2. NoPing \in Int /\ 2 < NoPing
  BY SMTT(5) DEF NoPing
<1>3. Judgeable(a)
  <2>1. /\ a.failures \in 0..1 /\ a.ping \in {Unknown, 1, 2}
        /\ a.speed \in {Unknown, 5} /\ a.score \in {Unknown, 0, 7}
    BY DEF Candidates
  <2> QED
    BY <1>1, <1>2, <2>1 DEF Judgeable, Quantity
<1>4. Judgeable(b)
  <2>1. /\ b.failures \in 0..1 /\ b.ping \in {Unknown, 1, 2}
        /\ b.speed \in {Unknown, 5} /\ b.score \in {Unknown, 0, 7}
    BY DEF Candidates
  <2> QED
    BY <1>1, <1>2, <2>1 DEF Judgeable, Quantity
<1>5. Judgeable(Current)
  <2>1. Current.failures = 0 /\ Current.ping = 1 /\ Current.speed = 9 /\ Current.score = 9
    BY DEF Current
  <2> QED
    BY <1>1, <1>2, <2>1 DEF Judgeable, Quantity
<1>6. IsFiniteSet({a, b, Current})
  <2>1. {a, b, Current} = ({a} \cup {b}) \cup {Current}
    OBVIOUS
  <2>2. IsFiniteSet({a} \cup {b})
    BY FS_Singleton, FS_AddElement
  <2> QED
    BY <2>1, <2>2, FS_AddElement
<1> QED
  BY <1>1, <1>3, <1>4, <1>5, <1>6 DEF IsTable

\* The catalogue with an input beside it is the catalogue.
LEMMA RunIsCatalogue == MCSpec => Spec
<1>1. MCInit => Init
  BY DEF MCInit
<1>2. [MCNext]_<<vars, input>> => [Next]_vars
  BY DEF MCNext
<1> QED
  BY <1>1, <1>2, PTL DEF MCSpec, Spec

\* The run's own statement of TheBestIsTaken.
THEOREM CandidatesAreBest == MCSpec => []CandidateIsBest
<1> DEFINE Tables == \A table \in input.tables : IsTable(table)
<1>1. MCInit => Tables
  BY TablesOfRun DEF MCInit, NoInput, Input
<1>2. Tables /\ [MCNext]_<<vars, input>> => Tables'
  BY DEF MCNext
<1>3. Tables => CandidateIsBest
  BY TheBestIsTaken DEF CandidateIsBest
<1> HIDE DEF Tables
<1> QED
  BY <1>1, <1>2, <1>3, PTL DEF MCSpec

-----------------------------------------------------------------------------
\* The configurations: a text is read twice.

\* The three folds of OpenVPNConfig take this step at a line.
FoldStep(fold, s, line, expected) ==
    IF fold = "sum" THEN s + line.size + 1
    ELSE IF fold = "scan" THEN Scan(s, line) ELSE Read(s, line, expected)

\* g has the value of such a fold for any set of the lines.
Solves(g, fold, base, lines, expected) ==
    g = [s \in SUBSET DOMAIN lines |->
            IF s = {} THEN base
            ELSE FoldStep(fold, g[s \ {Max(s)}], lines[Max(s)], expected)]

Folded(fold, base, lines, expected) ==
    (CHOOSE g : Solves(g, fold, base, lines, expected))[DOMAIN lines]

\* The folds of Sanitize, Stored and Bytes.
Reading(lines, expected) ==
    FoldLeft(LAMBDA s, line : Read(s, line, expected), Empty, lines)
Scanning(lines) == FoldLeft(Scan, [block |-> "none", ips |-> <<>>], lines)
Sum(base, lines) == FoldLeft(LAMBDA sum, line : sum + line.size + 1, base, lines)

\* The fold of Sanitize takes that step.
LEMMA ReadingIsFold ==
    ASSUME NEW lines, NEW expected
    PROVE  Reading(lines, expected) = Folded("read", Empty, lines, expected)
<1>1. \A s, line : FoldStep("read", s, line, expected) = Read(s, line, expected)
  BY DEF FoldStep
<1> DEFINE Plain(g) == g = [s \in SUBSET DOMAIN lines |->
                             IF s = {} THEN Empty
                             ELSE Read(g[s \ {Max(s)}], lines[Max(s)], expected)]
<1>2. \A g : Solves(g, "read", Empty, lines, expected) <=> Plain(g)
  BY <1>1 DEF Solves
<1>3. (CHOOSE g : Solves(g, "read", Empty, lines, expected)) = CHOOSE g : Plain(g)
  <2> HIDE DEF Plain
  <2> QED
    BY <1>2
<1>4. Reading(lines, expected) = (CHOOSE g : Plain(g))[DOMAIN lines]
  BY Zenon DEF Reading, FoldLeft, MapThenFoldSet
<1> HIDE DEF Plain
<1> QED
  BY <1>3, <1>4 DEF Folded

\* The fold of Stored takes that step.
LEMMA ScanningIsFold ==
    ASSUME NEW lines
    PROVE  Scanning(lines) =
               Folded("scan", [block |-> "none", ips |-> <<>>], lines, "none")
<1> DEFINE base == [block |-> "none", ips |-> <<>>]
<1>1. \A s, line : FoldStep("scan", s, line, "none") = Scan(s, line)
  BY DEF FoldStep
<1> DEFINE Plain(g) == g = [s \in SUBSET DOMAIN lines |->
                             IF s = {} THEN base
                             ELSE Scan(g[s \ {Max(s)}], lines[Max(s)])]
<1>4. Scanning(lines) = (CHOOSE g : Plain(g))[DOMAIN lines]
  BY Zenon DEF Scanning, FoldLeft, MapThenFoldSet
<1> HIDE DEF base
<1>2. \A g : Solves(g, "scan", base, lines, "none") <=> Plain(g)
  BY <1>1 DEF Solves
<1>3. (CHOOSE g : Solves(g, "scan", base, lines, "none")) = CHOOSE g : Plain(g)
  <2> HIDE DEF Plain
  <2> QED
    BY <1>2
<1> HIDE DEF Plain
<1>5. Scanning(lines) = Folded("scan", base, lines, "none")
  BY <1>3, <1>4 DEF Folded
<1> QED
  BY <1>5 DEF base

\* The fold of Bytes takes that step.
LEMMA SumIsFold ==
    ASSUME NEW lines, NEW base
    PROVE  Sum(base, lines) = Folded("sum", base, lines, "none")
<1>1. \A s, line : FoldStep("sum", s, line, "none") = s + line.size + 1
  BY DEF FoldStep
<1> DEFINE Plain(g) == g = [s \in SUBSET DOMAIN lines |->
                             IF s = {} THEN base
                             ELSE g[s \ {Max(s)}] + lines[Max(s)].size + 1]
<1>2. \A g : Solves(g, "sum", base, lines, "none") <=> Plain(g)
  BY <1>1 DEF Solves
<1>3. (CHOOSE g : Solves(g, "sum", base, lines, "none")) = CHOOSE g : Plain(g)
  <2> HIDE DEF Plain
  <2> QED
    BY <1>2
<1>4. Sum(base, lines) = (CHOOSE g : Plain(g))[DOMAIN lines]
  BY Zenon DEF Sum, FoldLeft, MapThenFoldSet
<1> HIDE DEF Plain
<1> QED
  BY <1>3, <1>4 DEF Folded

\* The greatest of some of the first k positions.
LEMMA GreatestPosition ==
    ASSUME NEW k \in Nat, NEW s \in SUBSET (1..k), s # {}
    PROVE  /\ Max(s) \in s /\ k # 0
           /\ s \ {Max(s)} \in SUBSET (1..(k - 1))
<1> DEFINE N == {k - i : i \in s}
<1>1. \A i \in s : i \in Int /\ 1 <= i /\ i <= k
  OBVIOUS
<1>2. N \in SUBSET Nat
  BY <1>1
<1>3. N # {}
  OBVIOUS
<1>4. PICK n \in N : \A m \in Nat : m < n => m \notin N
  BY <1>2, <1>3, LeastNumber
<1>5. PICK x \in s : n = k - x
  BY <1>4
<1>6. ASSUME NEW y \in s PROVE x >= y
  <2>1. k - y \in N /\ k - y \in Nat
    BY <1>1
  <2>2. ~(k - y < k - x)
    BY <1>4, <1>5, <2>1
  <2> QED
    BY <1>1, <2>2
<1>7. Max(s) \in s /\ \A y \in s : Max(s) >= y
  BY <1>6, Zenon DEF Max
<1> HIDE DEF N
<1>8. PICK m : m = Max(s)
  OBVIOUS
<1>9. m \in s /\ \A y \in s : m >= y
  BY <1>7, <1>8
<1>10. s \ {m} \in SUBSET (1..(k - 1)) /\ k # 0
  BY <1>1, <1>9
<1> QED
  BY <1>8, <1>9, <1>10

\* The greatest of the first positions is the last one.
LEMMA GreatestOfAll ==
    ASSUME NEW k \in Nat
    PROVE  Max(1..(k + 1)) = k + 1 /\ (1..(k + 1)) \ {Max(1..(k + 1))} = 1..k
<1>1. k + 1 \in 1..(k + 1) /\ \A y \in 1..(k + 1) : k + 1 >= y
  OBVIOUS
<1>2. Max(1..(k + 1)) \in 1..(k + 1) /\ \A y \in 1..(k + 1) : Max(1..(k + 1)) >= y
  BY <1>1, Zenon DEF Max
<1>3. Max(1..(k + 1)) = k + 1
  BY <1>1, <1>2
<1> QED
  BY <1>3

\* There is such a fold.
LEMMA SomeFold ==
    ASSUME NEW fold, NEW base, NEW lines, NEW expected,
           NEW n \in Nat, DOMAIN lines = 1..n
    PROVE  \E g : Solves(g, fold, base, lines, expected)
<1> DEFINE Value(g, s) == IF s = {} THEN base
                          ELSE FoldStep(fold, g[s \ {Max(s)}], lines[Max(s)], expected)
           Upto(g, k) == g = [s \in SUBSET (1..k) |-> Value(g, s)]
           N == {k \in Nat : ~\E g : Upto(g, k)}
<1>1. ASSUME N # {} PROVE FALSE
  <2>1. PICK k \in N : \A m \in Nat : m < k => m \notin N
    BY <1>1, LeastNumber
  <2>2. k \in Nat /\ ~\E g : Upto(g, k)
    OBVIOUS
  <2>3. CASE k = 0
    <3> DEFINE g == [s \in SUBSET (1..0) |-> base]
    <3>1. \A s \in SUBSET (1..0) : s = {}
      OBVIOUS
    <3>2. g = [s \in SUBSET (1..0) |-> Value(g, s)]
      BY <3>1
    <3> QED
      BY <2>2, <2>3, <3>2
  <2>4. CASE k # 0
    <3>1. k - 1 \in Nat /\ k - 1 < k
      BY <2>2, <2>4
    <3>2. PICK f : Upto(f, k - 1)
      BY <2>1, <3>1
    <3> DEFINE g == [s \in SUBSET (1..k) |-> Value(f, s)]
    <3>3. \A s \in SUBSET (1..(k - 1)) : s \in SUBSET (1..k) /\ f[s] = Value(f, s)
      <4>1. 1..(k - 1) \subseteq 1..k
        BY <2>2
      <4> HIDE DEF Value
      <4> QED
        BY <3>2, <4>1
    <3>4. \A s \in SUBSET (1..(k - 1)) : g[s] = f[s]
      <4> HIDE DEF Value
      <4> QED
        BY <3>3
    <3>5. ASSUME NEW s \in SUBSET (1..k) PROVE Value(f, s) = Value(g, s)
      <4>1. CASE s = {}
        BY <4>1
      <4>2. CASE s # {}
        <5>1. s \ {Max(s)} \in SUBSET (1..(k - 1))
          BY <2>2, <4>2, GreatestPosition
        <5>2. g[s \ {Max(s)}] = f[s \ {Max(s)}]
          BY <3>4, <5>1
        <5> HIDE DEF g
        <5> QED
          BY <4>2, <5>2
      <4> QED
        BY <4>1, <4>2
    <3>6. Upto(g, k)
      <4> HIDE DEF Value
      <4>1. g = [s \in SUBSET (1..k) |-> Value(g, s)]
        BY <3>5
      <4> QED
        BY <4>1
    <3> QED
      BY <2>2, <3>6
  <2> QED
    BY <2>3, <2>4
<1>2. PICK g : Upto(g, n)
  BY <1>1
<1> QED
  BY <1>2 DEF Solves

\* g takes the step at each of the first n lines.
Tracks(g, fold, base, lines, expected, n) ==
    /\ g[1..0] = base
    /\ \A i \in 0..(n - 1) :
          g[1..(i + 1)] = FoldStep(fold, g[1..i], lines[i + 1], expected)

\* A fold follows its step, line by line.
LEMMA FoldFollows ==
    ASSUME NEW fold, NEW base, NEW lines, NEW expected,
           NEW n \in Nat, DOMAIN lines = 1..n,
           NEW g, Solves(g, fold, base, lines, expected)
    PROVE  Tracks(g, fold, base, lines, expected, n)
<1> DEFINE Value(s) == IF s = {} THEN base
                       ELSE FoldStep(fold, g[s \ {Max(s)}], lines[Max(s)], expected)
<1>1. g = [s \in SUBSET (1..n) |-> Value(s)]
  BY DEF Solves
<1>2. ASSUME NEW s \in SUBSET (1..n) PROVE g[s] = Value(s)
  <2> HIDE DEF Value
  <2> QED
    BY <1>1
<1>3. g[1..0] = base
  <2>1. 1..0 \in SUBSET (1..n) /\ 1..0 = {}
    OBVIOUS
  <2> QED
    BY <1>2, <2>1
<1>4. ASSUME NEW i \in 0..(n - 1)
      PROVE  g[1..(i + 1)] = FoldStep(fold, g[1..i], lines[i + 1], expected)
  <2>1. 1..(i + 1) \in SUBSET (1..n) /\ 1..(i + 1) # {} /\ i \in Nat
    <3>1. i \in Nat /\ i + 1 <= n /\ 1 \in 1..(i + 1)
      OBVIOUS
    <3> QED
      BY <3>1
  <2>2. Max(1..(i + 1)) = i + 1 /\ (1..(i + 1)) \ {Max(1..(i + 1))} = 1..i
    BY <2>1, GreatestOfAll
  <2>3. g[1..(i + 1)] = Value(1..(i + 1))
    BY <1>2, <2>1
  <2> HIDE DEF Value
  <2>4. Value(1..(i + 1)) = FoldStep(fold, g[1..i], lines[i + 1], expected)
    BY <2>1, <2>2 DEF Value
  <2> QED
    BY <2>3, <2>4
<1> QED
  BY <1>3, <1>4 DEF Tracks

\* What is folded is one of these.
LEMMA FoldedIs ==
    ASSUME NEW fold, NEW base, NEW lines, NEW expected,
           NEW n \in Nat, DOMAIN lines = 1..n
    PROVE  \E g : /\ Solves(g, fold, base, lines, expected)
                  /\ Folded(fold, base, lines, expected) = g[1..n]
<1> DEFINE g == CHOOSE g : Solves(g, fold, base, lines, expected)
<1>1. Solves(g, fold, base, lines, expected)
  BY SomeFold
<1>2. Folded(fold, base, lines, expected) = g[1..n]
  BY DEF Folded
<1> QED
  BY <1>1, <1>2

\* The fold of no lines.
LEMMA FoldOfNone ==
    ASSUME NEW fold, NEW base, NEW expected
    PROVE  Folded(fold, base, <<>>, expected) = base
<1>1. DOMAIN <<>> = 1..0 /\ 0 \in Nat
  OBVIOUS
<1>2. PICK g : /\ Solves(g, fold, base, <<>>, expected)
               /\ Folded(fold, base, <<>>, expected) = g[1..0]
  BY <1>1, FoldedIs
<1>3. Tracks(g, fold, base, <<>>, expected, 0)
  BY <1>1, <1>2, FoldFollows
<1> QED
  BY <1>2, <1>3 DEF Tracks

\* One line more is one step more.
LEMMA FoldOfAppend ==
    ASSUME NEW fold, NEW base, NEW expected, NEW S, NEW lines \in Seq(S), NEW line \in S
    PROVE  Folded(fold, base, Append(lines, line), expected)
               = FoldStep(fold, Folded(fold, base, lines, expected), line, expected)
<1> DEFINE n == Len(lines)
           more == Append(lines, line)
<1>1. /\ n \in Nat /\ n + 1 \in Nat /\ DOMAIN lines = 1..n /\ DOMAIN more = 1..(n + 1)
      /\ \A i \in 1..n : more[i] = lines[i]
      /\ more[n + 1] = line
  OBVIOUS
<1> HIDE DEF n, more
<1>2. PICK g : /\ Solves(g, fold, base, lines, expected)
               /\ Folded(fold, base, lines, expected) = g[1..n]
  BY <1>1, FoldedIs
<1>3. PICK h : /\ Solves(h, fold, base, more, expected)
               /\ Folded(fold, base, more, expected) = h[1..(n + 1)]
  BY <1>1, FoldedIs
<1>4. /\ g[1..0] = base
      /\ \A i \in 0..(n - 1) :
            g[1..(i + 1)] = FoldStep(fold, g[1..i], lines[i + 1], expected)
  <2>1. Tracks(g, fold, base, lines, expected, n)
    BY <1>1, <1>2, FoldFollows
  <2> QED
    BY <2>1 DEF Tracks
<1>5. /\ h[1..0] = base
      /\ \A i \in 0..((n + 1) - 1) :
            h[1..(i + 1)] = FoldStep(fold, h[1..i], more[i + 1], expected)
  <2>1. Tracks(h, fold, base, more, expected, n + 1)
    BY <1>1, <1>3, FoldFollows
  <2> QED
    BY <2>1 DEF Tracks
<1>6. g[1..n] = h[1..n]
  <2> DEFINE N == {k \in 0..n : g[1..k] # h[1..k]}
  <2>1. ASSUME N # {} PROVE FALSE
    <3>1. N \in SUBSET Nat
      BY <1>1
    <3>2. PICK k \in N : \A m \in Nat : m < k => m \notin N
      BY <2>1, <3>1, LeastNumber
    <3>3. k \in 0..n /\ g[1..k] # h[1..k]
      OBVIOUS
    <3>4. k # 0
      BY <1>4, <1>5, <3>3
    <3>5. k - 1 \in Nat /\ k - 1 < k /\ k - 1 \in 0..n /\ k - 1 \in 0..(n - 1)
          /\ k - 1 \in 0..((n + 1) - 1) /\ (k - 1) + 1 = k /\ k \in 1..n
      BY <1>1, <3>3, <3>4
    <3>6. g[1..(k - 1)] = h[1..(k - 1)]
      BY <3>2, <3>5
    <3>7. g[1..((k - 1) + 1)]
            = FoldStep(fold, g[1..(k - 1)], lines[(k - 1) + 1], expected)
      BY <1>4, <3>5
    <3>8. h[1..((k - 1) + 1)]
            = FoldStep(fold, h[1..(k - 1)], more[(k - 1) + 1], expected)
      BY <1>5, <3>5
    <3> HIDE DEF N
    <3> QED
      BY <1>1, <3>3, <3>5, <3>6, <3>7, <3>8
  <2>2. n \in 0..n
    BY <1>1
  <2> QED
    BY <2>1, <2>2
<1>7. h[1..(n + 1)] = FoldStep(fold, h[1..n], line, expected)
  <2>1. n \in 0..((n + 1) - 1)
    BY <1>1
  <2> QED
    BY <1>1, <1>5, <2>1
<1> QED
  BY <1>2, <1>3, <1>6, <1>7 DEF more

-----------------------------------------------------------------------------
\* One line.

\* The lines with names from N and values from V.  One that is not plain is longer
\* than its canonical form.
Lines(N, V) ==
    {line \in [kind : {"blank", "word", "open", "close", "text"}, name : N, value : V,
               plain : BOOLEAN, size : Nat] : line.plain \/ line.size > 0}

\* What has been read of a text that is not refused.
Readings(N, V) ==
    [ok : {TRUE}, out : Seq(Lines(N, V)), seen : SUBSET N,
     block : InlineBlocks \cup {"none"}, inner : Nat,
     remote : Protocols \cup {"none", "missing"}, proto : Protocols \cup {"missing"}]

\* The second reading has come as far as the first one: it may only have counted
\* fewer bytes in the block.
Mirrors(u, s) ==
    /\ u.out = s.out /\ u.seen = s.seen /\ u.block = s.block
    /\ u.remote = s.remote /\ u.proto = s.proto
    /\ u.inner <= s.inner

\* What a line may do to a reading: nothing, or it is kept in its canonical form.
Closes(s, line, t) ==
    /\ s.block # "none" /\ line.kind = "close" /\ line.name = s.block
    /\ t = [ok |-> TRUE, out |-> Append(s.out, Canonical(line)), seen |-> s.seen,
            block |-> "none", inner |-> s.inner, remote |-> s.remote, proto |-> s.proto]

Fills(s, line, t) ==
    /\ s.block # "none" /\ line.kind \notin {"open", "close"}
    /\ s.inner + line.size + 1 <= MaxInlineBlockBytes
    /\ t = [ok |-> TRUE, out |-> Append(s.out, Canonical(line)), seen |-> s.seen,
            block |-> s.block, inner |-> s.inner + line.size + 1,
            remote |-> s.remote, proto |-> s.proto]

Opens(s, line, t) ==
    /\ s.block = "none" /\ line.kind = "open"
    /\ line.name \in InlineBlocks /\ line.name \notin s.seen
    /\ t = [ok |-> TRUE, out |-> Append(s.out, Canonical(line)),
            seen |-> s.seen \cup {line.name}, block |-> line.name, inner |-> 0,
            remote |-> s.remote, proto |-> s.proto]

Directs(s, line, t, expected) ==
    /\ s.block = "none" /\ line.kind = "word"
    /\ line.name \notin Dangerous \cup s.seen
    /\ line.value \in Allowed(line.name, expected)
    /\ t = [ok |-> TRUE, out |-> Append(s.out, Canonical(line)),
            seen |-> s.seen \cup {line.name}, block |-> s.block, inner |-> s.inner,
            remote |-> IF line.name = "remote" THEN line.value.protocol ELSE s.remote,
            proto |-> IF line.name = "proto" THEN line.value ELSE s.proto]

Keeps(s, line, t, expected) ==
    Closes(s, line, t) \/ Fills(s, line, t) \/ Opens(s, line, t)
        \/ Directs(s, line, t, expected)

\* The canonical form of a line is one, and its own.
LEMMA CanonicalLine ==
    ASSUME NEW N, NEW V, NEW line \in Lines(N, V)
    PROVE  /\ Canonical(line) \in Lines(N, V)
           /\ Canonical(line).kind = line.kind /\ Canonical(line).name = line.name
           /\ Canonical(line).value = line.value
           /\ Canonical(line).size <= line.size
           /\ Canonical(Canonical(line)) = Canonical(line)
<1> DEFINE size == IF line.plain THEN line.size ELSE line.size - 1
           c == [kind |-> line.kind, name |-> line.name, value |-> line.value,
                 plain |-> TRUE, size |-> size]
<1>1. size \in Nat /\ size <= line.size
  BY DEF Lines
<1>2. Canonical(line) = c
  <2>1. line \in [kind : {"blank", "word", "open", "close", "text"}, name : N, value : V,
                 plain : BOOLEAN, size : Nat]
    BY DEF Lines
  <2>2. Canonical(line) = [line EXCEPT !.plain = TRUE, !.size = size]
    BY <2>1 DEF Canonical
  <2> HIDE DEF size
  <2> QED
    BY <2>1, <2>2
<1> HIDE DEF size
<1>3. c \in Lines(N, V)
  BY <1>1 DEF Lines
<1>4. Canonical(c) = c
  BY DEF Canonical
<1> QED
  BY <1>1, <1>2, <1>3, <1>4

\* The values that are allowed.
LEMMA AllowedValues ==
    ASSUME NEW name, NEW expected, NEW value \in Allowed(name, expected)
    PROVE  /\ name \notin InlineBlocks
           /\ name = "proto" => value \in Protocols
           /\ name = "remote" => \E p \in Protocols \cup {"none"} : value = Remote(expected, p)
BY DEF Allowed, InlineBlocks

\* What a remote says.
LEMMA RemoteIs ==
    ASSUME NEW ip, NEW p
    PROVE  Remote(ip, p).ip = ip /\ Remote(ip, p).protocol = p
BY DEF Remote

\* A line that is not refused does one of these.
LEMMA ReadKeeps ==
    ASSUME NEW N, NEW V, NEW expected, NEW s \in Readings(N, V), NEW line \in Lines(N, V),
           Read(s, line, expected).ok
    PROVE  /\ line.size <= MaxLineLength
           /\ \/ Read(s, line, expected) = s
              \/ Keeps(s, line, Read(s, line, expected), expected)
<1>1. s.ok = TRUE /\ Refused.ok = FALSE
  BY DEF Readings, Refused
<1>2. line.size <= MaxLineLength
  BY <1>1, LimitsAssumption DEF Read, Lines
<1>3. CASE s.block # "none"
  <2>1. Read(s, line, expected) = Inside(s, line)
    BY <1>1, <1>2, <1>3, LimitsAssumption DEF Read, Lines
  <2>2. CASE line.kind = "close" /\ line.name = s.block
    <3>1. Inside(s, line) = [s EXCEPT !.out = Append(@, Canonical(line)), !.block = "none"]
      BY <2>2 DEF Inside
    <3>2. Closes(s, line, Inside(s, line))
      BY <1>3, <2>2, <3>1 DEF Closes, Readings
    <3> QED
      BY <1>2, <2>1, <3>2 DEF Keeps
  <2>3. CASE ~(line.kind = "close" /\ line.name = s.block)
    <3>1. ~(line.kind \in {"open", "close"} \/ s.inner + line.size + 1 > MaxInlineBlockBytes)
      BY <1>1, <2>1, <2>3 DEF Inside
    <3>2. Inside(s, line) = [s EXCEPT !.out = Append(@, Canonical(line)),
                                      !.inner = @ + line.size + 1]
      BY <2>3, <3>1 DEF Inside
    <3>3. s.inner + line.size + 1 <= MaxInlineBlockBytes
      BY <3>1, LimitsAssumption DEF Readings, Lines
    <3>4. Fills(s, line, Inside(s, line))
      BY <1>3, <3>1, <3>2, <3>3 DEF Fills, Readings
    <3> QED
      BY <1>2, <2>1, <3>4 DEF Keeps
  <2> QED
    BY <2>2, <2>3
<1>4. CASE s.block = "none"
  <2> DEFINE Outside == CASE line.kind = "blank" -> s
                          [] line.kind = "open" -> Opened(s, line)
                          [] line.kind = "word" -> Directive(s, line, expected)
                          [] OTHER -> Refused
  <2>1. Read(s, line, expected) = Outside
    BY <1>1, <1>2, <1>4, LimitsAssumption DEF Read, Lines
  <2>2. CASE line.kind = "blank"
    <3>1. Outside = s
      BY <2>2
    <3> QED
      BY <1>2, <2>1, <3>1
  <2>3. CASE line.kind = "open"
    <3>1. Outside = Opened(s, line)
      BY <2>3
    <3>2. line.name \in InlineBlocks /\ line.name \notin s.seen
      BY <1>1, <2>1, <3>1 DEF Opened
    <3>3. Opened(s, line) = [s EXCEPT !.out = Append(@, Canonical(line)), !.block = line.name,
                                      !.seen = @ \cup {line.name}, !.inner = 0]
      BY <3>2 DEF Opened
    <3>4. Opens(s, line, Opened(s, line))
      BY <1>4, <2>3, <3>2, <3>3 DEF Opens, Readings
    <3> QED
      BY <1>2, <2>1, <3>1, <3>4 DEF Keeps
  <2>4. CASE line.kind = "word"
    <3>1. Outside = Directive(s, line, expected)
      BY <2>4
    <3>2. line.name \notin Dangerous \cup s.seen /\ line.value \in Allowed(line.name, expected)
      BY <1>1, <2>1, <3>1 DEF Directive
    <3>3. Directive(s, line, expected)
            = [s EXCEPT !.out = Append(@, Canonical(line)),
                        !.seen = @ \cup {line.name},
                        !.remote = IF line.name = "remote" THEN line.value.protocol ELSE @,
                        !.proto = IF line.name = "proto" THEN line.value ELSE @]
      BY <3>2 DEF Directive
    <3>4. Directs(s, line, Directive(s, line, expected), expected)
      BY <1>4, <2>4, <3>2, <3>3 DEF Directs, Readings
    <3> QED
      BY <1>2, <2>1, <3>1, <3>4 DEF Keeps
  <2>5. CASE line.kind \in {"close", "text"}
    <3>1. Outside = Refused
      BY <2>5
    <3> QED
      BY <1>1, <2>1, <3>1
  <2> QED
    BY <2>2, <2>3, <2>4, <2>5 DEF Lines
<1> QED
  BY <1>3, <1>4

\* A refused text stays refused.
LEMMA RefusedStays ==
    ASSUME NEW s, ~s.ok, NEW line, NEW expected
    PROVE  ~Read(s, line, expected).ok
BY DEF Read, Refused

\* What is kept is a reading again.
LEMMA KeepsTyped ==
    ASSUME NEW N, NEW V, NEW expected, NEW s \in Readings(N, V), NEW line \in Lines(N, V),
           NEW t, Keeps(s, line, t, expected)
    PROVE  t \in Readings(N, V) /\ t.out = Append(s.out, Canonical(line))
<1> DEFINE out == Append(s.out, Canonical(line))
<1>1. out \in Seq(Lines(N, V))
  BY CanonicalLine DEF Readings
<1>2. line.name \in N /\ line.size \in Nat
  BY DEF Lines
<1> HIDE DEF out
<1>3. CASE Closes(s, line, t)
  BY <1>1, <1>3 DEF Closes, Readings, out
<1>4. CASE Fills(s, line, t)
  BY <1>1, <1>2, <1>4 DEF Fills, Readings, out
<1>5. CASE Opens(s, line, t)
  BY <1>1, <1>2, <1>5 DEF Opens, Readings, out
<1>6. CASE Directs(s, line, t, expected)
  <2> DEFINE remote == IF line.name = "remote" THEN line.value.protocol ELSE s.remote
             proto == IF line.name = "proto" THEN line.value ELSE s.proto
  <2>1. remote \in Protocols \cup {"none", "missing"}
    BY <1>6, AllowedValues, RemoteIs DEF Directs, Readings
  <2>2. proto \in Protocols \cup {"missing"}
    BY <1>6, AllowedValues DEF Directs, Readings
  <2>3. t = [ok |-> TRUE, out |-> out, seen |-> s.seen \cup {line.name}, block |-> s.block,
             inner |-> s.inner, remote |-> remote, proto |-> proto]
    BY <1>6 DEF Directs, out
  <2> HIDE DEF remote, proto
  <2>4. t \in Readings(N, V) /\ t.out = out
    BY <1>1, <1>2, <2>1, <2>2, <2>3 DEF Readings
  <2> QED
    BY <2>4 DEF out
<1> QED
  BY <1>3, <1>4, <1>5, <1>6 DEF Keeps

\* What a line may do to a reading it does.
LEMMA ReadDoes ==
    ASSUME NEW N, NEW V, NEW expected, NEW s \in Readings(N, V), NEW line \in Lines(N, V),
           line.size <= MaxLineLength, NEW t, Keeps(s, line, t, expected)
    PROVE  Read(s, line, expected) = t
<1>1. s.ok = TRUE /\ ~(line.size > MaxLineLength)
  <2>1. s.ok = TRUE
    BY DEF Readings
  <2>2. line.size \in Nat
    BY DEF Lines
  <2> QED
    BY <2>1, <2>2, LimitsAssumption
<1>2. CASE Closes(s, line, t)
  <2>1. Read(s, line, expected) = Inside(s, line)
    BY <1>1, <1>2 DEF Read, Closes
  <2>2. Inside(s, line) = [s EXCEPT !.out = Append(@, Canonical(line)), !.block = "none"]
    BY <1>2 DEF Inside, Closes
  <2> QED
    BY <1>2, <2>1, <2>2 DEF Closes, Readings
<1>3. CASE Fills(s, line, t)
  <2>1. Read(s, line, expected) = Inside(s, line)
    BY <1>1, <1>3 DEF Read, Fills
  <2>2. ~(s.inner + line.size + 1 > MaxInlineBlockBytes)
    BY <1>3, LimitsAssumption DEF Fills, Readings, Lines
  <2>3. Inside(s, line) = [s EXCEPT !.out = Append(@, Canonical(line)),
                                    !.inner = @ + line.size + 1]
    BY <1>3, <2>2 DEF Inside, Fills
  <2> QED
    BY <1>3, <2>1, <2>3 DEF Fills, Readings
<1>4. CASE Opens(s, line, t)
  <2>1. Read(s, line, expected) = Opened(s, line)
    BY <1>1, <1>4 DEF Read, Opens
  <2>2. Opened(s, line) = [s EXCEPT !.out = Append(@, Canonical(line)), !.block = line.name,
                                    !.seen = @ \cup {line.name}, !.inner = 0]
    BY <1>4 DEF Opened, Opens
  <2> QED
    BY <1>4, <2>1, <2>2 DEF Opens, Readings
<1>5. CASE Directs(s, line, t, expected)
  <2>1. Read(s, line, expected) = Directive(s, line, expected)
    BY <1>1, <1>5 DEF Read, Directs
  <2>2. Directive(s, line, expected)
          = [s EXCEPT !.out = Append(@, Canonical(line)),
                      !.seen = @ \cup {line.name},
                      !.remote = IF line.name = "remote" THEN line.value.protocol ELSE @,
                      !.proto = IF line.name = "proto" THEN line.value ELSE @]
    BY <1>5 DEF Directive, Directs
  <2> QED
    BY <1>5, <2>1, <2>2 DEF Directs, Readings
<1> QED
  BY <1>2, <1>3, <1>4, <1>5 DEF Keeps

\* The second reading follows the first one.
LEMMA MirrorFollows ==
    ASSUME NEW N, NEW V, NEW expected, NEW s \in Readings(N, V), NEW u \in Readings(N, V),
           Mirrors(u, s), NEW line \in Lines(N, V), line.size <= MaxLineLength,
           NEW t, Keeps(s, line, t, expected)
    PROVE  LET v == Read(u, Canonical(line), expected)
           IN  v \in Readings(N, V) /\ Mirrors(v, t)
<1> DEFINE c == Canonical(line)
           out == Append(u.out, c)
<1>1. /\ c \in Lines(N, V) /\ c.kind = line.kind /\ c.name = line.name
      /\ c.value = line.value /\ c.size <= line.size /\ Canonical(c) = c
      /\ line.size \in Nat /\ c.size \in Nat
  BY CanonicalLine DEF Lines
<1>2. u.inner \in Nat /\ s.inner \in Nat /\ u.inner <= s.inner
  BY DEF Mirrors, Readings
<1>3. c.size <= MaxLineLength
  BY <1>1, LimitsAssumption
<1>4. out = Append(s.out, c)
  BY DEF Mirrors
<1> HIDE DEF c, out
<1>5. \E v : Keeps(u, c, v, expected) /\ Mirrors(v, t)
  <2>1. CASE Closes(s, line, t)
    <3> DEFINE v == [ok |-> TRUE, out |-> out, seen |-> u.seen, block |-> "none",
                     inner |-> u.inner, remote |-> u.remote, proto |-> u.proto]
    <3>1. Closes(u, c, v)
      BY <1>1, <2>1 DEF Closes, Mirrors, out
    <3>2. Mirrors(v, t)
      BY <1>2, <1>4, <2>1 DEF Closes, Mirrors, c
    <3> QED
      BY <3>1, <3>2 DEF Keeps
  <2>2. CASE Fills(s, line, t)
    <3> DEFINE v == [ok |-> TRUE, out |-> out, seen |-> u.seen, block |-> u.block,
                     inner |-> u.inner + c.size + 1, remote |-> u.remote, proto |-> u.proto]
    <3>1. u.inner + c.size + 1 <= s.inner + line.size + 1
      BY <1>1, <1>2
    <3>2. u.inner + c.size + 1 <= MaxInlineBlockBytes
      BY <1>1, <1>2, <2>2, <3>1, LimitsAssumption DEF Fills
    <3>3. Fills(u, c, v)
      BY <1>1, <2>2, <3>2 DEF Fills, Mirrors, out
    <3>4. Mirrors(v, t)
      BY <1>4, <2>2, <3>1 DEF Fills, Mirrors, c
    <3> QED
      BY <3>3, <3>4 DEF Keeps
  <2>3. CASE Opens(s, line, t)
    <3> DEFINE v == [ok |-> TRUE, out |-> out, seen |-> u.seen \cup {c.name}, block |-> c.name,
                     inner |-> 0, remote |-> u.remote, proto |-> u.proto]
    <3>1. Opens(u, c, v)
      BY <1>1, <2>3 DEF Opens, Mirrors, out
    <3>2. Mirrors(v, t)
      BY <1>1, <1>4, <2>3 DEF Opens, Mirrors, c
    <3> QED
      BY <3>1, <3>2 DEF Keeps
  <2>4. CASE Directs(s, line, t, expected)
    <3> DEFINE v == [ok |-> TRUE, out |-> out, seen |-> u.seen \cup {c.name}, block |-> u.block,
                     inner |-> u.inner,
                     remote |-> IF c.name = "remote" THEN c.value.protocol ELSE u.remote,
                     proto |-> IF c.name = "proto" THEN c.value ELSE u.proto]
    <3>1. Directs(u, c, v, expected)
      BY <1>1, <2>4 DEF Directs, Mirrors, out
    <3>2. Mirrors(v, t)
      BY <1>1, <1>2, <1>4, <2>4 DEF Directs, Mirrors, c
    <3> QED
      BY <3>1, <3>2 DEF Keeps
  <2> QED
    BY <2>1, <2>2, <2>3, <2>4 DEF Keeps
<1>6. PICK v : Keeps(u, c, v, expected) /\ Mirrors(v, t)
  BY <1>5
<1>7. Read(u, c, expected) = v
  BY <1>1, <1>3, <1>6, ReadDoes
<1>8. v \in Readings(N, V)
  BY <1>1, <1>6, KeepsTyped
<1> QED
  BY <1>6, <1>7, <1>8 DEF c

\* What the search for the remote finds in what has been kept.
Found(s, expected) ==
    [block |-> s.block, ips |-> IF s.remote = "missing" THEN <<>> ELSE <<expected>>]

\* The search goes on as the reading does.
LEMMA ScanFollows ==
    ASSUME NEW N, NEW V, NEW expected, NEW s \in Readings(N, V), NEW line \in Lines(N, V),
           NEW t, Keeps(s, line, t, expected),
           "remote" \in s.seen <=> s.remote # "missing"
    PROVE  Scan(Found(s, expected), Canonical(line)) = Found(t, expected)
<1> DEFINE c == Canonical(line)
           f == Found(s, expected)
           ips == IF s.remote = "missing" THEN <<>> ELSE <<expected>>
<1>1. c.kind = line.kind /\ c.name = line.name /\ c.value = line.value
  BY CanonicalLine
<1>2. f = [block |-> s.block, ips |-> ips]
  BY DEF Found
<1> HIDE DEF c, f
<1>3. CASE Closes(s, line, t)
  <2>1. Scan(f, c) = [f EXCEPT !.block = "none"]
    BY <1>1, <1>2, <1>3 DEF Scan, Closes
  <2>2. t.block = "none" /\ t.remote = s.remote
    BY <1>3 DEF Closes
  <2> QED
    BY <1>2, <2>1, <2>2 DEF Found, c, f
<1>4. CASE Fills(s, line, t)
  <2>1. Scan(f, c) = f
    BY <1>1, <1>2, <1>4 DEF Scan, Fills
  <2>2. t.block = s.block /\ t.remote = s.remote
    BY <1>4 DEF Fills
  <2> QED
    BY <1>2, <2>1, <2>2 DEF Found, c, f
<1>5. CASE Opens(s, line, t)
  <2>1. Scan(f, c) = [f EXCEPT !.block = c.name]
    BY <1>1, <1>2, <1>5 DEF Scan, Opens
  <2>2. t.block = line.name /\ t.remote = s.remote
    BY <1>5 DEF Opens
  <2> QED
    BY <1>1, <1>2, <2>1, <2>2 DEF Found, c, f
<1>6. CASE Directs(s, line, t, expected) /\ line.name # "remote"
  <2>1. Scan(f, c) = f
    BY <1>1, <1>2, <1>6 DEF Scan, Directs
  <2>2. t.block = s.block /\ t.remote = s.remote
    BY <1>6 DEF Directs
  <2> QED
    BY <1>2, <2>1, <2>2 DEF Found, c, f
<1>7. CASE Directs(s, line, t, expected) /\ line.name = "remote"
  <2>1. Scan(f, c) = [f EXCEPT !.ips = Append(@, c.value.ip)]
    BY <1>1, <1>2, <1>7 DEF Scan, Directs
  <2>2. s.remote = "missing"
    BY <1>7 DEF Directs
  <2>3. PICK p \in Protocols \cup {"none"} : line.value = Remote(expected, p)
    BY <1>7, AllowedValues DEF Directs
  <2>4. c.value.ip = expected /\ line.value.protocol = p /\ p # "missing"
    BY <1>1, <2>3, RemoteIs DEF Protocols
  <2>5. t.block = s.block /\ t.remote = p
    BY <1>7, <2>4 DEF Directs
  <2>6. ips = <<>>
    BY <2>2
  <2>7. Append(<<>>, expected) = <<expected>>
    OBVIOUS
  <2>8. Found(t, expected) = [block |-> s.block, ips |-> <<expected>>]
    BY <2>4, <2>5 DEF Found
  <2>9. Scan(f, c) = [block |-> s.block, ips |-> <<expected>>]
    BY <1>2, <2>1, <2>4, <2>6, <2>7
  <2> QED
    BY <2>8, <2>9 DEF c, f
<1> QED
  BY <1>3, <1>4, <1>5, <1>6, <1>7 DEF Keeps

-----------------------------------------------------------------------------
\* The three folds, line by line.

\* The reading of a text, from its first line on.
LEMMA ReadingSteps ==
    ASSUME NEW expected
    PROVE  /\ Reading(<<>>, expected) = Empty
           /\ \A S : \A lines \in Seq(S), line \in S :
                 Reading(Append(lines, line), expected)
                     = Read(Reading(lines, expected), line, expected)
<1>1. \A lines : Reading(lines, expected) = Folded("read", Empty, lines, expected)
  BY ReadingIsFold
<1>2. ASSUME NEW S, NEW lines \in Seq(S), NEW line \in S
      PROVE  Reading(Append(lines, line), expected)
                 = Read(Reading(lines, expected), line, expected)
  <2>1. Folded("read", Empty, Append(lines, line), expected)
          = FoldStep("read", Folded("read", Empty, lines, expected), line, expected)
    BY FoldOfAppend
  <2>2. \A s : FoldStep("read", s, line, expected) = Read(s, line, expected)
    BY DEF FoldStep
  <2> QED
    BY <1>1, <2>1, <2>2
<1>3. Folded("read", Empty, <<>>, expected) = Empty
  BY FoldOfNone
<1> QED
  BY <1>1, <1>2, <1>3

\* The search for the remote.
LEMMA ScanningSteps ==
    /\ Scanning(<<>>) = [block |-> "none", ips |-> <<>>]
    /\ \A S : \A lines \in Seq(S), line \in S :
          Scanning(Append(lines, line)) = Scan(Scanning(lines), line)
<1> DEFINE base == [block |-> "none", ips |-> <<>>]
<1>1. \A lines : Scanning(lines) = Folded("scan", base, lines, "none")
  BY ScanningIsFold
<1> HIDE DEF base
<1>2. ASSUME NEW S, NEW lines \in Seq(S), NEW line \in S
      PROVE  Scanning(Append(lines, line)) = Scan(Scanning(lines), line)
  <2>1. Folded("scan", base, Append(lines, line), "none")
          = FoldStep("scan", Folded("scan", base, lines, "none"), line, "none")
    BY FoldOfAppend
  <2>2. \A s : FoldStep("scan", s, line, "none") = Scan(s, line)
    BY DEF FoldStep
  <2> QED
    BY <1>1, <2>1, <2>2
<1>3. Folded("scan", base, <<>>, "none") = base
  BY FoldOfNone
<1>4. Scanning(<<>>) = base
  BY <1>1, <1>3
<1> QED
  BY <1>2, <1>4 DEF base

\* The sum of the sizes.
LEMMA SumSteps ==
    ASSUME NEW base
    PROVE  /\ Sum(base, <<>>) = base
           /\ \A S : \A lines \in Seq(S), line \in S :
                 Sum(base, Append(lines, line)) = Sum(base, lines) + line.size + 1
<1>1. \A lines : Sum(base, lines) = Folded("sum", base, lines, "none")
  BY SumIsFold
<1>2. ASSUME NEW S, NEW lines \in Seq(S), NEW line \in S
      PROVE  Sum(base, Append(lines, line)) = Sum(base, lines) + line.size + 1
  <2>1. Folded("sum", base, Append(lines, line), "none")
          = FoldStep("sum", Folded("sum", base, lines, "none"), line, "none")
    BY FoldOfAppend
  <2>2. \A s : FoldStep("sum", s, line, "none") = s + line.size + 1
    BY DEF FoldStep
  <2> QED
    BY <1>1, <2>1, <2>2
<1>3. Folded("sum", base, <<>>, "none") = base
  BY FoldOfNone
<1> QED
  BY <1>1, <1>2, <1>3

\* What holds of no line, and of one line more, holds of all texts.
LEMMA EveryText ==
    ASSUME NEW S, NEW T \in SUBSET Seq(S), <<>> \in T,
           \A lines \in T, line \in S : Append(lines, line) \in T
    PROVE  T = Seq(S)
<1> DEFINE N == {Len(lines) : lines \in Seq(S) \ T}
<1>1. ASSUME N # {} PROVE FALSE
  <2>1. N \in SUBSET Nat
    OBVIOUS
  <2>2. PICK n \in N : \A m \in Nat : m < n => m \notin N
    BY <1>1, <2>1, LeastNumber
  <2>3. PICK lines \in Seq(S) \ T : Len(lines) = n
    BY <2>2
  <2>4. lines # <<>>
    BY <2>3
  <2> DEFINE k == Len(lines) - 1
             front == [i \in 1..k |-> lines[i]]
             last == lines[Len(lines)]
  <2>5. /\ front \in Seq(S) /\ last \in S /\ Len(front) = Len(lines) - 1
        /\ Append(front, last) = lines
    <3>1. /\ Len(lines) \in Nat /\ k \in Nat /\ Len(lines) = k + 1
          /\ \A i \in 1..Len(lines) : lines[i] \in S
      <4>1. lines \in Seq(S)
        OBVIOUS
      <4>2. Len(lines) \in Nat \ {0}
        BY <2>4, <4>1, EmptySeq
      <4> HIDE DEF N
      <4> QED
        BY <4>1, <4>2
    <3> HIDE DEF k
    <3>2. front \in Seq(S) /\ Len(front) = k /\ last \in S
      BY <3>1
    <3>3. /\ Append(front, last) \in Seq(S) /\ Len(Append(front, last)) = k + 1
          /\ \A i \in 1..(k + 1) : Append(front, last)[i] = lines[i]
      BY <3>1, <3>2
    <3>4. Append(front, last) = lines
      BY <3>1, <3>3, SeqEqual
    <3> QED
      BY <3>1, <3>2, <3>4
  <2> HIDE DEF front, last, N
  <2>6. Len(front) \in Nat /\ Len(front) < n
    BY <2>3, <2>5
  <2>7. front \in T
    BY <2>2, <2>5, <2>6 DEF N
  <2> QED
    BY <2>3, <2>5, <2>7
<1> QED
  BY <1>1

-----------------------------------------------------------------------------
\* The shape of what has been kept.

ClosedAt(lines, i) ==
    \E j \in DOMAIN lines :
        /\ i < j /\ lines[j].kind = "close" /\ lines[j].name = lines[i].name
        /\ \A k \in (i + 1)..(j - 1) : lines[k].kind \notin {"open", "close"}

\* The last block is still open.
OpenAt(lines, i, block) ==
    /\ block = lines[i].name /\ block # "none"
    /\ \A k \in (i + 1)..Len(lines) : lines[k].kind \notin {"open", "close"}

\* Each block is closed, or it is the one that is being read.
BlocksKept(s) ==
    /\ InBlock(s.out, Len(s.out) + 1) <=> s.block # "none"
    /\ \A i \in DOMAIN s.out :
          s.out[i].kind = "open" => ClosedAt(s.out, i) \/ OpenAt(s.out, i, s.block)

\* A directive that is kept has been seen, once, and is none that runs a program.
WordsKept(s) ==
    /\ \A i \in Words(s.out) :
          s.out[i].name \in s.seen /\ s.out[i].name \notin InlineBlocks \cup Dangerous
    /\ \A i, j \in Words(s.out) : s.out[i].name = s.out[j].name => i = j

\* What has been seen is kept.
SeenKept(s) ==
    \A x \in s.seen :
        \/ x \in InlineBlocks /\ \E i \in DOMAIN s.out : s.out[i].kind = "open" /\ s.out[i].name = x
        \/ x \notin InlineBlocks /\ \E i \in Words(s.out) : s.out[i].name = x

\* The remote and the protocol that are remembered are those of the text.
ValuesKept(s, expected) ==
    /\ "remote" \in s.seen <=> s.remote # "missing"
    /\ "proto" \in s.seen <=> s.proto # "missing"
    /\ \A i \in Words(s.out) :
          /\ s.out[i].name = "remote" =>
                s.remote # "missing" /\ s.out[i].value = Remote(expected, s.remote)
          /\ s.out[i].name = "proto" => s.proto # "missing" /\ s.out[i].value = s.proto

Shape(s, expected) ==
    BlocksKept(s) /\ WordsKept(s) /\ SeenKept(s) /\ ValuesKept(s, expected)

\* One line more.
LEMMA OneLineMore ==
    ASSUME NEW S, NEW o \in Seq(S), NEW c \in S
    PROVE  LET n == Len(o)
               more == Append(o, c)
           IN  /\ n \in Nat /\ DOMAIN o = 1..n /\ Len(more) = n + 1 /\ DOMAIN more = 1..(n + 1)
               /\ \A i \in 1..n : more[i] = o[i]
               /\ more[n + 1] = c
               /\ InBlock(more, n + 2) <=>
                     c.kind = "open" \/ (InBlock(o, n + 1) /\ c.kind # "close")
               /\ Words(more) = Words(o) \cup (IF c.kind = "word" /\ ~InBlock(o, n + 1)
                                               THEN {n + 1} ELSE {})
<1> DEFINE n == Len(o)
           more == Append(o, c)
<1>1. /\ n \in Nat /\ DOMAIN o = 1..n /\ Len(more) = n + 1 /\ DOMAIN more = 1..(n + 1)
      /\ \A i \in 1..n : more[i] = o[i]
      /\ more[n + 1] = c
  OBVIOUS
<1> HIDE DEF n, more
<1>2. ASSUME NEW i \in 1..(n + 1) PROVE InBlock(more, i) <=> InBlock(o, i)
  <2>1. \A j \in 1..(i - 1) : j \in 1..n /\ \A k \in j..(i - 1) : k \in 1..n
    BY <1>1
  <2> QED
    BY <1>1, <2>1 DEF InBlock
<1>3. ASSUME c.kind = "open" PROVE InBlock(more, n + 2)
  <2>1. n + 1 \in 1..((n + 2) - 1)
    BY <1>1
  <2>2. \A k \in (n + 1)..((n + 2) - 1) : k = n + 1
    BY <1>1
  <2> QED
    BY <1>1, <1>3, <2>1, <2>2 DEF InBlock
<1>4. ASSUME InBlock(o, n + 1), c.kind # "close" PROVE InBlock(more, n + 2)
  <2>1. PICK j \in 1..((n + 1) - 1) : /\ o[j].kind = "open"
                                      /\ \A k \in j..((n + 1) - 1) : o[k].kind # "close"
    BY <1>4 DEF InBlock
  <2>2. j \in 1..n /\ j \in 1..((n + 2) - 1)
    BY <1>1, <2>1
  <2>3. \A k \in j..((n + 2) - 1) : k = n + 1 \/ (k \in 1..n /\ k \in j..((n + 1) - 1))
    BY <1>1, <2>2
  <2> QED
    BY <1>1, <1>4, <2>1, <2>2, <2>3 DEF InBlock
<1>5. ASSUME InBlock(more, n + 2), c.kind # "open"
      PROVE  InBlock(o, n + 1) /\ c.kind # "close"
  <2>1. PICK j \in 1..((n + 2) - 1) : /\ more[j].kind = "open"
                                      /\ \A k \in j..((n + 2) - 1) : more[k].kind # "close"
    BY <1>5 DEF InBlock
  <2>2. j # n + 1
    BY <1>1, <1>5, <2>1
  <2>3. j \in 1..n /\ j \in 1..((n + 1) - 1) /\ n + 1 \in j..((n + 2) - 1)
    BY <1>1, <2>1, <2>2
  <2>4. \A k \in j..((n + 1) - 1) : k \in 1..n /\ k \in j..((n + 2) - 1)
    BY <1>1, <2>3
  <2> QED
    BY <1>1, <2>1, <2>3, <2>4 DEF InBlock
<1>6. Words(more) = Words(o) \cup (IF c.kind = "word" /\ ~InBlock(o, n + 1)
                                   THEN {n + 1} ELSE {})
  <2>1. ASSUME NEW i
        PROVE  i \in Words(more) <=>
                  i \in Words(o) \/ (i = n + 1 /\ c.kind = "word" /\ ~InBlock(o, n + 1))
    <3>1. i \in 1..(n + 1) <=> i \in 1..n \/ i = n + 1
      BY <1>1
    <3>2. n + 1 \notin 1..n /\ n + 1 \in 1..(n + 1)
      BY <1>1
    <3>3. \A h \in 1..n : h \in 1..(n + 1)
      BY <1>1
    <3> QED
      BY <1>1, <1>2, <3>1, <3>2, <3>3 DEF Words
  <2> QED
    BY <2>1
<1> QED
  BY <1>1, <1>3, <1>4, <1>5, <1>6 DEF n, more

\* The blocks stay closed.
LEMMA BlocksStay ==
    ASSUME NEW N, NEW V, NEW expected, NEW s \in Readings(N, V), NEW line \in Lines(N, V),
           NEW t, Keeps(s, line, t, expected), BlocksKept(s)
    PROVE  BlocksKept(t)
<1> DEFINE c == Canonical(line)
           o == s.out
           more == Append(o, c)
           n == Len(o)
<1>1. /\ n \in Nat /\ DOMAIN o = 1..n /\ Len(more) = n + 1 /\ DOMAIN more = 1..(n + 1)
      /\ \A i \in 1..n : more[i] = o[i]
      /\ more[n + 1] = c
      /\ InBlock(more, n + 2) <=> c.kind = "open" \/ (InBlock(o, n + 1) /\ c.kind # "close")
  <2>1. o \in Seq(Lines(N, V)) /\ c \in Lines(N, V)
    BY CanonicalLine DEF Readings
  <2> HIDE DEF c, o
  <2> QED
    BY <2>1, OneLineMore
<1>2. c.kind = line.kind /\ c.name = line.name
  BY CanonicalLine
<1>3. t.out = more
  BY KeepsTyped
<1> HIDE DEF c, o, more, n
<1>4. /\ InBlock(o, n + 1) <=> s.block # "none"
      /\ \A i \in 1..n : o[i].kind = "open" => ClosedAt(o, i) \/ OpenAt(o, i, s.block)
  BY <1>1 DEF BlocksKept, o, n
<1>5. ASSUME NEW i \in 1..n, ClosedAt(o, i) PROVE ClosedAt(more, i)
  <2>1. PICK j \in 1..n :
            /\ i < j /\ o[j].kind = "close" /\ o[j].name = o[i].name
            /\ \A k \in (i + 1)..(j - 1) : o[k].kind \notin {"open", "close"}
    BY <1>1, <1>5 DEF ClosedAt
  <2>2. j \in 1..(n + 1) /\ \A k \in (i + 1)..(j - 1) : k \in 1..n
    BY <1>1, <2>1
  <2> QED
    BY <1>1, <2>1, <2>2 DEF ClosedAt
<1>6. ASSUME NEW i \in 1..n, OpenAt(o, i, s.block), c.kind \notin {"open", "close"}
      PROVE  OpenAt(more, i, s.block)
  <2>1. s.block = o[i].name /\ s.block # "none" /\ \A k \in (i + 1)..n : o[k].kind \notin {"open", "close"}
    BY <1>6 DEF OpenAt, n
  <2>2. \A k \in (i + 1)..(n + 1) : k = n + 1 \/ (k \in 1..n /\ k \in (i + 1)..n)
    BY <1>1
  <2> QED
    BY <1>1, <1>6, <2>1, <2>2 DEF OpenAt
<1>7. ASSUME NEW i \in 1..n, OpenAt(o, i, s.block), c.kind = "close", c.name = s.block
      PROVE  ClosedAt(more, i)
  <2>1. s.block = o[i].name /\ s.block # "none" /\ \A k \in (i + 1)..n : o[k].kind \notin {"open", "close"}
    BY <1>7 DEF OpenAt, n
  <2>2. /\ n + 1 \in 1..(n + 1) /\ i < n + 1 /\ (n + 1) - 1 = n
        /\ \A k \in (i + 1)..n : k \in 1..n
    BY <1>1
  <2> QED
    BY <1>1, <1>7, <2>1, <2>2 DEF ClosedAt
<1>8. ASSUME c.name # "none" PROVE OpenAt(more, n + 1, c.name)
  <2>1. \A k \in ((n + 1) + 1)..(n + 1) : FALSE
    BY <1>1
  <2> QED
    BY <1>1, <1>8, <2>1 DEF OpenAt
<1>9. /\ \A i \in DOMAIN more : i \in 1..n \/ i = n + 1
      /\ Len(more) + 1 = n + 2
  BY <1>1
<1>10. SUFFICES
          /\ InBlock(more, n + 2) <=> t.block # "none"
          /\ \A i \in 1..n : o[i].kind = "open" =>
                ClosedAt(more, i) \/ OpenAt(more, i, t.block)
          /\ c.kind = "open" => OpenAt(more, n + 1, t.block)
  BY <1>1, <1>3, <1>9 DEF BlocksKept
<1>11. CASE Closes(s, line, t)
  <2>1. c.kind = "close" /\ c.name = s.block /\ t.block = "none"
    BY <1>2, <1>11 DEF Closes
  <2> QED
    BY <1>1, <1>4, <1>5, <1>7, <2>1
<1>12. CASE Fills(s, line, t)
  <2>1. c.kind \notin {"open", "close"} /\ s.block # "none" /\ t.block = s.block
    BY <1>2, <1>12 DEF Fills
  <2> QED
    BY <1>1, <1>4, <1>5, <1>6, <2>1
<1>13. CASE Opens(s, line, t)
  <2>1. c.kind = "open" /\ c.name # "none" /\ s.block = "none" /\ t.block = c.name
    BY <1>2, <1>13 DEF Opens, InlineBlocks
  <2>2. \A i \in 1..n : ~OpenAt(o, i, s.block)
    BY <2>1 DEF OpenAt
  <2> QED
    BY <1>1, <1>4, <1>5, <1>8, <2>1, <2>2
<1>14. CASE Directs(s, line, t, expected)
  <2>1. c.kind = "word" /\ s.block = "none" /\ t.block = "none"
    BY <1>2, <1>14 DEF Directs
  <2>2. \A i \in 1..n : ~OpenAt(o, i, s.block)
    BY <2>1 DEF OpenAt
  <2> QED
    BY <1>1, <1>4, <1>5, <2>1, <2>2
<1> QED
  BY <1>11, <1>12, <1>13, <1>14 DEF Keeps

\* The directives stay known, and as they were.
LEMMA WordsStay ==
    ASSUME NEW N, NEW V, NEW expected, NEW s \in Readings(N, V), NEW line \in Lines(N, V),
           NEW t, Keeps(s, line, t, expected), Shape(s, expected)
    PROVE  WordsKept(t) /\ SeenKept(t) /\ ValuesKept(t, expected)
<1> DEFINE c == Canonical(line)
           o == s.out
           more == Append(o, c)
           n == Len(o)
<1>1. /\ n \in Nat /\ DOMAIN o = 1..n /\ DOMAIN more = 1..(n + 1)
      /\ \A i \in 1..n : more[i] = o[i]
      /\ more[n + 1] = c
      /\ Words(more) = Words(o) \cup (IF c.kind = "word" /\ ~InBlock(o, n + 1)
                                      THEN {n + 1} ELSE {})
  <2>1. o \in Seq(Lines(N, V)) /\ c \in Lines(N, V)
    BY CanonicalLine DEF Readings
  <2> HIDE DEF c, o
  <2> QED
    BY <2>1, OneLineMore
<1>2. c.kind = line.kind /\ c.name = line.name /\ c.value = line.value
  BY CanonicalLine
<1>3. t.out = more
  BY KeepsTyped
<1> HIDE DEF c, o, more, n
<1>4. InBlock(o, n + 1) <=> s.block # "none"
  BY DEF Shape, BlocksKept, o, n
<1>5. /\ \A i \in Words(o) : i \in 1..n /\ i # n + 1 /\ i \in Words(more) /\ more[i] = o[i]
      /\ \A i \in 1..n : i \in 1..(n + 1)
      /\ n + 1 \in 1..(n + 1)
  BY <1>1 DEF Words
<1>6. /\ \A i \in Words(o) :
            o[i].name \in s.seen /\ o[i].name \notin InlineBlocks \cup Dangerous
      /\ \A i, j \in Words(o) : o[i].name = o[j].name => i = j
  BY DEF Shape, WordsKept, o
<1>7. \A x \in s.seen :
         \/ /\ x \in InlineBlocks
            /\ \E i \in 1..n : o[i].kind = "open" /\ o[i].name = x
         \/ x \notin InlineBlocks /\ \E i \in Words(o) : o[i].name = x
  BY <1>1 DEF Shape, SeenKept, o
<1>8. /\ "remote" \in s.seen <=> s.remote # "missing"
      /\ "proto" \in s.seen <=> s.proto # "missing"
      /\ \A i \in Words(o) :
            /\ o[i].name = "remote" =>
                  s.remote # "missing" /\ o[i].value = Remote(expected, s.remote)
            /\ o[i].name = "proto" => s.proto # "missing" /\ o[i].value = s.proto
  BY DEF Shape, ValuesKept, o
<1>9. CASE /\ Words(more) = Words(o) /\ s.seen \subseteq t.seen
           /\ \A x \in t.seen \ s.seen : /\ x \in InlineBlocks
                                         /\ c.kind = "open" /\ c.name = x
           /\ t.remote = s.remote /\ t.proto = s.proto
  <2>1. WordsKept(t)
    BY <1>3, <1>5, <1>6, <1>9 DEF WordsKept
  <2>2. SeenKept(t)
    <3> SUFFICES ASSUME NEW x \in t.seen
                 PROVE  \/ /\ x \in InlineBlocks
                           /\ \E i \in 1..(n + 1) : more[i].kind = "open" /\ more[i].name = x
                        \/ x \notin InlineBlocks /\ \E i \in Words(more) : more[i].name = x
      BY <1>1, <1>3 DEF SeenKept
    <3>1. CASE x \in s.seen
      BY <1>1, <1>5, <1>7, <3>1
    <3>2. CASE x \notin s.seen
      BY <1>1, <1>5, <1>9, <3>2
    <3> QED
      BY <3>1, <3>2
  <2>3. ValuesKept(t, expected)
    <3>1. "remote" \notin InlineBlocks /\ "proto" \notin InlineBlocks
      BY DEF InlineBlocks
    <3> QED
      BY <1>3, <1>5, <1>8, <1>9, <3>1 DEF ValuesKept
  <2> QED
    BY <2>1, <2>2, <2>3
<1>10. CASE Closes(s, line, t)
  BY <1>1, <1>2, <1>9, <1>10 DEF Closes
<1>11. CASE Fills(s, line, t)
  BY <1>1, <1>2, <1>4, <1>9, <1>11 DEF Fills
<1>12. CASE Opens(s, line, t)
  BY <1>1, <1>2, <1>9, <1>12 DEF Opens
<1>13. CASE Directs(s, line, t, expected)
  <2>1. /\ Words(more) = Words(o) \cup {n + 1} /\ t.seen = s.seen \cup {c.name}
        /\ c.name \notin Dangerous \cup s.seen /\ c.value \in Allowed(c.name, expected)
        /\ t.remote = IF c.name = "remote" THEN c.value.protocol ELSE s.remote
        /\ t.proto = IF c.name = "proto" THEN c.value ELSE s.proto
    BY <1>1, <1>2, <1>4, <1>13 DEF Directs
  <2>2. c.name \notin InlineBlocks
    BY <2>1, AllowedValues
  <2>3. WordsKept(t)
    BY <1>1, <1>3, <1>5, <1>6, <2>1, <2>2 DEF WordsKept
  <2>4. SeenKept(t)
    <3> SUFFICES ASSUME NEW x \in t.seen
                 PROVE  \/ /\ x \in InlineBlocks
                           /\ \E i \in 1..(n + 1) : more[i].kind = "open" /\ more[i].name = x
                        \/ x \notin InlineBlocks /\ \E i \in Words(more) : more[i].name = x
      BY <1>1, <1>3 DEF SeenKept
    <3>1. CASE x \in s.seen
      BY <1>1, <1>5, <1>7, <3>1
    <3>2. CASE x = c.name
      BY <1>1, <2>1, <2>2, <3>2
    <3> QED
      BY <2>1, <3>1, <3>2
  <2>5. ValuesKept(t, expected)
    <3>1. \A i \in Words(t.out) : (i \in Words(o) /\ t.out[i] = o[i]) \/ t.out[i] = c
      BY <1>1, <1>3, <1>5, <2>1
    <3>2. CASE c.name = "remote"
      <4>1. PICK p \in Protocols \cup {"none"} : c.value = Remote(expected, p)
        BY <2>1, <3>2, AllowedValues
      <4>2. t.remote = p /\ p # "missing" /\ t.proto = s.proto
        BY <2>1, <3>2, <4>1, RemoteIs DEF Protocols
      <4>3. \A i \in Words(o) : o[i].name # "remote"
        BY <1>6, <2>1, <3>2
      <4> QED
        BY <1>8, <2>1, <3>1, <3>2, <4>1, <4>2, <4>3 DEF ValuesKept
    <3>3. CASE c.name = "proto"
      <4>1. c.value \in Protocols
        BY <2>1, <3>3, AllowedValues
      <4>2. t.proto = c.value /\ t.proto # "missing" /\ t.remote = s.remote
        BY <2>1, <3>3, <4>1 DEF Protocols
      <4>3. \A i \in Words(o) : o[i].name # "proto"
        BY <1>6, <2>1, <3>3
      <4> QED
        BY <1>8, <2>1, <3>1, <3>3, <4>2, <4>3 DEF ValuesKept
    <3>4. CASE c.name \notin {"remote", "proto"}
      BY <1>8, <2>1, <3>1, <3>4 DEF ValuesKept
    <3> QED
      BY <3>2, <3>3, <3>4
  <2> QED
    BY <2>3, <2>4, <2>5
<1> QED
  BY <1>10, <1>11, <1>12, <1>13 DEF Keeps

-----------------------------------------------------------------------------
\* All the lines.

\* Before the first line.
LEMMA NothingRead ==
    ASSUME NEW N, NEW V, NEW expected
    PROVE  /\ Empty \in Readings(N, V) /\ Shape(Empty, expected)
           /\ Found(Empty, expected) = [block |-> "none", ips |-> <<>>]
<1>1. Empty \in Readings(N, V)
  BY DEF Empty, Readings
<1>2. /\ Empty.out = <<>> /\ Empty.seen = {} /\ Empty.block = "none"
      /\ Empty.remote = "missing" /\ Empty.proto = "missing"
  BY DEF Empty
<1>3. DOMAIN <<>> = {} /\ Len(<<>>) + 1 = 1 /\ 1..(1 - 1) = {}
  OBVIOUS
<1>4. Words(<<>>) = {} /\ ~InBlock(<<>>, 1)
  BY <1>3 DEF Words, InBlock
<1>5. Shape(Empty, expected)
  BY <1>2, <1>3, <1>4 DEF Shape, BlocksKept, WordsKept, SeenKept, ValuesKept
<1>6. Found(Empty, expected) = [block |-> "none", ips |-> <<>>]
  BY <1>2 DEF Found
<1> QED
  BY <1>1, <1>5, <1>6

\* The bytes of a text, with a newline at its end and without.
Counted(lines) ==
    /\ Sum(0, lines) \in Nat /\ Sum(-1, lines) = Sum(0, lines) - 1
    /\ lines # <<>> => Sum(0, lines) >= 1

\* Any text is counted so.
LEMMA AllCounted ==
    ASSUME NEW N, NEW V, NEW lines \in Seq(Lines(N, V))
    PROVE  Counted(lines)
<1> DEFINE S == Lines(N, V)
           T == {q \in Seq(S) : Counted(q)}
<1>1. \A line \in S : line.size \in Nat
  BY DEF Lines
<1>0. ASSUME NEW base, NEW q \in Seq(S), NEW line \in S
      PROVE  Sum(base, Append(q, line)) = Sum(base, q) + line.size + 1
  <2> HIDE DEF S
  <2>1. \A R : \A p \in Seq(R), l \in R : Sum(base, Append(p, l)) = Sum(base, p) + l.size + 1
    BY SumSteps
  <2> QED
    BY <2>1, Zenon
<1> HIDE DEF S
<1>2. <<>> \in T
  <2>1. Sum(0, <<>>) = 0 /\ Sum(-1, <<>>) = -1
    BY SumSteps
  <2> QED
    BY <2>1 DEF Counted
<1>3. ASSUME NEW q \in T, NEW line \in S PROVE Append(q, line) \in T
  <2>1. q \in Seq(S) /\ Append(q, line) \in Seq(S)
    OBVIOUS
  <2>2. /\ Sum(0, Append(q, line)) = Sum(0, q) + line.size + 1
        /\ Sum(-1, Append(q, line)) = Sum(-1, q) + line.size + 1
    BY <1>0, <2>1, Zenon
  <2>3. Sum(0, q) \in Nat /\ Sum(-1, q) = Sum(0, q) - 1 /\ line.size \in Nat
    BY <1>1 DEF Counted
  <2>4. Counted(Append(q, line))
    BY <2>2, <2>3 DEF Counted
  <2> QED
    BY <2>1, <2>4
<1>4. T = Seq(S)
  <2> HIDE DEF T
  <2>1. T \in SUBSET Seq(S)
    BY DEF T
  <2> QED
    BY <1>2, <1>3, <2>1, EveryText
<1> QED
  BY <1>4 DEF S

\* A text that is not refused is kept, well-shaped, in a text that is no longer; and
\* what is kept is read again to the same text.
ReadWell(q, N, V, expected) ==
    LET s == Reading(q, expected)
        u == Reading(s.out, expected)
    IN  /\ s \in Readings(N, V) /\ Shape(s, expected)
        /\ u \in Readings(N, V) /\ Mirrors(u, s)
        /\ Sum(0, s.out) <= Sum(0, q)
        /\ Scanning(s.out) = Found(s, expected)

\* Any text is read so.
LEMMA AllReadWell ==
    ASSUME NEW N, NEW V, NEW expected, NEW lines \in Seq(Lines(N, V)),
           Reading(lines, expected).ok
    PROVE  ReadWell(lines, N, V, expected)
<1> DEFINE S == Lines(N, V)
           T == {q \in Seq(S) : Reading(q, expected).ok => ReadWell(q, N, V, expected)}
<1>0. ASSUME NEW base, NEW q \in Seq(S), NEW line \in S
      PROVE  Sum(base, Append(q, line)) = Sum(base, q) + line.size + 1
  <2> HIDE DEF S
  <2>1. \A R : \A p \in Seq(R), l \in R : Sum(base, Append(p, l)) = Sum(base, p) + l.size + 1
    BY SumSteps
  <2> QED
    BY <2>1, Zenon
<1>1. <<>> \in T
  <2>1. Reading(<<>>, expected) = Empty /\ Empty.out = <<>>
    BY ReadingSteps DEF Empty
  <2>2. Mirrors(Empty, Empty)
    BY DEF Mirrors, Empty
  <2>3. Sum(0, <<>>) = 0 /\ Scanning(<<>>) = [block |-> "none", ips |-> <<>>]
    BY SumSteps, ScanningSteps
  <2>4. ReadWell(<<>>, N, V, expected)
    BY <2>1, <2>2, <2>3, NothingRead DEF ReadWell
  <2> QED
    BY <2>4
<1>2. ASSUME NEW q \in T, NEW line \in S PROVE Append(q, line) \in T
  <2> DEFINE s == Reading(q, expected)
             t == Read(s, line, expected)
             c == Canonical(line)
             o == s.out
             u == Reading(o, expected)
             v == Read(u, c, expected)
  <2>1. q \in Seq(S) /\ Append(q, line) \in Seq(S) /\ Append(q, line) # <<>>
    OBVIOUS
  <2>2. Reading(Append(q, line), expected) = t
    BY <2>1, ReadingSteps
  <2> SUFFICES ASSUME t.ok PROVE ReadWell(Append(q, line), N, V, expected)
    BY <2>1, <2>2
  <2>3. s.ok
    BY RefusedStays
  <2>4. /\ s \in Readings(N, V) /\ Shape(s, expected)
        /\ u \in Readings(N, V) /\ Mirrors(u, s)
        /\ Sum(0, o) <= Sum(0, q)
        /\ Scanning(o) = Found(s, expected)
    <3>1. ReadWell(q, N, V, expected)
      BY <2>3
    <3> QED
      BY <3>1 DEF ReadWell
  <2>5. c \in S /\ c.size <= line.size /\ c.size \in Nat /\ line.size \in Nat
    BY CanonicalLine DEF Lines
  <2>6. o \in Seq(S)
    BY <2>4 DEF Readings
  <2>7. Sum(0, Append(q, line)) = Sum(0, q) + line.size + 1
    BY <1>0, <2>1, Zenon
  <2>8. Sum(0, Append(o, c)) = Sum(0, o) + c.size + 1
    BY <1>0, <2>5, <2>6, Zenon
  <2>9. Sum(0, q) \in Nat /\ Sum(0, o) \in Nat
    BY <2>1, <2>6, AllCounted DEF Counted
  <2>10. Reading(Append(o, c), expected) = v
    BY <2>5, <2>6, ReadingSteps
  <2>11. Scanning(Append(o, c)) = Scan(Scanning(o), c)
    BY <2>5, <2>6, ScanningSteps
  <2>12. line.size <= MaxLineLength /\ (t = s \/ Keeps(s, line, t, expected))
    BY <2>4, ReadKeeps
  <2> HIDE DEF S, T, s, t, c, o, u, v
  <2>13. CASE t = s
    <3>1. t.out = o
      BY <2>13 DEF o
    <3>2. Sum(0, o) <= Sum(0, Append(q, line))
      BY <2>4, <2>5, <2>7, <2>9
    <3> QED
      BY <2>2, <2>4, <2>13, <3>1, <3>2 DEF ReadWell, u
  <2>14. CASE Keeps(s, line, t, expected)
    <3>1. t \in Readings(N, V) /\ t.out = Append(o, c)
      BY <2>4, <2>14, KeepsTyped DEF S, o, c
    <3>2. BlocksKept(t)
      BY <2>4, <2>14, BlocksStay DEF Shape, S
    <3>3. WordsKept(t) /\ SeenKept(t) /\ ValuesKept(t, expected)
      BY <2>4, <2>14, WordsStay DEF S
    <3>4. v \in Readings(N, V) /\ Mirrors(v, t)
      BY <2>4, <2>12, <2>14, MirrorFollows DEF S, v, c
    <3>5. Sum(0, Append(o, c)) <= Sum(0, Append(q, line))
      BY <2>4, <2>5, <2>7, <2>8, <2>9
    <3>6. "remote" \in s.seen <=> s.remote # "missing"
      BY <2>4 DEF Shape, ValuesKept
    <3>7. Scan(Found(s, expected), c) = Found(t, expected)
      BY <2>4, <2>14, <3>6, ScanFollows DEF S, c
    <3> QED
      BY <2>2, <2>4, <2>10, <2>11, <3>1, <3>2, <3>3, <3>4, <3>5, <3>7 DEF ReadWell, Shape
  <2> QED
    BY <2>12, <2>13, <2>14
<1>3. T = Seq(S)
  <2> HIDE DEF S, T
  <2>1. T \in SUBSET Seq(S)
    BY DEF T
  <2> QED
    BY <1>1, <1>2, <2>1, EveryText
<1> QED
  BY <1>3

\* As many names as words, if no name comes twice.
LEMMA NamesOnce ==
    ASSUME NEW S, NEW o \in Seq(S),
           \A i, j \in Words(o) : o[i].name = o[j].name => i = j
    PROVE  Cardinality(Names(o)) = Cardinality(Words(o))
<1> DEFINE W == Words(o)
           f == [i \in W |-> o[i].name]
<1>1. IsFiniteSet(W)
  <2>1. Len(o) \in Nat /\ W \in SUBSET (1..Len(o))
    BY DEF Words
  <2>2. IsFiniteSet(1..Len(o))
    BY <2>1, FS_Interval
  <2> QED
    BY <2>1, <2>2, FS_Subset
<1>2. \A x : x \in Names(o) <=> \E i \in W : o[i].name = x
  BY DEF Names
<1> HIDE DEF W
<1>3. f \in [W -> Names(o)]
  BY <1>2
<1>4. \A x \in Names(o) : \E i \in W : f[i] = x
  BY <1>2
<1>5. \A i, j \in W : f[i] = f[j] => i = j
  BY DEF W
<1> HIDE DEF f
<1>6. f \in Surjection(W, Names(o)) /\ f \in Injection(W, Names(o))
  BY <1>3, <1>4, <1>5 DEF Surjection, Injection, IsInjective
<1> QED
  BY <1>1, <1>6, FS_Surjection DEF W

\* What is complete is harmless.
LEMMA CompleteIsHarmless ==
    ASSUME NEW N, NEW V, NEW expected, NEW s \in Readings(N, V), Shape(s, expected), Complete(s)
    PROVE  Harmless(s.out, expected) /\ s.out # <<>>
<1> DEFINE o == s.out
<1>1. o \in Seq(Lines(N, V))
  BY DEF Readings
<1>2. /\ s.block = "none" /\ s.remote # "missing" /\ s.proto # "missing"
      /\ s.remote \in {"none", s.proto} /\ {"client", "dev", "ca"} \subseteq s.seen
  BY DEF Complete
<1>3. /\ \A i \in Words(o) :
            o[i].name \in s.seen /\ o[i].name \notin InlineBlocks \cup Dangerous
      /\ \A i, j \in Words(o) : o[i].name = o[j].name => i = j
  BY DEF Shape, WordsKept
<1>4. \A x \in s.seen :
         \/ /\ x \in InlineBlocks
            /\ \E i \in DOMAIN o : o[i].kind = "open" /\ o[i].name = x
         \/ x \notin InlineBlocks /\ \E i \in Words(o) : o[i].name = x
  BY DEF Shape, SeenKept
<1>5. /\ "remote" \in s.seen <=> s.remote # "missing"
      /\ "proto" \in s.seen <=> s.proto # "missing"
      /\ \A i \in Words(o) :
            /\ o[i].name = "remote" =>
                  s.remote # "missing" /\ o[i].value = Remote(expected, s.remote)
            /\ o[i].name = "proto" => s.proto # "missing" /\ o[i].value = s.proto
  BY DEF Shape, ValuesKept
<1>6. \A i \in DOMAIN o : o[i].kind = "open" => ClosedAt(o, i)
  BY <1>2 DEF Shape, BlocksKept, OpenAt
<1> HIDE DEF o
<1>7. \A x : x \in Names(o) <=> \E i \in Words(o) : o[i].name = x
  BY DEF Names
<1>8. {"client", "dev", "proto", "remote"} \subseteq Names(o)
  BY <1>2, <1>4, <1>5, <1>7 DEF InlineBlocks
<1>9. Names(o) \cap Dangerous = {}
  BY <1>3, <1>7
<1>10. \E i \in DOMAIN o : o[i].kind = "open" /\ o[i].name = "ca"
  BY <1>2, <1>4 DEF InlineBlocks
<1>11. \A r, p \in Words(o) :
          o[r].name = "remote" /\ o[p].name = "proto" =>
              /\ o[r].value.ip = expected
              /\ o[r].value.protocol \in {"none", o[p].value}
  BY <1>2, <1>5, RemoteIs
<1>12. BlocksClosed(o)
  BY <1>6 DEF BlocksClosed, ClosedAt
<1>13. Cardinality(Names(o)) = Cardinality(Words(o))
  BY <1>1, <1>3, NamesOnce
<1>14. o # <<>>
  BY <1>10
<1> QED
  BY <1>8, <1>9, <1>10, <1>11, <1>12, <1>13, <1>14 DEF Harmless, o

\* The two folds that Sanitize and Stored use.
LEMMA SanitizeReads ==
    ASSUME NEW config, NEW expected
    PROVE  LET end == Reading(config.lines, expected)
           IN  Sanitize(config, expected)
                 = IF Bytes(config) \in 1..MaxConfigBytes /\ Complete(end)
                   THEN [ok |-> TRUE, text |-> Config(end.out, TRUE)]
                   ELSE Refused
BY Zenon DEF Sanitize, Reading

\* The second validation in terms of the search and of the first one.
LEMMA StoredScans ==
    ASSUME NEW config
    PROVE  LET ips == Scanning(config.lines).ips
           IN  Stored(config) <=>
                 /\ Bytes(config) \in 1..MaxConfigBytes
                 /\ Len(ips) = 1
                 /\ Sanitize(config, ips[1]).ok
                 /\ Sanitize(config, ips[1]).text = config
BY Zenon DEF Stored, Scanning

\* The size of a text.
LEMMA BytesSums ==
    ASSUME NEW config
    PROVE  Bytes(config)
             = Sum(IF config.ended \/ config.lines = <<>> THEN 0 ELSE -1, config.lines)
BY Zenon DEF Bytes, Sum

\* Any text of any lines that is sanitised is harmless, and the helper will accept it,
\* to the byte, unless the newline that was added has made it too long.
THEOREM SanitisedIsHarmless ==
    ASSUME NEW N, NEW V, NEW lines \in Seq(Lines(N, V)), NEW ended \in BOOLEAN, NEW expected,
           Sanitize(Config(lines, ended), expected).ok
    PROVE  LET text == Sanitize(Config(lines, ended), expected).text
           IN  /\ Harmless(text.lines, expected)
               /\ Stored(text) \/ (~ended /\ Bytes(Config(lines, ended)) = MaxConfigBytes)
<1> DEFINE config == Config(lines, ended)
           s == Reading(lines, expected)
           u == Reading(s.out, expected)
           text == Config(s.out, TRUE)
<1>1. /\ config.lines = lines /\ config.ended = ended
      /\ text.lines = s.out /\ text.ended = TRUE
  BY DEF Config
<1>2. ~Refused.ok
  BY DEF Refused
<1>3. /\ Bytes(config) \in 1..MaxConfigBytes /\ Complete(s)
      /\ Sanitize(config, expected) = [ok |-> TRUE, text |-> text]
  <2> HIDE DEF s
  <2>1. Sanitize(config, expected)
          = IF Bytes(config) \in 1..MaxConfigBytes /\ Complete(s)
            THEN [ok |-> TRUE, text |-> text]
            ELSE Refused
    BY <1>1, SanitizeReads DEF s
  <2> QED
    BY <1>2, <2>1
<1>4. s.ok
  BY <1>3 DEF Complete
<1>5. ReadWell(lines, N, V, expected)
  BY <1>4, AllReadWell
<1>6. /\ s \in Readings(N, V) /\ Shape(s, expected)
      /\ u \in Readings(N, V) /\ Mirrors(u, s)
      /\ Sum(0, s.out) <= Sum(0, lines)
      /\ Scanning(s.out) = Found(s, expected)
  BY <1>5 DEF ReadWell
<1>7. Harmless(s.out, expected) /\ s.out # <<>>
  BY <1>3, <1>6, CompleteIsHarmless
<1>8. s.out \in Seq(Lines(N, V))
  BY <1>6 DEF Readings
<1>9. Counted(lines) /\ Counted(s.out)
  BY <1>8, AllCounted
<1>10. Bytes(config) = Sum(IF ended \/ lines = <<>> THEN 0 ELSE -1, lines)
  BY <1>1, BytesSums
<1>11. Bytes(text) = Sum(0, s.out)
  BY <1>1, BytesSums
<1>12. Complete(u) /\ u.out = s.out
  BY <1>3, <1>6 DEF Complete, Mirrors, Readings
<1>13. Found(s, expected).ips = <<expected>>
  BY <1>3 DEF Found, Complete
<1> HIDE DEF config, s, u, text
<1>14. Sanitize(config, expected).ok /\ Sanitize(config, expected).text = text
  BY <1>3
<1>15. ASSUME ended \/ Bytes(config) # MaxConfigBytes PROVE Stored(text)
  <2>1. Bytes(text) \in 1..MaxConfigBytes
    <3>1. Bytes(text) \in Nat /\ Bytes(text) >= 1
      BY <1>7, <1>9, <1>11 DEF Counted
    <3>2. CASE ended \/ lines = <<>>
      <4>1. Bytes(config) = Sum(0, lines)
        BY <1>10, <3>2
      <4> QED
        BY <1>3, <1>6, <1>9, <1>11, <3>1, <4>1, LimitsAssumption DEF Counted
    <3>3. CASE ~(ended \/ lines = <<>>)
      <4>1. Bytes(config) = Sum(0, lines) - 1
        BY <1>9, <1>10, <3>3 DEF Counted
      <4>2. Bytes(config) < MaxConfigBytes
        BY <1>3, <1>15, <3>3, LimitsAssumption
      <4> QED
        BY <1>6, <1>9, <1>11, <3>1, <4>1, <4>2, LimitsAssumption DEF Counted
    <3> QED
      BY <3>2, <3>3
  <2>2. Sanitize(text, expected) = [ok |-> TRUE, text |-> text]
    <3>1. Sanitize(text, expected)
            = IF Bytes(text) \in 1..MaxConfigBytes /\ Complete(u)
              THEN [ok |-> TRUE, text |-> Config(u.out, TRUE)]
              ELSE Refused
      BY <1>1, SanitizeReads DEF u
    <3> QED
      BY <1>12, <2>1, <3>1 DEF text
  <2>3. Scanning(text.lines).ips = <<expected>>
    BY <1>1, <1>6, <1>13
  <2>4. Len(<<expected>>) = 1 /\ <<expected>>[1] = expected
    OBVIOUS
  <2> DEFINE ips == Scanning(text.lines).ips
  <2>5. Stored(text) <=> /\ Bytes(text) \in 1..MaxConfigBytes
                         /\ Len(ips) = 1
                         /\ Sanitize(text, ips[1]).ok
                         /\ Sanitize(text, ips[1]).text = text
    BY StoredScans
  <2>6. Len(ips) = 1 /\ ips[1] = expected
    BY <2>3, <2>4
  <2> HIDE DEF ips
  <2> QED
    BY <2>1, <2>2, <2>5, <2>6
<1> QED
  BY <1>1, <1>7, <1>14, <1>15 DEF config

-----------------------------------------------------------------------------
\* The texts of the run.

\* A line more, another one or one fewer make a text of the same lines.
LEMMA EditsOfText ==
    ASSUME NEW S, NEW lines \in Seq(S), NEW line \in S, NEW i \in 1..(Len(lines) + 1)
    PROVE  /\ InsertAt(lines, i, line) \in Seq(S)
           /\ i \in DOMAIN lines => ReplaceAt(lines, i, line) \in Seq(S)
           /\ i \in DOMAIN lines => RemoveAt(lines, i) \in Seq(S)
<1>1. /\ Len(lines) \in Nat /\ DOMAIN lines = 1..Len(lines)
      /\ \A k \in 1..Len(lines) : lines[k] \in S
  OBVIOUS
<1>2. SubSeq(lines, 1, i - 1) \in Seq(S)
  <2>1. i - 1 \in Int /\ \A k \in 1..(i - 1) : k \in 1..Len(lines)
    BY <1>1
  <2> QED
    BY <1>1, <2>1, SubSeqProperties
<1>3. SubSeq(lines, i, Len(lines)) \in Seq(S)
  <2>1. i \in Int /\ Len(lines) \in Int /\ \A k \in i..Len(lines) : k \in 1..Len(lines)
    BY <1>1
  <2> QED
    BY <1>1, <2>1, SubSeqProperties
<1>4. SubSeq(lines, i + 1, Len(lines)) \in Seq(S)
  <2>1. i + 1 \in Int /\ Len(lines) \in Int /\ \A k \in (i + 1)..Len(lines) : k \in 1..Len(lines)
    BY <1>1
  <2> QED
    BY <1>1, <2>1, SubSeqProperties
<1>5. InsertAt(lines, i, line) \in Seq(S)
  <2>1. <<line>> \in Seq(S)
    OBVIOUS
  <2>2. SubSeq(lines, 1, i - 1) \o <<line>> \in Seq(S)
    BY <1>2, <2>1, ConcatProperties
  <2>3. (SubSeq(lines, 1, i - 1) \o <<line>>) \o SubSeq(lines, i, Len(lines)) \in Seq(S)
    BY <1>3, <2>2, ConcatProperties
  <2> QED
    BY <2>3, Zenon DEF InsertAt
<1>6. ASSUME i \in DOMAIN lines PROVE ReplaceAt(lines, i, line) \in Seq(S)
  <2>1. i \in 1..Len(lines)
    BY <1>1, <1>6
  <2> QED
    BY <2>1, ExceptSeq DEF ReplaceAt
<1>7. RemoveAt(lines, i) \in Seq(S)
  <2>1. SubSeq(lines, 1, i - 1) \o SubSeq(lines, i + 1, Len(lines)) \in Seq(S)
    BY <1>2, <1>4, ConcatProperties
  <2> QED
    BY <2>1, Zenon DEF RemoveAt
<1> QED
  BY <1>5, <1>6, <1>7

\* A line as the sanitiser reads one.
IsLine(x) ==
    /\ x = [kind |-> x.kind, name |-> x.name, value |-> x.value, plain |-> x.plain,
            size |-> x.size]
    /\ x.kind \in {"blank", "word", "open", "close", "text"}
    /\ x.plain \in BOOLEAN /\ x.size \in Nat
    /\ x.plain \/ x.size > 0

\* What the run makes its texts of.
LEMMA LinesAreLines ==
    ASSUME NEW kind \in {"blank", "word", "open", "close", "text"}, NEW name, NEW value,
           NEW plain \in BOOLEAN, NEW size \in Nat, plain \/ size > 0
    PROVE  IsLine(Line(kind, name, value, plain, size))
BY DEF IsLine, Line

\* The lines that are put in.
LEMMA LinesOfPool == \A x \in Pool : IsLine(x)
<1>1. ASSUME NEW kind \in {"blank", "word", "open", "close", "text"}, NEW name, NEW value
      PROVE  /\ \A size \in {1, 2, 4} : IsLine(Line(kind, name, value, TRUE, size))
             /\ IsLine(Line(kind, name, value, FALSE, 3))
  <2>1. ASSUME NEW size \in {1, 2, 4} PROVE IsLine(Line(kind, name, value, TRUE, size))
    <3>1. size \in Nat /\ TRUE \in BOOLEAN
      OBVIOUS
    <3> QED
      BY <3>1, LinesAreLines
  <2>2. IsLine(Line(kind, name, value, FALSE, 3))
    <3>1. 3 \in Nat /\ 3 > 0 /\ FALSE \in BOOLEAN
      OBVIOUS
    <3> QED
      BY <3>1, LinesAreLines
  <2> QED
    BY <2>1, <2>2
<1> QED
  BY <1>1, Zenon DEF Pool

\* A text of seven lines.
LEMMA SevenLines ==
    ASSUME NEW S, NEW a \in S, NEW b \in S, NEW c \in S, NEW d \in S, NEW e \in S, NEW f \in S,
           NEW g \in S
    PROVE  <<a, b, c, d, e, f, g>> \in Seq(S)
OBVIOUS

\* The lines that are there.
LEMMA LinesOfWhole ==
    \E A : Whole \in Seq(A) /\ \A x \in A : IsLine(x)
<1> DEFINE a == Line("word", "client", "none", TRUE, 2)
           b == Line("word", "dev", "tun", TRUE, 2)
           c == Line("word", "proto", "udp", TRUE, 2)
           d == Line("word", "remote", Remote("own", "udp"), TRUE, 2)
           e == Line("open", "ca", "none", TRUE, 2)
           f == Line("text", "none", "none", TRUE, 2)
           g == Line("close", "ca", "none", TRUE, 2)
           A == {a, b, c, d, e, f, g}
<1>1. Whole = <<a, b, c, d, e, f, g>>
  BY DEF Whole
<1>2. /\ IsLine(a) /\ IsLine(b) /\ IsLine(c) /\ IsLine(d) /\ IsLine(e) /\ IsLine(f)
      /\ IsLine(g)
  BY LinesAreLines
<1> HIDE DEF a, b, c, d, e, f, g
<1>3. <<a, b, c, d, e, f, g>> \in Seq(A)
  BY SevenLines
<1>4. \A x \in A : IsLine(x)
  BY <1>2
<1> HIDE DEF A
<1> QED
  BY <1>1, <1>3, <1>4

\* The texts of the run are made of lines with some set of names and one of values.
LEMMA TextsOfRun == \E N, V : Texts \subseteq Seq(Lines(N, V))
<1>0. PICK B : Whole \in Seq(B) /\ \A x \in B : IsLine(x)
  BY LinesOfWhole
<1> DEFINE A == Pool \cup B
           N == {x.name : x \in A}
           V == {x.value : x \in A}
           S == Lines(N, V)
<1>1. \A x \in A : IsLine(x)
  BY <1>0, LinesOfPool
<1>2. Whole \in Seq(A)
  BY <1>0, SeqMonotonic
<1> HIDE DEF A
<1>3. ASSUME NEW x \in A PROVE x \in S
  <2>1. IsLine(x)
    BY <1>1
  <2>2. x.name \in N /\ x.value \in V
    OBVIOUS
  <2> HIDE DEF N, V
  <2> QED
    BY <2>1, <2>2 DEF IsLine, Lines
<1> HIDE DEF N, V, S
<1>4. Whole \in Seq(S) /\ Pool \subseteq S
  <2>1. A \subseteq S
    BY <1>3
  <2> QED
    BY <1>2, <2>1, SeqMonotonic DEF A
<1>5. \A lines \in Seq(S) : \A pool \in SUBSET S : Inserted(lines, pool) \subseteq Seq(S)
  BY EditsOfText DEF Inserted
<1>6. \A lines \in Seq(S) : \A pool \in SUBSET S : Replaced(lines, pool) \subseteq Seq(S)
  <2>1. \A lines \in Seq(S) : \A i \in DOMAIN lines : i \in 1..(Len(lines) + 1)
    OBVIOUS
  <2> QED
    BY <2>1, EditsOfText DEF Replaced
<1>7. Removed(Whole) \subseteq Seq(S)
  <2>1. \A i \in DOMAIN Whole : i \in 1..(Len(Whole) + 1)
    BY <1>4
  <2>2. ASSUME NEW i \in DOMAIN Whole PROVE RemoveAt(Whole, i) \in Seq(S)
    <3>1. Whole[i] \in S
      BY <1>4
    <3> QED
      BY <1>4, <2>1, <3>1, EditsOfText
  <2> QED
    BY <2>2 DEF Removed
<1> DEFINE once == Inserted(Whole, Pool) \cup Replaced(Whole, Pool) \cup Removed(Whole)
           again == {line \in Pool : line.name \in {"ca", "key", "remote"} /\ line.plain}
<1>8. Texts = {Whole, <<>>} \cup once \cup UNION {Inserted(lines, again) : lines \in once}
  BY Zenon DEF Texts
<1>9. once \subseteq Seq(S)
  BY <1>4, <1>5, <1>6, <1>7
<1>10. again \in SUBSET S
  BY <1>4
<1> HIDE DEF once, again
<1>11. <<>> \in Seq(S)
  OBVIOUS
<1>12. Texts \subseteq Seq(S)
  <2>1. \A lines \in once : Inserted(lines, again) \subseteq Seq(S)
    BY <1>5, <1>9, <1>10
  <2>2. UNION {Inserted(lines, again) : lines \in once} \subseteq Seq(S)
    BY <2>1, Zenon
  <2> QED
    BY <1>4, <1>8, <1>9, <1>11, <2>2
<1> QED
  BY <1>12 DEF S

\* The run's own statement of SanitisedIsHarmless.
THEOREM SanitisedStaysStable == MCSpec => []SanitisedIsStable
<1> DEFINE Written == \A config \in input.configs :
                        \E lines \in Texts, ended \in BOOLEAN : config = Config(lines, ended)
<1>1. MCInit => Written
  BY DEF MCInit, NoInput, Input
<1>2. Written /\ [MCNext]_<<vars, input>> => Written'
  BY DEF MCNext
<1>3. Written => SanitisedIsStable
  <2> SUFFICES ASSUME Written, NEW config \in input.configs, Sanitize(config, "own").ok
               PROVE  LET kept == Sanitize(config, "own")
                      IN  /\ Harmless(kept.text.lines, "own")
                          /\ \/ Stored(kept.text)
                             \/ ~config.ended /\ Bytes(config) = MaxConfigBytes
    BY DEF SanitisedIsStable
  <2>1. PICK lines \in Texts, ended \in BOOLEAN : config = Config(lines, ended)
    OBVIOUS
  <2>2. PICK N, V : lines \in Seq(Lines(N, V))
    BY TextsOfRun
  <2>3. config.ended = ended
    BY <2>1 DEF Config
  <2> QED
    BY <2>1, <2>2, <2>3, SanitisedIsHarmless
<1> HIDE DEF Written
<1> QED
  BY <1>1, <1>2, <1>3, PTL DEF MCSpec
=============================================================================
