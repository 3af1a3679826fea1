------------------------- MODULE ComplianceAuditProofs --------------------------
(***************************************************************************)
(* Proofs about ComplianceAudit, for every set of rules, every trigger and *)
(* number of retries, and any number of events, failures, restarts and     *)
(* rebuilds.                                                               *)
(***************************************************************************)
EXTENDS ComplianceAudit, FiniteSetTheorems, SequenceTheorems, WellFoundedInduction, TLAPS

--------------------------------------------------------------------------------

Concerns(r, i) == r \in events[i].rules

\* The row of a rule after the first n events: it is that of the last event of the
\* rule among them, or it already holds a later one (which is to be handled again).
Reflects(row, r, n) ==
  LET v == row.rule_version
  IN  \/ v \in (n + 1)..Len(events) /\ Concerns(r, v)
      \/ row = Absent /\ \A i \in 1..n : ~Concerns(r, i)
      \/ /\ v \in 1..n /\ Concerns(r, v)
         /\ row.status = StatusBy[events[v].kind]
         /\ \A i \in (v + 1)..n : ~Concerns(r, i)

\* The events the daemon has handled.
Handled ==
  IF pc = "poll" THEN checkpoint ELSE IF pc = "upsert" THEN next - 1 ELSE next

Intact(r, lost) == \A i \in lost : ~Concerns(r, i)

Bounds ==
  /\ checkpoint <= Len(events)
  /\ pc # "poll" => next <= batch /\ batch <= Len(events) /\ checkpoint < next
  /\ skipped \subseteq 1..Len(events)

EventsSound ==
  /\ \A i \in 1..Len(events) : /\ events[i].recorded_at <= clock
                               /\ events[i].rules # {} => events[i].kind \in DOMAIN StatusBy
  /\ \A i \in 1..Len(inserted) :
       /\ inserted[i].recorded_at <= clock
       /\ inserted[i].rules # {} => inserted[i].kind \in DOMAIN StatusBy

ViewReflects == \A r \in RuleId : Intact(r, skipped) => Reflects(view[r], r, Handled)

SnapshotReflects(s) ==
  /\ s.event_position <= Len(events)
  /\ s.lost \subseteq 1..Len(events)
  /\ \A i \in 1..s.event_position : events[i].recorded_at <= s.snapshot_at
  /\ \A r \in RuleId : Intact(r, s.lost) =>
       /\ Reflects(s.payload[r], r, s.event_position)
       /\ s.payload[r].rule_version > s.event_position =>
            events[s.payload[r].rule_version].recorded_at <= s.snapshot_at

\* The rows read for a snapshot reflect what they were read for, whatever is committed
\* or rebuilt before they are written.
ReadSound ==
  pc = "snapshot" =>
    /\ read.lost \subseteq 1..Len(events)
    /\ \A r \in RuleId : Intact(r, read.lost) => Reflects(read.payload[r], r, next)

IInv ==
  /\ TypeOK
  /\ Bounds
  /\ EventsSound
  /\ ViewReflects
  /\ ReadSound
  /\ \A s \in snapshots : SnapshotReflects(s)

--------------------------------------------------------------------------------

\* A set of positions that is not empty has a last one, and Max is that.
LEMMA LastOf ==
  ASSUME NEW n \in Nat, NEW S, S \subseteq 0..n, S # {}
  PROVE  Max(S) \in S /\ \A i \in S : i <= Max(S)
<1> DEFINE T == {n - i : i \in S}
<1> DEFINE R == OpToRel(<, Nat)
<1>1. T \subseteq Nat
  <2>1. \A i \in S : i \in 0..n /\ n - i \in Nat
    OBVIOUS
  <2>2. QED
    BY <2>1
<1>2. T # {}
  OBVIOUS
<1>3. PICK m \in T : \A k \in T : ~ (<<k, m>> \in R)
  <2> HIDE DEF T
  <2>1. IsWellFoundedOn(R, Nat)
    BY NatLessThanWellFounded
  <2> HIDE DEF R
  <2>2. QED
    BY <1>1, <1>2, <2>1, WFMin
<1>4. \A k, l \in Nat : <<k, l>> \in R <=> k < l
  BY DEF OpToRel
<1>5. \A k \in T : m <= k
  <2> HIDE DEF R, T
  <2>1. TAKE k \in T
  <2>2. k \in Nat /\ m \in Nat
    BY <1>1
  <2>3. ~(k < m)
    BY <2>2, <1>3, <1>4
  <2>4. QED
    BY <2>2, <2>3
<1>6. PICK i \in S : m = n - i
  OBVIOUS
<1>7. \A j \in S : i >= j
  BY <1>5, <1>6
<1>8. \A x, y \in S : x >= y => y <= x
  OBVIOUS
<1>9. QED
  BY <1>7, <1>8 DEF Max

LEMMA LastPosition ==
  ASSUME NEW n \in Nat, NEW S, S \subseteq 1..n, S # {}
  PROVE  Max(S) \in S /\ \A i \in S : i <= Max(S)
<1>1. S \subseteq 0..n
  OBVIOUS
<1>2. QED
  BY <1>1, LastOf

LEMMA LastIs ==
  ASSUME NEW n \in Nat, NEW S, S \subseteq 1..n, NEW m \in S, \A i \in S : i <= m
  PROVE  Max(S) = m
<1>1. Max(S) \in S /\ m <= Max(S)
  BY LastPosition
<1>2. Max(S) <= m
  BY <1>1
<1>3. Max(S) \in 1..n /\ m \in 1..n
  BY <1>1
<1>4. QED
  BY <1>1, <1>2, <1>3

LEMMA Lengths ==
  ASSUME TypeOK
  PROVE  /\ Len(events) \in 0..MaxEvents /\ MaxEvents \in Nat
         /\ \A i \in 1..Len(events) : events[i] \in Event
         /\ Len(inserted) \in Nat /\ \A i \in 1..Len(inserted) : inserted[i] \in Event
         /\ checkpoint \in 0..MaxEvents /\ next \in Nat /\ batch \in Nat
         /\ \A r \in RuleId : view[r] \in Row /\ view[r].rule_version \in Nat
BY AuditViewAssumption, LenProperties, ElementOfSeq DEF TypeOK, Position, View, Row

\* Fewer events handled: what holds of the first n holds of the first m of them.
LEMMA ReflectsLess ==
  ASSUME TypeOK, NEW row \in Row, NEW r, NEW n \in 0..Len(events), NEW m \in 0..n,
         Reflects(row, r, n)
  PROVE  Reflects(row, r, m)
BY Lengths DEF Reflects, Absent

\* One more, which does not concern the rule.
LEMMA ReflectsMore ==
  ASSUME TypeOK, NEW row \in Row, NEW r, NEW n \in 1..Len(events), ~Concerns(r, n),
         Reflects(row, r, n - 1)
  PROVE  Reflects(row, r, n)
<1>1. n \in Nat /\ n - 1 \in Nat /\ Len(events) \in Nat
  BY Lengths
<1>2. CASE row.rule_version \in n..Len(events) /\ Concerns(r, row.rule_version)
  BY <1>1, <1>2 DEF Reflects
<1>3. CASE row = Absent /\ \A i \in 1..(n - 1) : ~Concerns(r, i)
  BY <1>1, <1>3 DEF Reflects
<1>4. CASE /\ row.rule_version \in 1..(n - 1) /\ Concerns(r, row.rule_version)
           /\ row.status = StatusBy[events[row.rule_version].kind]
           /\ \A i \in (row.rule_version + 1)..(n - 1) : ~Concerns(r, i)
  BY <1>1, <1>4 DEF Reflects
<1>5. QED
  BY <1>1, <1>2, <1>3, <1>4 DEF Reflects

\* The stream only grows.
LEMMA ReflectsStays ==
  ASSUME Len(events) \in Nat, Len(events') \in Nat, Len(events) <= Len(events'),
         \A i \in 1..Len(events) : events'[i] = events[i],
         NEW row, NEW r, NEW n \in 0..Len(events), Reflects(row, r, n)
  PROVE  Reflects(row, r, n)'
BY DEF Reflects, Concerns, Absent

LEMMA InitInv == Init => IInv
<1> SUFFICES ASSUME Init PROVE IInv
  OBVIOUS
<1>0. Absent \in Row
  BY AuditViewAssumption DEF Absent, Row, Position
<1>1. TypeOK
  <2>1. view \in View /\ read \in [payload : View, lost : SUBSET Position]
    BY <1>0 DEF Init, View, NoRows, NothingRead
  <2>2. QED
    BY <2>1, AuditViewAssumption DEF Init, TypeOK, Position
<1>2. ViewReflects
  BY DEF ViewReflects, Reflects, Handled, Init, NoRows
<1>3. Bounds /\ EventsSound /\ ReadSound
  BY DEF Bounds, EventsSound, ReadSound, Init
<1>4. QED
  BY <1>1, <1>2, <1>3 DEF IInv, Init

\* Steps that leave the stream and the snapshots alone.
LEMMA SnapshotsStay ==
  ASSUME \A s \in snapshots : SnapshotReflects(s),
         UNCHANGED events, snapshots' \subseteq snapshots
  PROVE  \A s \in snapshots' : SnapshotReflects(s)'
BY DEF SnapshotReflects, Reflects, Intact, Concerns, Absent

\* Steps that leave the stream and what was read alone, or forget it.
LEMMA ReadStays ==
  ASSUME ReadSound, UNCHANGED events,
         pc' = "snapshot" => pc = "snapshot" /\ UNCHANGED <<read, next>>
  PROVE  ReadSound'
BY DEF ReadSound, Reflects, Intact, Concerns, Absent

LEMMA NothingReadTyped == NothingRead \in [payload : View, lost : SUBSET Position]
BY AuditViewAssumption DEF NothingRead, NoRows, Absent, View, Row, Position

LEMMA InsertEventInv ==
  ASSUME IInv, NEW kind \in EventKind, NEW rules \in SUBSET RuleId,
         InsertEvent(kind, rules), rules # {} => kind \in DOMAIN StatusBy
  PROVE  IInv'
<1> DEFINE e == [kind |-> kind, rules |-> rules, recorded_at |-> clock']
<1>1. /\ inserted' = Append(inserted, e)
      /\ clock' = clock + 1 /\ Len(events) + Len(inserted) < MaxEvents
      /\ UNCHANGED <<events, view, snapshots, checkpoint, pc, next, batch, attempt, count,
                     read, raises, restarts, rebuilds, skipped>>
  BY DEF InsertEvent, tables, daemon, faults
<1>2. clock \in Nat /\ Len(inserted) \in Nat /\ Len(events) \in Nat /\ MaxEvents \in Nat
      /\ inserted \in Seq(Event)
  BY Lengths DEF IInv, TypeOK
<1>3. e \in Event /\ e.recorded_at = clock + 1 /\ e.rules = rules /\ e.kind = kind
  BY <1>1, <1>2 DEF Event
<1> HIDE DEF e
<1>4. /\ inserted' \in Seq(Event) /\ Len(inserted') = Len(inserted) + 1
      /\ \A i \in 1..Len(inserted) : inserted'[i] = inserted[i]
      /\ inserted'[Len(inserted) + 1] = e
  BY <1>1, <1>2, <1>3, AppendProperties
<1>5. TypeOK'
  BY <1>1, <1>2, <1>4 DEF IInv, TypeOK
<1>6. Bounds'
  BY <1>1 DEF IInv, Bounds
<1>7. EventsSound'
  <2>1. \A i \in 1..Len(inserted') : i \in 1..Len(inserted) \/ i = Len(inserted) + 1
    BY <1>2, <1>4
  <2>2. /\ \A i \in 1..Len(inserted) : inserted[i].recorded_at \in Nat
        /\ \A i \in 1..Len(events) : events[i].recorded_at \in Nat
    BY Lengths DEF IInv, Event
  <2>3. QED
    BY <1>1, <1>2, <1>3, <1>4, <2>1, <2>2 DEF IInv, EventsSound
<1>8. ViewReflects'
  BY <1>1 DEF IInv, ViewReflects, Reflects, Intact, Concerns, Handled, Absent
<1>9. ReadSound'
  BY <1>1, ReadStays DEF IInv
<1>10. QED
  BY <1>1, <1>5, <1>6, <1>7, <1>8, <1>9, SnapshotsStay DEF IInv

LEMMA Joined ==
  ASSUME NEW S, NEW s \in Seq(S), NEW t \in Seq(S)
  PROVE  /\ s \o t \in Seq(S) /\ Len(s \o t) = Len(s) + Len(t)
         /\ \A i \in 1..Len(s) : (s \o t)[i] = s[i]
         /\ \A i \in 1..Len(t) : (s \o t)[Len(s) + i] = t[i]
         /\ \A i \in 1..Len(s \o t) :
              i \in 1..Len(s) \/ \E j \in 1..Len(t) : i = Len(s) + j
<1>1. Len(s) \in Nat /\ Len(t) \in Nat /\ Len(s \o t) = Len(s) + Len(t) /\ s \o t \in Seq(S)
  BY LenProperties, ConcatProperties
<1>2. \A i \in 1..(Len(s) + Len(t)) :
        (s \o t)[i] = IF i <= Len(s) THEN s[i] ELSE t[i - Len(s)]
  BY ConcatProperties, Zenon
<1>3. ASSUME NEW i \in 1..(Len(s) + Len(t)), i \notin 1..Len(s)
      PROVE  \E j \in 1..Len(t) : i = Len(s) + j
  <2>1. i - Len(s) \in 1..Len(t) /\ i = Len(s) + (i - Len(s))
    BY <1>1, <1>3
  <2>2. QED
    BY <2>1
<1>4. QED
  BY <1>1, <1>2, <1>3

LEMMA CommitEventsInv == ASSUME IInv, CommitEvents PROVE IInv'
<1>1. /\ inserted' = <<>> /\ events' = events \o inserted
      /\ UNCHANGED <<clock, view, snapshots, checkpoint, pc, next, batch, attempt, count,
                     read, raises, restarts, rebuilds, skipped>>
  BY DEF CommitEvents, tables, daemon, faults
<1>2. TypeOK /\ Bounds /\ EventsSound
  BY DEF IInv
<1>3. /\ inserted \in Seq(Event) /\ Len(inserted) \in Nat
      /\ events \in Seq(Event) /\ Len(events) \in 0..MaxEvents
      /\ Len(events) + Len(inserted) <= MaxEvents /\ MaxEvents \in Nat
  BY <1>2, Lengths DEF TypeOK
<1>4. /\ events' \in Seq(Event) /\ Len(events') = Len(events) + Len(inserted)
      /\ \A i \in 1..Len(events) : events'[i] = events[i]
      /\ \A i \in 1..Len(inserted) : events'[Len(events) + i] = inserted[i]
      /\ \A i \in 1..Len(events') :
           i \in 1..Len(events) \/ \E j \in 1..Len(inserted) : i = Len(events) + j
  BY <1>1, <1>3, Joined
<1>5. TypeOK'
  <2>1. inserted' \in Seq(Event) /\ Len(inserted') = 0
    BY <1>1
  <2>2. QED
    BY <1>1, <1>2, <1>3, <1>4, <2>1 DEF TypeOK
<1>6. Bounds'
  BY <1>1, <1>2, <1>3, <1>4 DEF TypeOK, Bounds, Position
<1>7. EventsSound'
  <2>1. 1..Len(inserted') = {}
    BY <1>1
  <2>2. QED
    BY <1>1, <1>2, <1>4, <2>1 DEF EventsSound
<1>8. ASSUME NEW row, NEW r, NEW n \in 0..Len(events), Reflects(row, r, n)
      PROVE  Reflects(row, r, n)'
  BY <1>3, <1>4, <1>8, ReflectsStays
<1>9. \A r \in RuleId, lost \in SUBSET (1..Len(events)) :
        Intact(r, lost)' => Intact(r, lost)
  BY <1>4 DEF Intact, Concerns
<1>10. ViewReflects'
  <2>1. Handled \in 0..Len(events) /\ Handled' = Handled /\ skipped \in SUBSET (1..Len(events))
    BY <1>1, <1>2, <1>3, Lengths DEF Handled, Bounds, TypeOK
  <2>2. QED
    BY <1>1, <1>8, <1>9, <2>1 DEF IInv, ViewReflects, Reflects, Intact
<1>11. ASSUME NEW s \in snapshots PROVE SnapshotReflects(s)'
  <2>1. SnapshotReflects(s) /\ s \in Snapshot /\ s.event_position \in 0..Len(events)
    BY <1>3 DEF IInv, TypeOK, SnapshotReflects, Snapshot, Position
  <2>2. s.event_position <= Len(events') /\ s.lost \subseteq 1..Len(events')
    BY <1>3, <1>4, <2>1 DEF SnapshotReflects
  <2>3. \A i \in 1..s.event_position : events'[i].recorded_at <= s.snapshot_at
    <3>1. \A i \in 1..s.event_position : i \in 1..Len(events)
      BY <1>3, <2>1
    <3>2. QED
      BY <1>4, <2>1, <3>1 DEF SnapshotReflects
  <2>4. ASSUME NEW r \in RuleId, Intact(r, s.lost)'
        PROVE  /\ Reflects(s.payload[r], r, s.event_position)'
               /\ s.payload[r].rule_version > s.event_position =>
                    events'[s.payload[r].rule_version].recorded_at <= s.snapshot_at
    <3>1. Intact(r, s.lost)
      BY <1>9, <2>1, <2>4 DEF SnapshotReflects
    <3>2. Reflects(s.payload[r], r, s.event_position)
      BY <2>1, <3>1 DEF SnapshotReflects
    <3>3. s.payload[r].rule_version \in Nat
      BY <1>3, <2>1 DEF Snapshot, View, Row, Position
    <3>4. s.payload[r].rule_version > s.event_position =>
            s.payload[r].rule_version \in 1..Len(events)
      BY <1>3, <2>1, <3>2, <3>3 DEF Reflects, Absent
    <3>5. QED
      BY <1>4, <1>8, <2>1, <3>1, <3>2, <3>4 DEF SnapshotReflects
  <2>5. QED
    BY <2>2, <2>3, <2>4 DEF SnapshotReflects, Intact, Reflects
<1>12. ReadSound'
  <2>1. pc = "snapshot" => next \in 0..Len(events)
    BY <1>2, <1>3, Lengths DEF Bounds, TypeOK
  <2>2. pc = "snapshot" => read.lost \subseteq 1..Len(events')
    BY <1>3, <1>4 DEF IInv, ReadSound
  <2>3. QED
    BY <1>1, <1>8, <1>9, <2>1, <2>2 DEF IInv, ReadSound, Reflects, Intact
<1>13. QED
  BY <1>1, <1>5, <1>6, <1>7, <1>10, <1>11, <1>12 DEF IInv

LEMMA StartBatchInv == ASSUME IInv, StartBatch PROVE IInv'
<1>1. /\ pc = "poll" /\ checkpoint < Len(events) /\ next' = checkpoint + 1
      /\ batch' = Len(events) /\ attempt' = 1 /\ pc' = "upsert"
      /\ UNCHANGED <<events, inserted, clock, view, snapshots, checkpoint, count, read,
                     raises, restarts, rebuilds, skipped>>
  BY DEF StartBatch, store, tables, faults
<1>2. TypeOK'
  <2>1. /\ next' \in 1..MaxEvents + 1 /\ batch' \in Position
        /\ attempt' \in 1..MaxRetries
    BY <1>1, Lengths, AuditViewAssumption DEF IInv, Position
  <2>2. QED
    BY <1>1, <2>1 DEF IInv, TypeOK
<1>3. Bounds'
  BY <1>1, Lengths DEF IInv, Bounds
<1>4. EventsSound'
  BY <1>1 DEF IInv, EventsSound
<1>5. ViewReflects'
  <2>1. Handled' = Handled
    BY <1>1, Lengths DEF IInv, Handled
  <2>2. QED
    BY <1>1, <2>1 DEF IInv, ViewReflects, Reflects, Intact, Concerns, Absent
<1>6. ReadSound'
  BY <1>1, ReadStays DEF IInv
<1>7. QED
  BY <1>1, <1>2, <1>3, <1>4, <1>5, <1>6, SnapshotsStay DEF IInv

LEMMA UpsertInv == ASSUME IInv, Upsert PROVE IInv'
<1>1. /\ pc = "upsert" /\ view' = Upserted(view, events[next], next)
      /\ pc' \in {"count", "checkpoint"} /\ skipped' = skipped \ {next}
      /\ UNCHANGED <<events, inserted, clock, snapshots, checkpoint, next, batch, attempt,
                     count, read, raises, restarts, rebuilds>>
  BY DEF Upsert, store, faults
<1>2. TypeOK /\ Bounds /\ EventsSound
  BY DEF IInv
<1>3. /\ next \in 1..Len(events) /\ next \in Position /\ events[next] \in Event
      /\ Len(events) \in Nat
  BY <1>1, <1>2, Lengths DEF Bounds, TypeOK, Position
<1>4. ASSUME NEW r \in RuleId
      PROVE  /\ view'[r] \in Row
             /\ Concerns(r, next) => /\ view'[r].rule_version = next
                                     /\ view'[r].status = StatusBy[events[next].kind]
             /\ ~Concerns(r, next) => view'[r] = view[r]
  <2>1. view'[r] = IF Concerns(r, next) THEN RowUpserted(view[r], events[next].kind, next)
                   ELSE view[r]
    BY <1>1 DEF Upserted, Concerns
  <2>2. view[r] \in Row
    BY <1>2, Lengths
  <2>3. Concerns(r, next) => events[next].kind \in {"ComplianceRulePassed", "ComplianceRuleFailed"}
    BY <1>2, <1>3 DEF EventsSound, Concerns, StatusBy
  <2>4. CASE ~Concerns(r, next)
    BY <2>1, <2>2, <2>4
  <2>5. CASE Concerns(r, next) /\ events[next].kind = "ComplianceRulePassed"
    <3>1. view'[r] = [view[r] EXCEPT !.status = "PASSED", !.rule_version = next,
                                    !.evidence_hash = next]
      BY <2>1, <2>5 DEF RowUpserted
    <3>2. view'[r] \in Row /\ view'[r].status = "PASSED" /\ view'[r].rule_version = next
      BY <1>3, <2>2, <3>1 DEF Row
    <3>3. StatusBy[events[next].kind] = "PASSED"
      BY <2>5 DEF StatusBy
    <3>4. QED
      BY <2>5, <3>2, <3>3
  <2>6. CASE Concerns(r, next) /\ events[next].kind = "ComplianceRuleFailed"
    <3>1. view'[r] = [view[r] EXCEPT !.status = "FAILED", !.rule_version = next,
                                    !.failure_reason = next]
      BY <2>1, <2>6 DEF RowUpserted
    <3>2. view'[r] \in Row /\ view'[r].status = "FAILED" /\ view'[r].rule_version = next
      BY <1>3, <2>2, <3>1 DEF Row
    <3>3. StatusBy[events[next].kind] = "FAILED"
      BY <2>6 DEF StatusBy
    <3>4. QED
      BY <2>6, <3>2, <3>3
  <2>7. QED
    BY <2>3, <2>4, <2>5, <2>6
<1>5. TypeOK'
  <2>1. view' \in View
    BY <1>1, <1>4 DEF View, Upserted
  <2>2. QED
    BY <1>1, <1>2, <2>1 DEF TypeOK
<1>6. Bounds' /\ EventsSound'
  BY <1>1, <1>2 DEF Bounds, EventsSound
<1>7. ViewReflects'
  <2> SUFFICES ASSUME NEW r \in RuleId, Intact(r, skipped \ {next})
               PROVE  Reflects(view'[r], r, next)
    BY <1>1 DEF ViewReflects, Reflects, Handled, Intact, Concerns, Absent
  <2>1. CASE Concerns(r, next)
    BY <1>3, <1>4, <2>1 DEF Reflects
  <2>2. CASE ~Concerns(r, next)
    <3>1. Intact(r, skipped)
      BY <2>2 DEF Intact
    <3>2. Reflects(view[r], r, next - 1)
      BY <1>1, <3>1 DEF IInv, ViewReflects, Handled
    <3>3. QED
      BY <1>2, <1>3, <1>4, <2>2, <3>2, Lengths, ReflectsMore
  <2>3. QED
    BY <2>1, <2>2
<1>8. ReadSound'
  BY <1>1, ReadStays DEF IInv
<1>9. QED
  BY <1>1, <1>5, <1>6, <1>7, <1>8, SnapshotsStay DEF IInv

LEMMA SnapshotSound ==
  ASSUME IInv, pc = "snapshot"
  PROVE  SnapshotReflects(SnapshotOf(clock + 1)) /\ SnapshotOf(clock + 1) \in Snapshot
<1> DEFINE s == SnapshotOf(clock + 1)
<1>1. TypeOK /\ Bounds /\ EventsSound /\ ReadSound
  BY DEF IInv
<1>2. /\ next \in 1..Len(events) /\ next \in Position /\ clock \in Nat
      /\ Len(events) \in Nat /\ \A i \in 1..Len(events) : events[i] \in Event
  BY <1>1, Lengths DEF Bounds, TypeOK, Position
<1>3. /\ s.snapshot_at = clock + 1 /\ s.event_position = next /\ s.payload = read.payload
      /\ s.lost = read.lost
  BY DEF SnapshotOf
<1>4. \A i \in 1..Len(events) : events[i].recorded_at \in Nat /\ events[i].recorded_at <= clock + 1
  BY <1>1, <1>2 DEF EventsSound, Event
<1>5. s \in Snapshot
  BY <1>1, <1>2 DEF SnapshotOf, Snapshot, TypeOK
<1>6. ASSUME NEW r \in RuleId, Intact(r, read.lost)
      PROVE  /\ Reflects(read.payload[r], r, next)
             /\ read.payload[r].rule_version > next =>
                  events[read.payload[r].rule_version].recorded_at <= clock + 1
  <2>1. Reflects(read.payload[r], r, next)
    BY <1>1, <1>6 DEF ReadSound
  <2>2. read.payload[r].rule_version \in Nat
    BY <1>1, AuditViewAssumption DEF TypeOK, View, Row, Position
  <2>3. read.payload[r].rule_version > next => read.payload[r].rule_version \in 1..Len(events)
    BY <1>2, <2>1, <2>2 DEF Reflects, Absent
  <2>4. QED
    BY <1>4, <2>1, <2>3
<1>7. SnapshotReflects(s)
  <2> HIDE DEF s
  <2>1. QED
    BY <1>1, <1>2, <1>3, <1>4, <1>6 DEF SnapshotReflects, ReadSound
<1>8. QED
  BY <1>5, <1>7

LEMMA CountEventInv == ASSUME IInv, CountEvent PROVE IInv'
<1>1. /\ pc = "count" /\ count' = count + 1
      /\ \/ pc' = "snapshot" /\ read' = [payload |-> view, lost |-> skipped]
         \/ pc' = "checkpoint" /\ read' = read
      /\ UNCHANGED <<events, inserted, clock, view, snapshots, checkpoint, next, batch,
                     attempt, raises, restarts, rebuilds, skipped>>
  BY DEF CountEvent, store, tables, faults
<1>2. TypeOK /\ Bounds
  BY DEF IInv
<1>3. TypeOK'
  <2>1. read' \in [payload : View, lost : SUBSET Position]
    BY <1>1, <1>2 DEF TypeOK
  <2>2. QED
    BY <1>1, <1>2, <2>1 DEF TypeOK
<1>4. Bounds' /\ Handled' = Handled /\ Handled = next
  BY <1>1, <1>2 DEF Bounds, Handled
<1>5. EventsSound'
  BY <1>1 DEF IInv, EventsSound
<1>6. ViewReflects'
  BY <1>1, <1>4 DEF IInv, ViewReflects, Reflects, Intact, Concerns, Absent
<1>7. ReadSound'
  <2>1. CASE pc' = "snapshot" /\ read' = [payload |-> view, lost |-> skipped]
    BY <1>1, <1>2, <1>4, <2>1
    DEF IInv, ReadSound, ViewReflects, Reflects, Intact, Concerns, Absent, Bounds
  <2>2. CASE pc' = "checkpoint"
    BY <2>2 DEF ReadSound
  <2>3. QED
    BY <1>1, <2>1, <2>2
<1>8. QED
  BY <1>1, <1>3, <1>4, <1>5, <1>6, <1>7, SnapshotsStay DEF IInv

LEMMA WriteSnapshotInv == ASSUME IInv, WriteSnapshot PROVE IInv'
<1>1. /\ pc = "snapshot" /\ pc' = "checkpoint" /\ read' = NothingRead
      /\ clock' = clock + 1 /\ snapshots' = snapshots \cup {SnapshotOf(clock + 1)}
      /\ UNCHANGED <<events, inserted, view, checkpoint, next, batch, attempt, count, raises,
                     restarts, rebuilds, skipped>>
  BY DEF WriteSnapshot, faults
<1>2. clock \in Nat /\ clock' \in Nat /\ clock <= clock'
  BY <1>1 DEF IInv, TypeOK
<1>3. \A s \in snapshots' : s \in Snapshot /\ SnapshotReflects(s)
  BY <1>1, SnapshotSound DEF IInv, TypeOK
<1>4. TypeOK'
  BY <1>1, <1>2, <1>3, NothingReadTyped DEF IInv, TypeOK
<1>5. Bounds' /\ Handled' = Handled
  BY <1>1 DEF IInv, Bounds, Handled
<1>6. EventsSound'
  <2>1. /\ \A i \in 1..Len(events) : events[i].recorded_at \in Nat
        /\ \A i \in 1..Len(inserted) : inserted[i].recorded_at \in Nat
    BY Lengths DEF IInv, Event
  <2>2. QED
    BY <1>1, <1>2, <2>1 DEF IInv, EventsSound
<1>7. ViewReflects'
  BY <1>1, <1>5 DEF IInv, ViewReflects, Reflects, Intact, Concerns, Absent
<1>8. \A s \in snapshots' : SnapshotReflects(s)'
  BY <1>1, <1>3 DEF SnapshotReflects, Reflects, Intact, Concerns, Absent
<1>9. ReadSound'
  BY <1>1 DEF ReadSound
<1>10. QED
  BY <1>4, <1>5, <1>6, <1>7, <1>8, <1>9 DEF IInv

\* The daemon leaves its event behind it, or forgets its batch: fewer events count as
\* handled, and an event that is given up is one the view lacks.
LEMMA ViewLeft ==
  ASSUME IInv, events' = events, view' = view, skipped \subseteq skipped',
         \/ Handled' \in 0..Handled
         \/ pc = "upsert" /\ next \in skipped' /\ Handled' \in 0..next
  PROVE  ViewReflects'
<1>1. TypeOK /\ Bounds
  BY DEF IInv
<1>2. Handled \in 0..Len(events) /\ (pc = "upsert" => next \in 1..Len(events) /\ Handled = next - 1)
  BY <1>1, Lengths DEF Bounds, TypeOK, Handled
<1> SUFFICES ASSUME NEW r \in RuleId, Intact(r, skipped')
             PROVE  Reflects(view[r], r, Handled')
  BY DEF ViewReflects, Reflects, Intact, Concerns, Absent
<1>3. view[r] \in Row /\ Reflects(view[r], r, Handled)
  BY <1>1, Lengths DEF IInv, ViewReflects, Intact
<1>4. CASE Handled' \in 0..Handled
  BY <1>1, <1>2, <1>3, <1>4, ReflectsLess
<1>5. CASE pc = "upsert" /\ next \in skipped' /\ Handled' \in 0..next
  <2>1. ~Concerns(r, next)
    BY <1>5 DEF Intact
  <2>2. Reflects(view[r], r, next)
    BY <1>1, <1>2, <1>3, <1>5, <2>1, ReflectsMore
  <2>3. QED
    BY <1>1, <1>2, <1>3, <1>5, <2>2, ReflectsLess
<1>6. QED
  BY <1>4, <1>5

LEMMA NextEventSound ==
  ASSUME TypeOK, Bounds, pc # "poll", NextEvent, checkpoint' \in {checkpoint, next},
         UNCHANGED <<events, inserted>>, skipped' \subseteq 1..Len(events)
  PROVE  /\ Bounds' /\ Handled' \in 0..next /\ checkpoint' \in Position
         /\ pc' \in {"poll", "upsert"} /\ next' \in 1..MaxEvents + 1
         /\ batch' \in Position /\ attempt' \in 1..MaxRetries
<1>1. /\ next \in 1..batch /\ batch \in 0..Len(events) /\ Len(events) \in 0..MaxEvents
      /\ MaxEvents \in Nat /\ checkpoint \in 0..next /\ checkpoint < next
  BY Lengths DEF TypeOK, Bounds
<1>2. attempt' \in 1..MaxRetries
  BY AuditViewAssumption DEF NextEvent
<1>3. CASE next < batch
  BY <1>1, <1>2, <1>3 DEF NextEvent, Bounds, Handled, Position
<1>4. CASE ~(next < batch)
  BY <1>1, <1>2, <1>4 DEF NextEvent, Bounds, Handled, Position
<1>5. QED
  BY <1>3, <1>4

LEMMA AdvanceInv == ASSUME IInv, Advance PROVE IInv'
<1>1. /\ pc = "checkpoint" /\ checkpoint' = next /\ NextEvent
      /\ UNCHANGED <<events, inserted, clock, view, snapshots, count, read, raises, restarts,
                     rebuilds, skipped>>
  BY DEF Advance, store, faults
<1>2. /\ Bounds' /\ Handled' \in 0..next /\ checkpoint' \in Position
      /\ pc' \in {"poll", "upsert"} /\ next' \in 1..MaxEvents + 1
      /\ batch' \in Position /\ attempt' \in 1..MaxRetries
  BY <1>1, NextEventSound DEF IInv, Bounds
<1>3. TypeOK'
  BY <1>1, <1>2 DEF IInv, TypeOK
<1>4. Handled = next
  BY <1>1 DEF Handled
<1>5. ViewReflects'
  BY <1>1, <1>2, <1>4, ViewLeft
<1>6. ReadSound'
  BY <1>2 DEF ReadSound
<1>7. QED
  BY <1>1, <1>2, <1>3, <1>5, <1>6, SnapshotsStay DEF IInv, EventsSound

LEMMA RaiseInv == ASSUME IInv, Raise PROVE IInv'
<1>1. /\ pc \in {"upsert", "count", "snapshot"} /\ count' \in {count, count + 1}
      /\ raises < MaxRaises /\ raises' = raises + 1 /\ read' = NothingRead
      /\ UNCHANGED <<events, inserted, clock, view, snapshots, checkpoint, restarts, rebuilds>>
  BY DEF Raise, store, tables
<1>2. TypeOK /\ Bounds /\ MaxRaises \in Nat /\ MaxRetries \in Nat
  BY AuditViewAssumption DEF IInv
<1>3. /\ next \in 1..Len(events) /\ next <= batch /\ Len(events) \in 0..MaxEvents
      /\ MaxEvents \in Nat /\ checkpoint \in 0..(next - 1)
  BY <1>1, <1>2, Lengths DEF TypeOK, Bounds
<1>4. CASE LastAttempt
  <2>1. NextEvent /\ skipped' = IF pc = "upsert" THEN skipped \cup {next} ELSE skipped
    BY <1>4 DEF Raise
  <2>2. skipped' \subseteq 1..Len(events) /\ skipped' \subseteq Position
    BY <1>2, <1>3, <2>1 DEF Bounds, Position
  <2>3. /\ Bounds' /\ Handled' \in 0..next
        /\ pc' \in {"poll", "upsert"} /\ next' \in 1..MaxEvents + 1
        /\ batch' \in Position /\ attempt' \in 1..MaxRetries
    BY <1>1, <1>2, <2>1, <2>2, NextEventSound
  <2>4. TypeOK'
    BY <1>1, <1>2, <2>2, <2>3, NothingReadTyped DEF TypeOK
  <2>5. ViewReflects'
    BY <1>1, <2>1, <2>3, ViewLeft DEF Handled
  <2>6. ReadSound'
    BY <2>3 DEF ReadSound
  <2>7. QED
    BY <1>1, <2>3, <2>4, <2>5, <2>6, SnapshotsStay DEF IInv, EventsSound
<1>5. CASE ~LastAttempt
  <2>1. /\ attempt' = attempt + 1 /\ pc' = "upsert"
        /\ UNCHANGED <<next, batch, skipped>>
    BY <1>5 DEF Raise
  <2>2. attempt' \in 1..MaxRetries
    BY <1>2, <1>5, <2>1 DEF LastAttempt, TypeOK
  <2>3. TypeOK'
    BY <1>1, <1>2, <2>1, <2>2, NothingReadTyped DEF TypeOK
  <2>4. Bounds'
    BY <1>1, <1>2, <2>1 DEF Bounds
  <2>5. Handled' = next - 1 /\ Handled \in {next - 1, next}
    BY <1>1, <2>1 DEF Handled
  <2>6. ViewReflects'
    BY <1>1, <1>3, <2>1, <2>5, ViewLeft
  <2>7. ReadSound'
    BY <2>1 DEF ReadSound
  <2>8. QED
    BY <1>1, <2>3, <2>4, <2>6, <2>7, SnapshotsStay DEF IInv, EventsSound
<1>6. QED
  BY <1>4, <1>5

\* A batch that ends before its page does: the daemon goes back to its checkpoint.
LEMMA ForgottenInv ==
  ASSUME IInv, BatchForgotten, read' = NothingRead, count' \in Nat,
         raises' \in 0..MaxRaises, restarts' \in 0..MaxRestarts,
         UNCHANGED <<events, inserted, clock, view, snapshots, checkpoint, rebuilds, skipped>>
  PROVE  IInv'
<1>1. pc' = "poll" /\ next' = 1 /\ batch' = 0 /\ attempt' = 1
  BY DEF BatchForgotten
<1>2. TypeOK /\ Bounds
  BY DEF IInv
<1>3. TypeOK'
  <2>1. /\ next' \in 1..MaxEvents + 1 /\ batch' \in Position
        /\ attempt' \in 1..MaxRetries
    BY <1>1, AuditViewAssumption DEF Position
  <2>2. QED
    BY <1>1, <1>2, <2>1, NothingReadTyped DEF TypeOK
<1>4. Bounds'
  BY <1>1, <1>2 DEF Bounds
<1>5. Handled' \in 0..Handled
  BY <1>1, <1>2, Lengths DEF Handled, Bounds, TypeOK
<1>6. ViewReflects'
  BY <1>1, <1>5, ViewLeft
<1>7. ReadSound'
  BY <1>1 DEF ReadSound
<1>8. QED
  BY <1>1, <1>3, <1>4, <1>6, <1>7, SnapshotsStay DEF IInv, EventsSound

LEMMA BreakOffInv == ASSUME IInv, BreakOff PROVE IInv'
<1>1. /\ BatchForgotten /\ read' = NothingRead /\ count' \in {count, count + 1}
      /\ raises < MaxRaises /\ raises' = raises + 1
      /\ UNCHANGED <<events, inserted, clock, view, snapshots, checkpoint, restarts, rebuilds,
                     skipped>>
  BY DEF BreakOff, store, tables
<1>2. count' \in Nat /\ raises' \in 0..MaxRaises /\ restarts' \in 0..MaxRestarts
  BY <1>1, AuditViewAssumption DEF IInv, TypeOK
<1>3. QED
  BY <1>1, <1>2, ForgottenInv

LEMMA RestartInv == ASSUME IInv, Restart PROVE IInv'
<1>1. /\ BatchForgotten /\ read' = NothingRead /\ count' = 0
      /\ restarts < MaxRestarts /\ restarts' = restarts + 1
      /\ UNCHANGED <<events, inserted, clock, view, snapshots, checkpoint, raises, rebuilds,
                     skipped>>
  BY DEF Restart, store, tables
<1>2. count' \in Nat /\ raises' \in 0..MaxRaises /\ restarts' \in 0..MaxRestarts
  BY <1>1, AuditViewAssumption DEF IInv, TypeOK
<1>3. QED
  BY <1>1, <1>2, ForgottenInv

\* After a rebuild the view is empty: it lacks everything the batch has left behind.
LEMMA RebuildInv == ASSUME IInv, Rebuild PROVE IInv'
<1>1. /\ rebuilds < MaxRebuilds /\ rebuilds' = rebuilds + 1 /\ view' = NoRows
      /\ snapshots' = {} /\ checkpoint' = 0 /\ count' = 0
      /\ skipped' = IF pc = "poll" THEN {}
                    ELSE 1..(IF pc = "upsert" THEN next - 1 ELSE next)
      /\ UNCHANGED <<events, inserted, clock, pc, next, batch, attempt, read, raises,
                     restarts>>
  BY DEF Rebuild, store
<1>2. TypeOK /\ Bounds
  BY DEF IInv
<1>3. /\ pc # "poll" => next \in 1..Len(events)
      /\ next \in Nat /\ Len(events) \in 0..MaxEvents /\ MaxEvents \in Nat
  BY <1>2, Lengths DEF TypeOK, Bounds
<1>4. skipped' \subseteq 1..Len(events) /\ skipped' = 1..Handled' /\ Handled' \in 0..Len(events)
  BY <1>1, <1>3 DEF Handled
<1>5. view' \in View
  BY <1>1, AuditViewAssumption DEF NoRows, Absent, View, Row, Position
<1>6. TypeOK'
  BY <1>1, <1>2, <1>3, <1>4, <1>5, AuditViewAssumption DEF TypeOK, Position
<1>7. Bounds'
  BY <1>1, <1>2, <1>3, <1>4 DEF Bounds
<1>8. ViewReflects'
  BY <1>1, <1>4 DEF ViewReflects, Reflects, Intact, Concerns, NoRows
<1>9. ReadSound'
  BY <1>1, ReadStays DEF IInv
<1>10. QED
  BY <1>1, <1>6, <1>7, <1>8, <1>9 DEF IInv, EventsSound

LEMMA NextInv == ASSUME IInv, [Next]_vars PROVE IInv'
<1>1. ASSUME NEW kind \in RuleResult, NEW r \in RuleId, InsertEvent(kind, {r})
      PROVE  IInv'
  BY <1>1, InsertEventInv DEF EventKind, RuleResult, OnStream, StatusBy
<1>2. ASSUME NEW kind \in EventKind \ RuleResult, InsertEvent(kind, {})
      PROVE  IInv'
  BY <1>2, InsertEventInv
<1>3. CASE UNCHANGED vars
  <2>1. UNCHANGED <<events, inserted, clock, view, snapshots, checkpoint, pc, next, batch,
                    attempt, count, read, raises, restarts, rebuilds, skipped>>
    BY <1>3 DEF vars, store, tables, daemon, faults
  <2>2. TypeOK' /\ Bounds' /\ EventsSound' /\ ReadSound'
    BY <2>1, ReadStays DEF IInv, TypeOK, Bounds, EventsSound
  <2>3. ViewReflects'
    BY <2>1 DEF IInv, ViewReflects, Reflects, Handled, Intact, Concerns, Absent
  <2>4. QED
    BY <2>1, <2>2, <2>3, SnapshotsStay DEF IInv
<1>4. QED
  BY <1>1, <1>2, <1>3, CommitEventsInv, StartBatchInv, UpsertInv, CountEventInv,
     WriteSnapshotInv, AdvanceInv, RaiseInv, BreakOffInv, RestartInv, RebuildInv DEF Next

THEOREM Invariance == Spec => []IInv
BY InitInv, NextInv, PTL DEF Spec

\* Every variable keeps its type in every behaviour, the snapshots included.
THEOREM TypeCorrect == Spec => []TypeOK
<1>1. IInv => TypeOK
  BY DEF IInv
<1>2. QED
  BY <1>1, Invariance, PTL

\* What a query derives from a table state that reflects the stream.
LEMMA AnswerIsFaithful ==
  ASSUME IInv, NEW t \in Nat, NEW s \in Snapshot, SnapshotReflects(s), s.snapshot_at <= t,
         NEW r \in RuleId, Intact(r, s.lost)
  PROVE  LET known == RecordedBy(r, t)
         IN  IF known = {} THEN Answer(s, t)[r] = Absent
             ELSE /\ Answer(s, t)[r].rule_version = Max(known)
                  /\ Answer(s, t)[r].status = StatusBy[events[Max(known)].kind]
<1> DEFINE known == RecordedBy(r, t)
           behind == Behind(r, s.event_position, t)
           row == s.payload[r]
           v == s.payload[r].rule_version
<1>1. /\ Len(events) \in Nat /\ s.event_position \in 0..Len(events) /\ s.snapshot_at \in Nat
      /\ row \in Row /\ v \in Nat
      /\ \A i \in 1..Len(events) : events[i] \in Event
  BY Lengths DEF IInv, SnapshotReflects, Snapshot, Position, View, Row
<1>2. /\ known \subseteq 1..Len(events) /\ behind \subseteq known
      /\ \A i \in 1..Len(events) :
           i \in known <=> Concerns(r, i) /\ events[i].recorded_at <= t
      /\ \A i \in 1..Len(events) : i \in behind <=> i \in known /\ i > s.event_position
  BY <1>1 DEF RecordedBy, Behind, Concerns
<1>3. Answer(s, t)[r] = IF behind = {} THEN row
                         ELSE RowApplied(events[Max(behind)].kind, Max(behind))
  BY DEF Answer, Delta
<1> HIDE DEF known, behind
<1>4. Reflects(row, r, s.event_position)
  BY DEF SnapshotReflects
<1>5. v > s.event_position => v \in behind
  <2>1. ASSUME v > s.event_position
        PROVE  v \in 1..Len(events) /\ Concerns(r, v) /\ events[v].recorded_at <= s.snapshot_at
    BY <1>1, <1>4, <2>1 DEF Reflects, Absent, SnapshotReflects
  <2>2. ASSUME v > s.event_position PROVE events[v].recorded_at <= t
    BY <1>1, <2>1, <2>2 DEF Event
  <2>3. QED
    BY <1>2, <2>1, <2>2
<1>6. \A i \in 1..s.event_position : Concerns(r, i) => i \in known
  <2> SUFFICES ASSUME NEW i \in 1..s.event_position, Concerns(r, i) PROVE i \in known
    OBVIOUS
  <2>1. i \in 1..Len(events) /\ events[i].recorded_at \in Nat
    BY <1>1 DEF Event
  <2>2. events[i].recorded_at <= t
    BY <1>1, <2>1 DEF SnapshotReflects
  <2>3. QED
    BY <1>2, <2>1, <2>2
<1>7. known \subseteq 1..Len(events) /\ behind \subseteq 1..Len(events)
  BY <1>2
<1>8. CASE behind # {}
  <2>1. Max(behind) \in behind /\ \A i \in behind : i <= Max(behind)
    BY <1>1, <1>7, <1>8, LastPosition
  <2>2. known # {} /\ Max(known) \in known /\ \A i \in known : i <= Max(known)
    BY <1>1, <1>2, <1>7, <1>8, LastPosition
  <2>3. Max(known) = Max(behind)
    <3>1. Max(behind) \in known /\ Max(behind) \in 1..Len(events)
          /\ Max(behind) > s.event_position
      BY <1>2, <1>7, <2>1
    <3>2. ASSUME NEW i \in known PROVE i <= Max(behind)
      <4>1. i \in 1..Len(events)
        BY <1>7
      <4>2. CASE i > s.event_position
        BY <1>2, <2>1, <4>1, <4>2
      <4>3. CASE ~(i > s.event_position)
        BY <1>1, <3>1, <4>1, <4>3
      <4>4. QED
        BY <4>2, <4>3
    <3>3. QED
      BY <1>1, <1>7, <3>1, <3>2, LastIs
  <2>4. events[Max(behind)].kind \in DOMAIN StatusBy
    <3>1. Max(behind) \in 1..Len(events) /\ events[Max(behind)].rules # {}
      BY <1>2, <2>1 DEF Concerns
    <3>2. QED
      BY <3>1 DEF IInv, EventsSound
  <2>5. /\ RowApplied(events[Max(behind)].kind, Max(behind)).rule_version = Max(behind)
        /\ RowApplied(events[Max(behind)].kind, Max(behind)).status
             = StatusBy[events[Max(behind)].kind]
    BY <2>4 DEF RowApplied, StatusBy
  <2>6. QED
    BY <1>3, <1>8, <2>2, <2>3, <2>5 DEF known
<1>9. CASE behind = {}
  <2>1. Answer(s, t)[r] = row
    BY <1>3, <1>9
  <2>2. ~(v > s.event_position)
    BY <1>5, <1>9
  <2>3. ASSUME NEW i \in known
        PROVE  i \in 1..s.event_position /\ Concerns(r, i)
    <3>1. i \in 1..Len(events)
      BY <1>7
    <3>2. ~(i > s.event_position)
      BY <1>2, <1>9, <3>1
    <3>3. QED
      BY <1>1, <1>2, <3>1, <3>2
  <2>4. CASE row = Absent /\ \A i \in 1..s.event_position : ~Concerns(r, i)
    <3>1. known = {}
      BY <2>3, <2>4
    <3>2. QED
      BY <2>1, <2>4, <3>1 DEF known
  <2>5. CASE /\ v \in 1..s.event_position /\ Concerns(r, v)
             /\ row.status = StatusBy[events[v].kind]
             /\ \A i \in (v + 1)..s.event_position : ~Concerns(r, i)
    <3>1. v \in known
      BY <1>6, <2>5
    <3>2. ASSUME NEW i \in known PROVE i <= v
      <4>1. i \in 1..s.event_position /\ Concerns(r, i)
        BY <2>3
      <4>2. ~(i \in (v + 1)..s.event_position)
        BY <2>5, <4>1
      <4>3. QED
        BY <1>1, <4>1, <4>2
    <3>3. Max(known) = v
      BY <1>1, <1>7, <3>1, <3>2, LastIs
    <3>4. QED
      BY <2>1, <2>5, <3>1, <3>3 DEF known
  <2>6. QED
    BY <1>1, <1>4, <2>2, <2>4, <2>5 DEF Reflects
<1>10. QED
  BY <1>8, <1>9

\* A query about any past moment gives each rule the version and the status of its
\* last event recorded by then, from whichever snapshot it starts, for any number of
\* events, failures, restarts and rebuilds.
THEOREM TemporalQueriesAreFaithful == Spec => []TemporalQueryFaithful
<1>1. IInv => TemporalQueryFaithful
  <2> SUFFICES ASSUME IInv, NEW t \in 0..clock, NEW r \in RuleId, NEW s \in OldEnough(t),
                      \A i \in s.lost : r \notin events[i].rules
               PROVE  LET known == RecordedBy(r, t)
                      IN  IF known = {} THEN Answer(s, t)[r] = Absent
                          ELSE /\ Answer(s, t)[r].rule_version = Max(known)
                               /\ Answer(s, t)[r].status = StatusBy[events[Max(known)].kind]
    BY DEF TemporalQueryFaithful
  <2>1. t \in Nat /\ Intact(r, s.lost)
    BY DEF IInv, TypeOK, Intact, Concerns
  <2>2. CASE s \in snapshots /\ s.snapshot_at <= t
    <3>1. s \in Snapshot /\ SnapshotReflects(s)
      BY <2>2 DEF IInv, TypeOK
    <3>2. QED
      BY <2>1, <2>2, <3>1, AnswerIsFaithful
  <2>3. CASE s = NoSnapshot
    <3>1. s \in Snapshot /\ s.snapshot_at <= t
      BY <2>1, <2>3, AuditViewAssumption
      DEF NoSnapshot, Snapshot, NoRows, View, Row, Absent, Position
    <3>2. SnapshotReflects(s)
      BY <2>3, Lengths DEF IInv, SnapshotReflects, NoSnapshot, Reflects, NoRows, Absent
    <3>3. QED
      BY <2>1, <3>1, <3>2, AnswerIsFaithful
  <2>4. QED
    BY <2>2, <2>3 DEF OldEnough
<1>2. QED
  BY <1>1, Invariance, PTL

--------------------------------------------------------------------------------

(* How many events lie behind the last snapshot. *)

\* The events the batch has counted or left behind it.
Counted == IF pc = "poll" THEN checkpoint ELSE IF pc = "checkpoint" THEN next ELSE next - 1

Points == {0} \cup {s.event_position : s \in snapshots}

\* The events of a log between two positions that are counted.
Tally(log, from, to) ==
  Cardinality({i \in from + 1..to : log[i].kind \in _SUBSCRIBED_EVENTS})

\* What has been counted towards the next snapshot, with one interval for each fault.
Allowed(n, f) == (n % Trigger) + Trigger * f
Allowance ==
  IF pc = "snapshot" THEN (Trigger - 1) + Trigger * (raises + restarts)
                     ELSE Allowed(count, raises + restarts)

Within(n) == \E point \in Points : Tally(events, point, n) <= Allowance

\* A batch that a rebuild has overtaken counts on from where it is, but it has lost
\* events: until its next checkpoint they may be replayed, from then on they stay lost.
DeltaInv ==
  \/ Within(Counted)
  \/ \E i \in skipped : i <= checkpoint
  \/ Within(checkpoint) /\ \E i \in skipped : i <= Counted

LEMMA Quotient ==
  ASSUME NEW t \in Nat \ {0}, NEW n \in Nat
  PROVE  \E q \in Nat, r \in 0..(t - 1) : n = t * q + r /\ r = n % t
<1>1. n \div t \in Nat /\ n = t * (n \div t) + (n % t) /\ n % t \in 0..(t - 1)
  OBVIOUS
<1>2. QED
  BY <1>1

LEMMA RemainderOfNext ==
  ASSUME NEW t \in Nat \ {0}, NEW n \in Nat
  PROVE  (n + 1) % t = IF n % t = t - 1 THEN 0 ELSE (n % t) + 1
<1>1. PICK q \in Nat, r \in 0..(t - 1) : n = t * q + r /\ r = n % t
  BY Quotient
<1>2. PICK p \in Nat, s \in 0..(t - 1) : n + 1 = t * p + s /\ s = (n + 1) % t
  <2> DEFINE m == n + 1
  <2>1. m \in Nat
    OBVIOUS
  <2> HIDE DEF m
  <2>2. \E p \in Nat, s \in 0..(t - 1) : m = t * p + s /\ s = m % t
    BY <2>1, Quotient
  <2>3. QED
    BY <2>2 DEF m
<1>3. t * p + s = t * q + r + 1
  BY <1>1, <1>2
<1>4. ASSUME NEW a \in Nat, NEW b \in Nat, a < b
      PROVE  t * a + t <= t * b
  <2>1. t * a + t = t * (a + 1) /\ b = (a + 1) + (b - a - 1) /\ b - a - 1 \in Nat
    BY <1>4
  <2>2. t * b = t * (a + 1) + t * (b - a - 1) /\ t * (b - a - 1) \in Nat
    BY <2>1
  <2>3. t * (a + 1) \in Nat
    OBVIOUS
  <2>4. QED
    BY <2>1, <2>2, <2>3
<1>5. t * p \in Nat /\ t * q \in Nat
  OBVIOUS
<1>6. CASE p < q
  BY <1>3, <1>4, <1>5, <1>6
<1>7. CASE p = q
  BY <1>1, <1>2, <1>3, <1>5, <1>7
<1>8. CASE q < p
  <2>1. t * q + t <= t * p
    BY <1>4, <1>8
  <2>2. QED
    BY <1>1, <1>2, <1>3, <1>5, <2>1
<1>9. QED
  BY <1>6, <1>7, <1>8

LEMMA AllowedBounds ==
  ASSUME NEW n \in Nat, NEW f \in Nat
  PROVE  /\ Allowed(n, f) \in Nat /\ Trigger \in Nat \ {0}
         /\ n % Trigger \in 0..(Trigger - 1)
         /\ Allowed(n, f) < Trigger * (f + 1)
         /\ Trigger * (f + 1) \in Nat
<1>1. Trigger \in Nat \ {0}
  BY AuditViewAssumption
<1>2. n % Trigger \in 0..(Trigger - 1)
  BY <1>1
<1>3. Trigger * (f + 1) = Trigger * f + Trigger /\ Trigger * f \in Nat
  BY <1>1
<1>4. QED
  BY <1>1, <1>2, <1>3 DEF Allowed

LEMMA TallyTyped ==
  ASSUME NEW log, NEW from \in Nat, NEW to \in Nat
  PROVE  /\ IsFiniteSet({i \in from + 1..to : log[i].kind \in _SUBSCRIBED_EVENTS})
         /\ Tally(log, from, to) \in Nat
         /\ to <= from => Tally(log, from, to) = 0
<1> DEFINE S == {i \in from + 1..to : log[i].kind \in _SUBSCRIBED_EVENTS}
<1>1. IsFiniteSet(from + 1..to)
  BY FS_Interval
<1>2. IsFiniteSet(S)
  <2>1. S \in SUBSET (from + 1..to)
    OBVIOUS
  <2> HIDE DEF S
  <2>2. QED
    BY <1>1, <2>1, FS_Subset
<1>3. to <= from => S = {}
  <2>1. to <= from => from + 1..to = {}
    OBVIOUS
  <2>2. QED
    BY <2>1
<1>4. QED
  BY <1>2, <1>3, FS_CardinalityType, FS_EmptySet DEF Tally

LEMMA TallyOfNone ==
  ASSUME NEW log, NEW n \in Nat
  PROVE  Tally(log, n, n) = 0
<1>1. n <= n
  OBVIOUS
<1>2. QED
  BY <1>1, TallyTyped

LEMMA TallyNoMore ==
  ASSUME NEW log, NEW from \in Nat, NEW to \in Nat
  PROVE  Tally(log, from, to) <= Tally(log, from, to) + 1
<1>1. PICK n \in Nat : n = Tally(log, from, to)
  BY TallyTyped
<1>2. n <= n + 1
  OBVIOUS
<1>3. QED
  BY <1>1, <1>2

LEMMA TallyLess ==
  ASSUME NEW log, NEW from \in Nat, NEW to \in Nat, NEW behind \in Nat, NEW upto \in Nat,
         from <= behind, upto <= to
  PROVE  Tally(log, behind, upto) <= Tally(log, from, to)
<1> DEFINE S == {i \in from + 1..to : log[i].kind \in _SUBSCRIBED_EVENTS}
           T == {i \in behind + 1..upto : log[i].kind \in _SUBSCRIBED_EVENTS}
<1>1. T \in SUBSET S
  <2>1. behind + 1..upto \subseteq from + 1..to
    OBVIOUS
  <2>2. QED
    BY <2>1
<1>2. IsFiniteSet(S)
  BY TallyTyped
<1>3. Cardinality(T) <= Cardinality(S)
  <2> HIDE DEF S, T
  <2>1. QED
    BY <1>1, <1>2, FS_Subset
<1>4. QED
  BY <1>3 DEF Tally

LEMMA TallyNext ==
  ASSUME NEW log, NEW from \in Nat, NEW n \in Nat
  PROVE  /\ Tally(log, from, n + 1) <= Tally(log, from, n) + 1
         /\ log[n + 1].kind \notin _SUBSCRIBED_EVENTS =>
              Tally(log, from, n + 1) <= Tally(log, from, n)
<1> DEFINE S == {i \in from + 1..n : log[i].kind \in _SUBSCRIBED_EVENTS}
           T == {i \in from + 1..n + 1 : log[i].kind \in _SUBSCRIBED_EVENTS}
<1>1. \A i \in from + 1..n + 1 : i \in from + 1..n \/ i = n + 1
  OBVIOUS
<1>2. T \subseteq S \cup {n + 1} /\ (n + 1 \notin T => T \subseteq S)
  BY <1>1
<1>3. IsFiniteSet(S) /\ Cardinality(S) \in Nat /\ Cardinality(T) \in Nat
  <2>1. n + 1 \in Nat
    OBVIOUS
  <2>2. \A to \in Nat :
          /\ IsFiniteSet({i \in from + 1..to : log[i].kind \in _SUBSCRIBED_EVENTS})
          /\ Cardinality({i \in from + 1..to : log[i].kind \in _SUBSCRIBED_EVENTS}) \in Nat
    BY TallyTyped DEF Tally
  <2>3. QED
    BY <2>1, <2>2
<1>4. /\ Cardinality(T) <= Cardinality(S) + 1
      /\ n + 1 \notin T => Cardinality(T) <= Cardinality(S)
  <2>1. n + 1 \notin T => T \in SUBSET S
    BY <1>2
  <2>2. T \in SUBSET (S \cup {n + 1})
    BY <1>2
  <2> HIDE DEF S, T
  <2>3. /\ IsFiniteSet(S \cup {n + 1})
        /\ Cardinality(S \cup {n + 1}) \in {Cardinality(S), Cardinality(S) + 1}
    BY <1>3, FS_AddElement
  <2>4. Cardinality(T) <= Cardinality(S \cup {n + 1})
    BY <2>2, <2>3, FS_Subset
  <2>5. n + 1 \notin T => Cardinality(T) <= Cardinality(S)
    BY <1>3, <2>1, FS_Subset
  <2>6. QED
    BY <1>3, <2>3, <2>4, <2>5
<1>5. log[n + 1].kind \notin _SUBSCRIBED_EVENTS => n + 1 \notin T
  OBVIOUS
<1>6. QED
  BY <1>4, <1>5 DEF Tally

\* A fault is worth at least the event that is counted, or not counted, for it.
LEMMA FaultAllows ==
  ASSUME NEW n \in Nat, NEW f \in Nat, NEW m \in Nat,
         m \in {0, n} \/ (m = n + 1 /\ SnapshotDue(n + 1))
  PROVE  Allowed(n, f) + 1 <= Allowed(m, f + 1)
<1>1. /\ Trigger \in Nat \ {0} /\ n % Trigger \in 0..(Trigger - 1)
      /\ m % Trigger \in 0..(Trigger - 1)
  BY AllowedBounds
<1>2. Trigger * (f + 1) = Trigger * f + Trigger /\ Trigger * f \in Nat
  BY <1>1
<1>3. CASE m \in {0, n}
  BY <1>1, <1>2, <1>3 DEF Allowed
<1>4. CASE m = n + 1 /\ SnapshotDue(n + 1)
  <2>1. m % Trigger = 0
    BY <1>4 DEF SnapshotDue
  <2>2. QED
    BY <1>1, <1>2, <1>4, <2>1 DEF Allowed
<1>5. QED
  BY <1>3, <1>4

LEMMA CountTyped ==
  ASSUME IInv
  PROVE  /\ count \in Nat /\ raises \in Nat /\ restarts \in Nat
         /\ raises + restarts \in Nat /\ Trigger * (raises + restarts) \in Nat
         /\ Trigger \in Nat \ {0} /\ count % Trigger \in 0..(Trigger - 1)
         /\ Allowance \in Nat
         /\ Allowance < Trigger * (1 + raises + restarts)
         /\ Trigger * (1 + raises + restarts) \in Nat
<1>1. count \in Nat /\ raises \in Nat /\ restarts \in Nat /\ Trigger \in Nat \ {0}
  BY AuditViewAssumption DEF IInv, TypeOK
<1>2. PICK f \in Nat : f = raises + restarts
  BY <1>1
<1>3. /\ Allowed(count, f) \in Nat /\ count % Trigger \in 0..(Trigger - 1)
      /\ Allowed(count, f) < Trigger * (f + 1) /\ Trigger * (f + 1) \in Nat
  BY <1>1, AllowedBounds
<1>4. 1 + raises + restarts = f + 1
  BY <1>1, <1>2
<1>5. Trigger * (f + 1) = Trigger * f + Trigger /\ Trigger * f \in Nat
  BY <1>1
<1>6. CASE pc = "snapshot"
  <2>1. Allowance = (Trigger - 1) + Trigger * f
    BY <1>2, <1>6 DEF Allowance
  <2>2. QED
    BY <1>1, <1>2, <1>3, <1>4, <1>5, <2>1
<1>7. CASE pc # "snapshot"
  <2>1. Allowance = Allowed(count, f)
    BY <1>2, <1>7 DEF Allowance
  <2>2. QED
    BY <1>1, <1>2, <1>3, <1>4, <1>5, <2>1
<1>8. QED
  BY <1>6, <1>7

LEMMA AllowanceTyped == ASSUME IInv' PROVE Allowance' \in Nat
<1>1. count' \in Nat /\ raises' \in Nat /\ restarts' \in Nat /\ Trigger \in Nat \ {0}
  BY AuditViewAssumption DEF IInv, TypeOK
<1>2. PICK n \in Nat : n = count'
  BY <1>1
<1>3. PICK f \in Nat : f = raises' + restarts'
  <2>1. \A a, b \in Nat : a + b \in Nat
    OBVIOUS
  <2>2. QED
    BY <1>1, <2>1, Zenon
<1>4. Allowed(n, f) \in Nat
  BY AllowedBounds
<1>5. (Trigger - 1) + Trigger * f \in Nat
  <2>1. Trigger * f \in Nat
    BY <1>1
  <2>2. QED
    BY <1>1, <2>1
<1>6. QED
  BY <1>2, <1>3, <1>4, <1>5 DEF Allowance

LEMMA Reach ==
  ASSUME IInv
  PROVE  /\ Counted \in Nat /\ checkpoint \in Nat /\ checkpoint <= Counted
         /\ pc # "poll" => next \in Nat /\ checkpoint < next /\ Counted \in {next - 1, next}
         /\ Counted <= Len(events) /\ Len(events) \in Nat
         /\ \A i \in skipped : i \in Nat
         /\ \A point \in Points : point \in Nat
<1>1. TypeOK /\ Bounds
  BY DEF IInv
<1>2. \A s \in snapshots : s.event_position \in Nat
  BY <1>1 DEF TypeOK, Snapshot, Position
<1>3. QED
  BY <1>1, <1>2, Lengths DEF Counted, Points, TypeOK, Bounds, Position

\* A step that keeps the snapshots, and allows for as many events as it passes.
LEMMA WithinStays ==
  ASSUME IInv, IInv', Points \subseteq Points', NEW m \in Nat, NEW n \in Nat, Within(n),
         NEW k \in Nat, Allowance + k <= Allowance',
         \A point \in Nat : Tally(events', point, m) <= Tally(events, point, n) + k
  PROVE  \E point \in Points' : Tally(events', point, m) <= Allowance'
<1>1. PICK point \in Points : Tally(events, point, n) <= Allowance
  BY DEF Within
<1>2. point \in Nat /\ point \in Points'
  BY Reach
<1>3. /\ Tally(events, point, n) \in Nat /\ Tally(events', point, m) \in Nat
      /\ Allowance \in Nat
  BY <1>2, CountTyped, TallyTyped
<1>4. PICK a \in Nat : a = Allowance'
  BY AllowanceTyped
<1>5. Tally(events', point, m) <= a
  <2>1. Tally(events', point, m) <= Tally(events, point, n) + k
    BY <1>2
  <2>2. Allowance + k <= a
    BY <1>4
  <2>3. QED
    BY <1>1, <1>3, <2>1, <2>2
<1>6. QED
  BY <1>2, <1>4, <1>5

LEMMA DeltaStays ==
  ASSUME DeltaInv, UNCHANGED <<events, snapshots, checkpoint>>, Allowance' = Allowance,
         Counted' = Counted, skipped' = skipped
  PROVE  DeltaInv'
BY DEF DeltaInv, Within, Points

LEMMA CommitEventsDelta == ASSUME IInv, IInv', DeltaInv, CommitEvents PROVE DeltaInv'
<1>1. /\ events' = events \o inserted
      /\ UNCHANGED <<snapshots, checkpoint, pc, next, count, raises, restarts, skipped>>
  BY DEF CommitEvents, tables, daemon, faults
<1>2. /\ Counted' = Counted /\ Points' = Points /\ Allowance' = Allowance
  BY <1>1 DEF Counted, Points, Allowance
<1>3. events \in Seq(Event) /\ inserted \in Seq(Event)
  BY DEF IInv, TypeOK
<1>4. \A i \in 1..Len(events) : events'[i] = events[i]
  BY <1>1, <1>3, Joined
<1>5. ASSUME NEW point \in Nat, NEW n \in Nat, n <= Len(events)
      PROVE  Tally(events', point, n) = Tally(events, point, n)
  <2>1. \A i \in point + 1..n : i \in 1..Len(events)
    BY <1>5, Reach
  <2>2. {i \in point + 1..n : events'[i].kind \in _SUBSCRIBED_EVENTS}
        = {i \in point + 1..n : events[i].kind \in _SUBSCRIBED_EVENTS}
    BY <1>4, <2>1
  <2>3. QED
    BY <2>2 DEF Tally
<1>6. ASSUME NEW n \in Nat, n <= Len(events), n' = n, Within(n)
      PROVE  \E point \in Points' : Tally(events', point, n) <= Allowance'
  BY <1>2, <1>5, <1>6, Reach DEF Within
<1>7. Within(Counted) => Within(Counted)'
  BY <1>2, <1>5, Reach DEF Within
<1>8. Within(checkpoint) => Within(checkpoint)'
  BY <1>1, <1>2, <1>5, Reach DEF Within
<1>9. QED
  BY <1>1, <1>2, <1>7, <1>8 DEF DeltaInv

LEMMA UpsertDelta == ASSUME IInv, IInv', DeltaInv, Upsert PROVE DeltaInv'
<1>1. /\ pc = "upsert" /\ skipped' = skipped \ {next}
      /\ UNCHANGED <<events, snapshots, checkpoint, next, count, raises, restarts>>
      /\ \/ pc' = "count"
         \/ pc' = "checkpoint" /\ events[next].kind \notin _SUBSCRIBED_EVENTS
  BY DEF Upsert, store, faults
<1>2. /\ Counted = next - 1 /\ next \in Nat /\ checkpoint < next /\ checkpoint \in Nat
      /\ Points' = Points /\ Allowance' = Allowance /\ Counted \in Nat
  BY <1>1, Reach DEF Counted, Points, Allowance
<1>3. Counted' \in {Counted, next}
  BY <1>1, <1>2 DEF Counted
<1>4. \A i \in skipped : i <= Counted => i \in skipped' /\ i <= Counted'
  BY <1>1, <1>2, <1>3, Reach
<1>5. \A i \in skipped : i <= checkpoint => i \in skipped'
  BY <1>1, <1>2, Reach
<1>6. Within(Counted) => Within(Counted)'
  <2>1. CASE Counted' = Counted
    BY <1>1, <1>2, <2>1 DEF Within
  <2>2. CASE Counted' = next /\ events[next].kind \notin _SUBSCRIBED_EVENTS
    <3>1. \A point \in Nat : Tally(events, point, next) <= Tally(events, point, Counted)
      <4>1. Counted + 1 = next
        BY <1>2
      <4>2. QED
        BY <1>2, <2>2, <4>1, TallyNext
    <3>2. \A point \in Points : /\ Tally(events, point, next) \in Nat
                                 /\ Tally(events, point, Counted) \in Nat
      BY <1>2, Reach, TallyTyped
    <3>3. Allowance \in Nat
      BY CountTyped
    <3>4. ASSUME Within(Counted)
          PROVE  \E point \in Points : Tally(events, point, next) <= Allowance
      <4>1. PICK point \in Points : Tally(events, point, Counted) <= Allowance
        BY <3>4 DEF Within
      <4>2. point \in Nat
        BY Reach
      <4>3. Tally(events, point, next) <= Allowance
        BY <3>1, <3>2, <3>3, <4>1, <4>2
      <4>4. QED
        BY <4>3
    <3>5. QED
      BY <1>1, <1>2, <2>2, <3>4 DEF Within
  <2>3. QED
    BY <1>1, <1>2, <1>3, <2>1, <2>2 DEF Counted
<1>7. Within(checkpoint) => Within(checkpoint)'
  BY <1>1, <1>2 DEF Within
<1>8. QED
  BY <1>1, <1>4, <1>5, <1>6, <1>7 DEF DeltaInv

LEMMA CountEventDelta == ASSUME IInv, IInv', DeltaInv, CountEvent PROVE DeltaInv'
<1>1. /\ pc = "count" /\ count' = count + 1
      /\ UNCHANGED <<events, snapshots, checkpoint, next, raises, restarts, skipped>>
  BY DEF CountEvent, store, tables, faults
<1>2. /\ Counted = next - 1 /\ next \in Nat /\ checkpoint < next /\ checkpoint \in Nat
      /\ Points' = Points /\ Counted \in Nat
  BY <1>1, Reach DEF Counted, Points
<1> DEFINE f == raises + restarts
<1>3. /\ Trigger \in Nat \ {0} /\ count \in Nat /\ f \in Nat
      /\ count % Trigger \in 0..(Trigger - 1) /\ Trigger * f \in Nat
  BY CountTyped
<1>4. Allowance = (count % Trigger) + Trigger * f
  BY <1>1 DEF Allowance, Allowed
<1>5. CASE SnapshotDue(count')
  <2>1. pc' = "snapshot" /\ Counted' = Counted
    BY <1>1, <1>5 DEF CountEvent, Counted
  <2>2. Allowance' = (Trigger - 1) + Trigger * f
    BY <1>1, <2>1 DEF Allowance
  <2>3. count % Trigger = Trigger - 1
    <3>1. (count + 1) % Trigger = 0
      BY <1>1, <1>5 DEF SnapshotDue
    <3>2. (count + 1) % Trigger
          = IF count % Trigger = Trigger - 1 THEN 0 ELSE (count % Trigger) + 1
      BY <1>3, RemainderOfNext
    <3>3. (count % Trigger) + 1 # 0
      BY <1>3
    <3>4. QED
      BY <3>1, <3>2, <3>3
  <2>4. Allowance' = Allowance
    BY <1>4, <2>2, <2>3
  <2>5. QED
    BY <1>1, <2>1, <2>4, DeltaStays
<1>6. CASE ~SnapshotDue(count')
  <2>1. pc' = "checkpoint" /\ Counted' = next
    BY <1>1, <1>6 DEF CountEvent, Counted
  <2>2. count' % Trigger = (count % Trigger) + 1
    BY <1>1, <1>3, <1>6, RemainderOfNext DEF SnapshotDue
  <2>3. Allowance' = (count' % Trigger) + Trigger * f
    BY <1>1, <2>1 DEF Allowance, Allowed
  <2>4. Allowance' = Allowance + 1 /\ Allowance \in Nat
    <3> HIDE DEF f
    <3>1. QED
      BY <1>3, <1>4, <2>2, <2>3
  <2>5. Within(Counted) => Within(Counted)'
    <3>1. \A point \in Nat : Tally(events, point, next) <= Tally(events, point, Counted) + 1
      <4>1. Counted + 1 = next
        BY <1>2
      <4>2. QED
        BY <1>2, <4>1, TallyNext
    <3>2. QED
      BY <1>1, <1>2, <2>1, <2>4, <3>1, WithinStays DEF Within
  <2>6. Within(checkpoint) => Within(checkpoint)'
    <3>1. \A point \in Nat :
            Tally(events, point, checkpoint) <= Tally(events, point, checkpoint) + 1
      BY <1>2, TallyNoMore
    <3>2. QED
      BY <1>1, <1>2, <2>4, <3>1, WithinStays DEF Within
  <2>7. \A i \in skipped : i <= Counted => i <= Counted'
    BY <1>2, <2>1, Reach
  <2>8. QED
    BY <1>1, <2>5, <2>6, <2>7 DEF DeltaInv
<1>7. QED
  BY <1>5, <1>6

LEMMA WriteSnapshotDelta == ASSUME IInv, IInv', DeltaInv, WriteSnapshot PROVE DeltaInv'
<1>1. /\ pc' = "checkpoint" /\ next' = next
      /\ snapshots' = snapshots \cup {SnapshotOf(clock')}
      /\ SnapshotOf(clock').event_position = next
  BY DEF WriteSnapshot, SnapshotOf
<1>2. next \in Points' /\ Counted' = next
  BY <1>1 DEF Points, Counted
<1>3. next \in Nat
  BY DEF IInv, TypeOK
<1>4. Tally(events', next, next) = 0
  BY <1>3, TallyOfNone
<1>5. Allowance' \in Nat
  BY AllowanceTyped
<1>6. Tally(events', next, next) <= Allowance'
  BY <1>4, <1>5
<1>7. QED
  BY <1>2, <1>6 DEF DeltaInv, Within

LEMMA AdvanceDelta == ASSUME IInv, IInv', DeltaInv, Advance PROVE DeltaInv'
<1>1. /\ pc = "checkpoint" /\ checkpoint' = next /\ NextEvent
      /\ UNCHANGED <<events, snapshots, count, raises, restarts, skipped>>
  BY DEF Advance, store, faults
<1>2. Counted = next /\ next \in Nat /\ checkpoint < next /\ checkpoint \in Nat
  BY <1>1, Reach DEF Counted
<1>3. Counted' = next
  BY <1>1, <1>2 DEF Counted, NextEvent
<1>4. Points' = Points /\ Allowance' = Allowance
  BY <1>1 DEF Points, Allowance, NextEvent
<1>5. \A i \in skipped : i <= checkpoint => i <= checkpoint'
  BY <1>1, <1>2, Reach
<1>6. QED
  BY <1>1, <1>2, <1>3, <1>4, <1>5 DEF DeltaInv, Within

\* A fault lets a batch pass one event, or forget how far it has come.
LEMMA FaultDelta ==
  ASSUME IInv, IInv', DeltaInv, UNCHANGED <<events, snapshots, checkpoint>>,
         skipped \subseteq skipped', Allowance + 1 <= Allowance',
         Counted' \in {checkpoint, Counted, Counted + 1}
  PROVE  DeltaInv'
<1>1. /\ Counted \in Nat /\ checkpoint \in Nat /\ checkpoint <= Counted
      /\ Points' = Points /\ Counted' \in Nat
  BY Reach DEF Points
<1>2. \A m, n \in Nat : m \in {n, n + 1} =>
        \A point \in Nat : Tally(events, point, m) <= Tally(events, point, n) + 1
  BY TallyNext, TallyNoMore
<1>3. Within(checkpoint) => Within(checkpoint)'
  <2>1. \A point \in Nat :
          Tally(events, point, checkpoint) <= Tally(events, point, checkpoint) + 1
    BY <1>1, <1>2
  <2>2. QED
    BY <1>1, <2>1, WithinStays DEF Within
<1>4. CASE Counted' = checkpoint
  <2>1. ASSUME Within(Counted)
        PROVE  Within(checkpoint)
    <3>1. PICK point \in Points : Tally(events, point, Counted) <= Allowance
      BY <2>1 DEF Within
    <3>2. point \in Nat /\ Allowance \in Nat
      BY Reach, CountTyped
    <3>3. /\ Tally(events, point, checkpoint) <= Tally(events, point, Counted)
          /\ Tally(events, point, checkpoint) \in Nat
          /\ Tally(events, point, Counted) \in Nat
      <4>1. point <= point
        BY <3>2
      <4>2. Tally(events, point, checkpoint) <= Tally(events, point, Counted)
        BY <1>1, <3>2, <4>1, TallyLess
      <4>3. QED
        BY <1>1, <3>2, <4>2, TallyTyped
    <3>4. Tally(events, point, checkpoint) <= Allowance
      BY <3>1, <3>2, <3>3
    <3>5. QED
      BY <3>4 DEF Within
  <2>2. Within(checkpoint)' => Within(Counted)'
    BY <1>4 DEF Within
  <2>3. QED
    BY <1>3, <2>1, <2>2 DEF DeltaInv
<1>5. CASE Counted' \in {Counted, Counted + 1}
  <2>1. Within(Counted) => Within(Counted)'
    <3> DEFINE m == Counted'
    <3>1. \A point \in Nat : Tally(events, point, m) <= Tally(events, point, Counted) + 1
      BY <1>1, <1>2, <1>5
    <3>2. m \in Nat
      BY <1>1
    <3> HIDE DEF m
    <3>3. Within(Counted) => \E point \in Points' : Tally(events', point, m) <= Allowance'
      BY <1>1, <3>1, <3>2, WithinStays
    <3>4. QED
      BY <3>3 DEF Within, m
  <2>2. \A i \in skipped : i <= Counted => i <= Counted'
    BY <1>1, <1>5, Reach
  <2>3. QED
    BY <1>3, <2>1, <2>2 DEF DeltaInv
<1>6. QED
  BY <1>4, <1>5

\* Whatever raises, or stops the daemon, is worth at least one event.
LEMMA FaultAllowed ==
  ASSUME IInv, pc' # "snapshot", raises' + restarts' = (raises + restarts) + 1,
         \/ count' \in {0, count}
         \/ pc = "count" /\ count' = count + 1 /\ SnapshotDue(count + 1)
  PROVE  Allowance + 1 <= Allowance'
<1>1. PICK f \in Nat : f = raises + restarts
  BY CountTyped
<1>2. PICK m \in Nat : m = count'
  BY CountTyped
<1>3. Allowance' = Allowed(m, f + 1)
  BY <1>1, <1>2 DEF Allowance
<1>4. CASE pc # "snapshot"
  <2>1. Allowance = Allowed(count, f)
    BY <1>1, <1>4 DEF Allowance
  <2>2. QED
    BY <1>2, <1>3, <2>1, CountTyped, FaultAllows
<1>5. CASE pc = "snapshot"
  <2>1. Allowance = (Trigger - 1) + Trigger * f
    BY <1>1, <1>5 DEF Allowance
  <2>2. Trigger * (f + 1) = Trigger * f + Trigger /\ Trigger * f \in Nat /\ Trigger \in Nat
    BY CountTyped
  <2>3. m % Trigger \in Nat
    BY CountTyped
  <2>4. QED
    BY <1>3, <2>1, <2>2, <2>3 DEF Allowed
<1>6. QED
  BY <1>4, <1>5

LEMMA RaiseDelta == ASSUME IInv, IInv', DeltaInv, Raise PROVE DeltaInv'
<1>1. /\ pc \in {"upsert", "count", "snapshot"} /\ raises' = raises + 1
      /\ UNCHANGED <<events, snapshots, checkpoint, restarts>> /\ skipped \subseteq skipped'
      /\ \/ count' = count
         \/ pc = "count" /\ count' = count + 1 /\ SnapshotDue(count + 1)
  BY DEF Raise, store, tables
<1>2. next \in Nat /\ Counted = next - 1
  BY <1>1, Reach DEF Counted
<1>3. Counted' \in {checkpoint, Counted, Counted + 1} /\ pc' # "snapshot"
  BY <1>1, <1>2 DEF Raise, NextEvent, Counted
<1>4. raises' + restarts' = (raises + restarts) + 1
  BY <1>1, CountTyped
<1>5. QED
  BY <1>1, <1>3, <1>4, FaultAllowed, FaultDelta

LEMMA BreakOffDelta == ASSUME IInv, IInv', DeltaInv, BreakOff PROVE DeltaInv'
<1>1. /\ raises' = raises + 1 /\ pc' = "poll"
      /\ UNCHANGED <<events, snapshots, checkpoint, restarts, skipped>>
      /\ \/ count' = count
         \/ pc = "count" /\ count' = count + 1 /\ SnapshotDue(count + 1)
  BY DEF BreakOff, BatchForgotten, store, tables
<1>2. Counted' = checkpoint
  BY <1>1 DEF Counted
<1>3. raises' + restarts' = (raises + restarts) + 1
  BY <1>1, CountTyped
<1>4. QED
  BY <1>1, <1>2, <1>3, FaultAllowed, FaultDelta

LEMMA RestartDelta == ASSUME IInv, IInv', DeltaInv, Restart PROVE DeltaInv'
<1>1. /\ restarts' = restarts + 1 /\ count' = 0 /\ pc' = "poll"
      /\ UNCHANGED <<events, snapshots, checkpoint, raises, skipped>>
  BY DEF Restart, BatchForgotten, store, tables
<1>2. Counted' = checkpoint
  BY <1>1 DEF Counted
<1>3. raises' + restarts' = (raises + restarts) + 1
  BY <1>1, CountTyped
<1>4. QED
  BY <1>1, <1>2, <1>3, FaultAllowed, FaultDelta

LEMMA RebuildDelta == ASSUME IInv, IInv', DeltaInv, Rebuild PROVE DeltaInv'
<1>1. /\ snapshots' = {} /\ checkpoint' = 0 /\ UNCHANGED <<pc, next>>
      /\ skipped' = IF pc = "poll" THEN {}
                    ELSE 1..(IF pc = "upsert" THEN next - 1 ELSE next)
  BY DEF Rebuild
<1>2. Allowance' \in Nat /\ 0 \in Points' /\ Tally(events', 0, 0) = 0
  BY TallyOfNone, AllowanceTyped DEF Points
<1>3. Within(checkpoint)'
  BY <1>1, <1>2 DEF Within
<1>4. CASE Counted' = 0
  BY <1>2, <1>4 DEF DeltaInv, Within
<1>5. CASE Counted' # 0
  <2>1. pc # "poll" /\ Counted' = Counted /\ Counted \in {next - 1, next}
        /\ Counted \in Nat /\ next \in Nat
    BY <1>1, <1>5, Reach DEF Counted
  <2>2. 1 <= Counted' /\ (pc = "upsert" => Counted = next - 1)
    BY <1>1, <1>5, <2>1 DEF Counted
  <2>3. 1 \in skipped'
    BY <1>1, <2>1, <2>2
  <2>4. QED
    BY <1>3, <2>2, <2>3 DEF DeltaInv
<1>6. QED
  BY <1>4, <1>5

LEMMA NextDelta == ASSUME IInv, IInv', DeltaInv, [Next]_vars PROVE DeltaInv'
<1>1. ASSUME UNCHANGED <<events, snapshots, checkpoint, pc, next, count, raises, restarts,
                         skipped>>
      PROVE  DeltaInv'
  BY <1>1, DeltaStays DEF Counted, Allowance
<1>2. CASE StartBatch
  <2>1. /\ pc = "poll" /\ pc' = "upsert" /\ next' = checkpoint + 1
        /\ UNCHANGED <<events, snapshots, checkpoint, count, raises, restarts, skipped>>
    BY <1>2 DEF StartBatch, store, tables, faults
  <2>2. Counted' = Counted
    BY <2>1, Reach DEF Counted
  <2>3. QED
    BY <2>1, <2>2, DeltaStays DEF Allowance
<1>3. CASE UNCHANGED vars
  BY <1>1, <1>3 DEF vars, store, tables, daemon, faults
<1>4. ASSUME NEW kind, NEW rules, InsertEvent(kind, rules)
      PROVE  DeltaInv'
  BY <1>1, <1>4 DEF InsertEvent, tables, daemon, faults
<1>5. QED
  BY <1>2, <1>3, <1>4, CommitEventsDelta, UpsertDelta, CountEventDelta, WriteSnapshotDelta,
     AdvanceDelta, RaiseDelta, BreakOffDelta, RestartDelta, RebuildDelta DEF Next

--------------------------------------------------------------------------------

(* What a query loads of the stream, against what of it is counted. *)

\* A note stands behind a rule, a verdict behind a failed rule or a note.
Sequenced(log) ==
  \A i \in 1..Len(log) :
    log[i].kind \in {"ComplianceRuleNoted", "ComplianceCheckCompleted"} =>
      i > 1 /\ log[i].kind \in NextInCheck[log[i - 1].kind]

OrderInv ==
  /\ Sequenced(events)
  /\ \A i \in 1..Len(events) : events[i].kind = "ComplianceCheckInitiated" =>
       \A j \in 1..(i - 1) : events[j].kind \notin OnStream
  /\ Sequenced(inserted)
  /\ \A i \in 1..Len(inserted) : inserted[i].kind = "ComplianceCheckInitiated" =>
       i = 1 /\ StreamIsNew

LEMMA InsertEventOrder ==
  ASSUME IInv, OrderInv, NEW kind \in EventKind, NEW rules, InsertEvent(kind, rules)
  PROVE  OrderInv'
<1> DEFINE e == [kind |-> kind, rules |-> rules, recorded_at |-> clock']
           n == Len(inserted)
<1>1. /\ inserted' = Append(inserted, e) /\ events' = events
      /\ inserted = <<>> => MayOpen(kind)
      /\ inserted # <<>> => kind \in NextInCheck[inserted[n].kind]
  BY DEF InsertEvent, MayContinue
<1>2. n \in Nat /\ inserted \in Seq(Event)
  BY Lengths DEF IInv, TypeOK
<1>3. e.kind = kind
  OBVIOUS
<1> HIDE DEF e
<1>4. /\ Len(inserted') = n + 1 /\ \A i \in 1..n : inserted'[i] = inserted[i]
      /\ inserted'[n + 1] = e
  BY <1>1, <1>2
<1>5. inserted = <<>> <=> n = 0
  BY <1>2
<1>6. n # 0 => inserted[n].kind \in EventKind
  BY <1>2, Lengths DEF IInv, Event
<1>7. \A i \in 1..(n + 1) : i \in 1..n \/ i = n + 1
  BY <1>2
<1>8. Sequenced(inserted')
  <2> SUFFICES ASSUME NEW i \in 1..(n + 1),
                      inserted'[i].kind \in {"ComplianceRuleNoted", "ComplianceCheckCompleted"}
               PROVE  i > 1 /\ inserted'[i].kind \in NextInCheck[inserted'[i - 1].kind]
    BY <1>4 DEF Sequenced
  <2>1. CASE i \in 1..n
    <3>1. i > 1 /\ inserted[i].kind \in NextInCheck[inserted[i - 1].kind]
      BY <1>4, <2>1 DEF OrderInv, Sequenced
    <3>2. i - 1 \in 1..n
      BY <1>2, <2>1, <3>1
    <3>3. QED
      BY <1>4, <2>1, <3>1, <3>2
  <2>2. CASE i = n + 1
    <3>1. kind \in {"ComplianceRuleNoted", "ComplianceCheckCompleted"}
      BY <1>3, <1>4, <2>2
    <3>2. n # 0
      BY <1>1, <1>5, <3>1 DEF MayOpen, _SUBSCRIBED_EVENTS, RuleResult
    <3>3. i > 1 /\ i - 1 = n /\ n \in 1..n
      BY <1>2, <2>2, <3>2
    <3>4. kind \in NextInCheck[inserted[n].kind]
      BY <1>1, <1>5, <3>2
    <3>5. QED
      BY <1>3, <1>4, <2>2, <3>3, <3>4
  <2>3. QED
    BY <1>7, <2>1, <2>2
<1>9. StreamIsNew' = StreamIsNew
  BY <1>1 DEF StreamIsNew
<1>10. ASSUME NEW i \in 1..(n + 1), inserted'[i].kind = "ComplianceCheckInitiated"
       PROVE  i = 1 /\ StreamIsNew
  <2>1. CASE i \in 1..n
    BY <1>4, <1>10, <2>1 DEF OrderInv
  <2>2. CASE i = n + 1
    <3>1. kind = "ComplianceCheckInitiated"
      BY <1>3, <1>4, <1>10, <2>2
    <3>2. n = 0
      BY <1>1, <1>5, <1>6, <3>1 DEF NextInCheck, EventKind, OnStream, _SUBSCRIBED_EVENTS, RuleResult
    <3>3. MayOpen(kind)
      BY <1>1, <1>5, <3>2
    <3>4. QED
      BY <2>2, <3>1, <3>2, <3>3 DEF MayOpen, _SUBSCRIBED_EVENTS, RuleResult
  <2>3. QED
    BY <1>7, <2>1, <2>2
<1>11. QED
  BY <1>1, <1>4, <1>8, <1>9, <1>10 DEF OrderInv, Sequenced

LEMMA CommitEventsOrder ==
  ASSUME IInv, OrderInv, CommitEvents
  PROVE  OrderInv'
<1> DEFINE n == Len(events)
           k == Len(inserted)
<1>1. events' = events \o inserted /\ inserted' = <<>>
  BY DEF CommitEvents
<1>2. /\ events \in Seq(Event) /\ inserted \in Seq(Event) /\ n \in Nat /\ k \in Nat
  BY Lengths DEF IInv, TypeOK
<1>3. /\ Len(events') = n + k
      /\ \A i \in 1..n : events'[i] = events[i]
      /\ \A i \in 1..k : events'[n + i] = inserted[i]
      /\ \A i \in 1..Len(events') : i \in 1..n \/ \E j \in 1..k : i = n + j
  BY <1>1, <1>2, Joined
<1>4. Sequenced(events')
  <2> SUFFICES ASSUME NEW i \in 1..Len(events'),
                      events'[i].kind \in {"ComplianceRuleNoted", "ComplianceCheckCompleted"}
               PROVE  i > 1 /\ events'[i].kind \in NextInCheck[events'[i - 1].kind]
    BY DEF Sequenced
  <2>1. CASE i \in 1..n
    <3>1. i > 1 /\ events[i].kind \in NextInCheck[events[i - 1].kind]
      BY <1>3, <2>1 DEF OrderInv, Sequenced
    <3>2. i - 1 \in 1..n
      BY <1>2, <2>1, <3>1
    <3>3. QED
      BY <1>3, <2>1, <3>1, <3>2
  <2>2. ASSUME NEW j \in 1..k, i = n + j
        PROVE  i > 1 /\ events'[i].kind \in NextInCheck[events'[i - 1].kind]
    <3>1. j > 1 /\ inserted[j].kind \in NextInCheck[inserted[j - 1].kind]
      BY <1>3, <2>2 DEF OrderInv, Sequenced
    <3>2. j - 1 \in 1..k /\ i - 1 = n + (j - 1) /\ i > 1
      BY <1>2, <2>2, <3>1
    <3>3. QED
      BY <1>3, <2>2, <3>1, <3>2
  <2>3. QED
    BY <1>3, <2>1, <2>2
<1>5. ASSUME NEW i \in 1..Len(events'), events'[i].kind = "ComplianceCheckInitiated",
             NEW j \in 1..(i - 1)
      PROVE  events'[j].kind \notin OnStream
  <2>1. CASE i \in 1..n
    <3>1. j \in 1..n
      BY <1>2, <2>1
    <3>2. QED
      BY <1>3, <1>5, <2>1, <3>1 DEF OrderInv
  <2>2. ASSUME NEW l \in 1..k, i = n + l
        PROVE  events'[j].kind \notin OnStream
    <3>1. l = 1 /\ StreamIsNew
      BY <1>3, <1>5, <2>2 DEF OrderInv
    <3>2. j \in 1..n
      BY <1>2, <2>2, <3>1
    <3>3. QED
      BY <1>3, <3>1, <3>2 DEF StreamIsNew
  <2>3. QED
    BY <1>3, <2>1, <2>2
<1>6. Len(inserted') = 0
  BY <1>1
<1>7. 1..Len(inserted') = {}
  BY <1>6
<1>8. QED
  BY <1>4, <1>5, <1>7 DEF OrderInv, Sequenced

LEMMA NextOrder == ASSUME IInv, OrderInv, [Next]_vars PROVE OrderInv'
<1>1. ASSUME UNCHANGED <<events, inserted>>
      PROVE  OrderInv'
  BY <1>1 DEF OrderInv, Sequenced, StreamIsNew
<1>2. ASSUME NEW kind \in RuleResult, NEW r \in RuleId, InsertEvent(kind, {r})
      PROVE  OrderInv'
  BY <1>2, InsertEventOrder DEF EventKind, OnStream
<1>3. ASSUME NEW kind \in EventKind \ RuleResult, InsertEvent(kind, {})
      PROVE  OrderInv'
  BY <1>3, InsertEventOrder
<1>4. CASE StartBatch \/ Upsert \/ CountEvent \/ WriteSnapshot \/ Advance
  BY <1>1, <1>4 DEF StartBatch, Upsert, CountEvent, WriteSnapshot, Advance, store
<1>5. CASE Raise \/ BreakOff \/ Restart \/ Rebuild
  BY <1>1, <1>5 DEF Raise, BreakOff, Restart, Rebuild, store
<1>6. CASE UNCHANGED vars
  BY <1>1, <1>6 DEF vars, store
<1>7. QED
  BY <1>2, <1>3, <1>4, <1>5, <1>6, CommitEventsOrder DEF Next

\* A set of positions, and the positions k behind them.
LEMMA Shifted ==
  ASSUME NEW S, IsFiniteSet(S), NEW k
  PROVE  LET T == {i + k : i \in S}
         IN  IsFiniteSet(T) /\ Cardinality(T) <= Cardinality(S) /\ Cardinality(T) \in Nat
<1> DEFINE T == {i + k : i \in S}
           f == [i \in S |-> i + k]
<1>1. f \in Surjection(S, T)
  BY DEF Surjection
<1> HIDE DEF f, T
<1>2. IsFiniteSet(T) /\ Cardinality(T) <= Cardinality(S)
  BY <1>1, FS_Surjection
<1>3. QED
  BY <1>2, FS_CardinalityType DEF T

LEMMA Joint ==
  ASSUME NEW S, IsFiniteSet(S), NEW T, IsFiniteSet(T), NEW n \in Nat, NEW m \in Nat,
         Cardinality(S) <= n, Cardinality(T) <= m
  PROVE  IsFiniteSet(S \cup T) /\ Cardinality(S \cup T) <= n + m
<1>1. /\ IsFiniteSet(S \cup T)
      /\ Cardinality(S \cup T) = Cardinality(S) + Cardinality(T) - Cardinality(S \cap T)
  BY FS_Union
<1>2. S \cap T \in SUBSET S
  OBVIOUS
<1>3. IsFiniteSet(S \cap T)
  BY <1>2, FS_Subset
<1>4. /\ Cardinality(S) \in Nat /\ Cardinality(T) \in Nat /\ Cardinality(S \cap T) \in Nat
  BY <1>3, FS_CardinalityType
<1>5. QED
  BY <1>1, <1>4

\* The events of the stream behind a position: each is a rule of the window, or stands
\* one or two places behind one, or is the first of the stream, or follows on a rule
\* that the window leaves out.
LEMMA WindowCovered ==
  ASSUME IInv, OrderInv, NEW from \in Nat
  PROVE  LET R == Since(from, _SUBSCRIBED_EVENTS)
         IN  \E E : /\ IsFiniteSet(E) /\ Cardinality(E) <= 2
                    /\ Since(from, OnStream)
                         \subseteq (R \cup {i + 1 : i \in R}) \cup ({i + 2 : i \in R} \cup E)
<1> DEFINE R == Since(from, _SUBSCRIBED_EVENTS)
           W == Since(from, OnStream)
<1>1. checkpoint \in Nat /\ checkpoint <= Len(events) /\ Len(events) \in Nat
  BY Reach, Lengths DEF IInv, Bounds
<1>2. \A i \in from + 1..checkpoint : i \in 1..Len(events) /\ events[i].kind \in EventKind
  BY <1>1, Lengths DEF IInv, Event
<1>3. ASSUME NEW i \in 1..Len(events),
             events[i].kind \in {"ComplianceRuleNoted", "ComplianceCheckCompleted"}
      PROVE  \/ i - 1 \in 1..Len(events) /\ events[i - 1].kind \in RuleResult
             \/ i - 2 \in 1..Len(events) /\ events[i - 2].kind \in RuleResult
  <2>1. i > 1 /\ events[i].kind \in NextInCheck[events[i - 1].kind]
    BY <1>3 DEF OrderInv, Sequenced
  <2>2. i - 1 \in 1..Len(events)
    BY <1>1, <2>1
  <2>3. events[i - 1].kind \in EventKind
    BY <2>2, Lengths DEF IInv, Event
  <2>4. events[i - 1].kind \in RuleResult \/ events[i - 1].kind = "ComplianceRuleNoted"
    BY <1>3, <2>1, <2>3 DEF NextInCheck, EventKind, OnStream, _SUBSCRIBED_EVENTS, RuleResult
  <2>5. CASE events[i - 1].kind = "ComplianceRuleNoted"
    <3> DEFINE j == i - 1
    <3>1. j \in 1..Len(events) /\ events[j].kind = "ComplianceRuleNoted"
      BY <2>2, <2>5
    <3> HIDE DEF j
    <3>2. j > 1 /\ events[j].kind \in NextInCheck[events[j - 1].kind]
      BY <3>1 DEF OrderInv, Sequenced
    <3>3. j - 1 \in 1..Len(events)
      BY <1>1, <3>1, <3>2
    <3>4. events[j - 1].kind \in EventKind
      BY <3>3, Lengths DEF IInv, Event
    <3>5. events[j - 1].kind \in RuleResult
      BY <3>1, <3>2, <3>4
      DEF NextInCheck, EventKind, OnStream, _SUBSCRIBED_EVENTS, RuleResult
    <3>6. j - 1 = i - 2
      BY <1>1 DEF j
    <3>7. QED
      BY <3>3, <3>5, <3>6
  <2>6. QED
    BY <2>2, <2>4, <2>5
<1>4. ASSUME NEW i \in W
      PROVE  /\ i \in from + 1..checkpoint /\ i \in Int /\ i \in 1..Len(events)
             /\ \/ i \in R \/ events[i].kind = "ComplianceCheckInitiated"
                \/ events[i].kind \in {"ComplianceRuleNoted", "ComplianceCheckCompleted"}
  BY <1>1, <1>2 DEF Since, OnStream, _SUBSCRIBED_EVENTS
<1>5. ASSUME NEW i \in W, i \notin R, i \notin {j + 1 : j \in R}, i \notin {j + 2 : j \in R},
             events[i].kind \in {"ComplianceRuleNoted", "ComplianceCheckCompleted"}
      PROVE  /\ i \in {from + 1, from + 2}
             /\ \E j \in 1..from : j \in 1..Len(events) /\ events[j].kind \in RuleResult
  <2>1. PICK j \in 1..Len(events) : j \in {i - 1, i - 2} /\ events[j].kind \in RuleResult
    BY <1>3, <1>4, <1>5
  <2>2. i = j + 1 \/ i = j + 2
    BY <1>4, <2>1
  <2>3. j \notin R
    BY <1>5, <2>2
  <2>4. j \notin from + 1..checkpoint
    BY <2>1, <2>3 DEF Since, _SUBSCRIBED_EVENTS
  <2>5. j <= from
    BY <1>1, <1>4, <2>1, <2>2, <2>4
  <2>6. QED
    BY <1>1, <1>4, <2>1, <2>2, <2>5
<1>6. CASE \E f \in W : events[f].kind = "ComplianceCheckInitiated"
  <2>1. PICK f \in W : events[f].kind = "ComplianceCheckInitiated"
    BY <1>6
  <2>2. f \in from + 1..checkpoint /\ f \in 1..Len(events)
    BY <1>4
  <2>3. \A j \in 1..(f - 1) : events[j].kind \notin OnStream
    BY <2>1, <2>2 DEF OrderInv
  <2>4. ASSUME NEW i \in W, i \notin R, i \notin {j + 1 : j \in R}, i \notin {j + 2 : j \in R}
        PROVE  i = f
    <3>1. events[i].kind = "ComplianceCheckInitiated"
      <4>1. \A j \in 1..from : j \in 1..(f - 1)
        BY <1>1, <2>2
      <4>2. ~ \E j \in 1..from : events[j].kind \in RuleResult
        BY <2>3, <4>1 DEF OnStream
      <4>3. QED
        BY <1>4, <1>5, <2>4, <4>2
    <3>2. i \in 1..Len(events) /\ events[i].kind \in OnStream
      BY <1>4 DEF Since
    <3>3. \A j \in 1..(i - 1) : events[j].kind \notin OnStream
      BY <3>1, <3>2 DEF OrderInv
    <3>4. events[f].kind \in OnStream
      BY DEF Since
    <3>5. i \notin 1..(f - 1) /\ f \notin 1..(i - 1)
      BY <2>3, <3>2, <3>3, <3>4
    <3>6. QED
      BY <1>1, <2>2, <3>2, <3>5
  <2>5. IsFiniteSet({f}) /\ Cardinality({f}) <= 2
    BY FS_Singleton
  <2>6. W \subseteq (R \cup {i + 1 : i \in R}) \cup ({i + 2 : i \in R} \cup {f})
    BY <2>4
  <2>7. QED
    BY <2>5, <2>6
<1>7. CASE ~ \E f \in W : events[f].kind = "ComplianceCheckInitiated"
  <2> DEFINE E == {from + 1, from + 2}
  <2>1. W \subseteq (R \cup {i + 1 : i \in R}) \cup ({i + 2 : i \in R} \cup E)
    BY <1>4, <1>5, <1>7
  <2>2. IsFiniteSet(E) /\ Cardinality(E) <= 2
    <3>1. IsFiniteSet({from + 1}) /\ Cardinality({from + 1}) = 1
      BY FS_Singleton
    <3>2. /\ IsFiniteSet({from + 1} \cup {from + 2})
          /\ Cardinality({from + 1} \cup {from + 2}) \in {1, 1 + 1}
      BY <3>1, FS_AddElement
    <3>3. E = {from + 1} \cup {from + 2}
      OBVIOUS
    <3>4. QED
      BY <3>2, <3>3
  <2>3. QED
    BY <2>1, <2>2
<1>8. QED
  BY <1>6, <1>7

LEMMA WindowBounded ==
  ASSUME IInv, OrderInv, NEW from \in Nat
  PROVE  Cardinality(Since(from, OnStream))
           <= 3 * Cardinality(Since(from, _SUBSCRIBED_EVENTS)) + 2
<1> DEFINE R == Since(from, _SUBSCRIBED_EVENTS)
           W == Since(from, OnStream)
           R1 == {i + 1 : i \in R}
           R2 == {i + 2 : i \in R}
<1>1. IsFiniteSet(R) /\ Cardinality(R) \in Nat
  <2>1. checkpoint \in Nat
    BY Reach
  <2>2. IsFiniteSet(from + 1..checkpoint)
    BY <2>1, FS_Interval
  <2>3. R \in SUBSET (from + 1..checkpoint)
    BY DEF Since
  <2> HIDE DEF R
  <2>4. QED
    BY <2>2, <2>3, FS_Subset, FS_CardinalityType
<1>2. PICK E : IsFiniteSet(E) /\ Cardinality(E) <= 2 /\ W \subseteq (R \cup R1) \cup (R2 \cup E)
  BY WindowCovered
<1> DEFINE n == Cardinality(R)
<1> HIDE DEF R, W
<1>3. IsFiniteSet(R1) /\ Cardinality(R1) <= n
  BY <1>1, Shifted
<1>4. IsFiniteSet(R2) /\ Cardinality(R2) <= n
  BY <1>1, Shifted
<1> HIDE DEF R1, R2
<1>5. n \in Nat /\ n + n \in Nat /\ n + 2 \in Nat /\ n <= n
  BY <1>1
<1>6. IsFiniteSet(R \cup R1) /\ Cardinality(R \cup R1) <= n + n
  BY <1>1, <1>3, <1>5, Joint
<1>7. IsFiniteSet(R2 \cup E) /\ Cardinality(R2 \cup E) <= n + 2
  BY <1>2, <1>4, <1>5, Joint
<1> DEFINE U == (R \cup R1) \cup (R2 \cup E)
<1>8. IsFiniteSet(U) /\ Cardinality(U) <= (n + n) + (n + 2)
  BY <1>5, <1>6, <1>7, Joint
<1>9. W \in SUBSET U
  BY <1>2
<1>10. /\ Cardinality(W) <= Cardinality(U) /\ Cardinality(W) \in Nat
       /\ Cardinality(U) \in Nat
  <2> HIDE DEF U
  <2>1. QED
    BY <1>8, <1>9, FS_Subset, FS_CardinalityType
<1>11. Cardinality(W) <= 3 * n + 2
  <2> HIDE DEF U, n
  <2>1. QED
    BY <1>5, <1>8, <1>10
<1>12. QED
  BY <1>11 DEF R, W

\* However often handling fails, the process stops or the projection is rebuilt: of a
\* view that lacks nothing, fewer subscribed events lie behind the last snapshot than one
\* trigger and one for each failure and each stop; and a query about the present loads
\* three events of the stream for each of them and two more at the most.
THEOREM DeltaIsBounded == Spec => []DeltaBounded
<1>1. Init => DeltaInv /\ OrderInv
  <2> SUFFICES ASSUME Init
               PROVE  DeltaInv /\ OrderInv
    OBVIOUS
  <2>1. IInv
    BY InitInv
  <2>2. Allowance \in Nat /\ 0 \in Points
    BY <2>1, CountTyped DEF Points
  <2>3. Counted = 0
    BY DEF Init, Counted
  <2>4. Tally(events, 0, 0) = 0
    BY TallyOfNone
  <2>5. DeltaInv
    BY <2>2, <2>3, <2>4 DEF DeltaInv, Within
  <2>6. 1..Len(events) = {} /\ 1..Len(inserted) = {}
    BY DEF Init
  <2>7. QED
    BY <2>5, <2>6 DEF OrderInv, Sequenced
<1>2. IInv /\ IInv' /\ DeltaInv /\ OrderInv /\ [Next]_vars => DeltaInv' /\ OrderInv'
  BY NextDelta, NextOrder
<1>3. IInv /\ DeltaInv /\ OrderInv => DeltaBounded
  <2> SUFFICES ASSUME IInv, DeltaInv, OrderInv, skipped = {}
               PROVE  LET counted == Cardinality(Since(LastSnapshot, _SUBSCRIBED_EVENTS))
                      IN  /\ counted < Trigger * (1 + raises + restarts)
                          /\ Cardinality(Since(LastSnapshot, OnStream)) <= 3 * counted + 2
    BY DEF DeltaBounded
  <2>1. PICK point \in Points : Tally(events, point, Counted) <= Allowance
    BY DEF DeltaInv, Within
  <2>2. point <= LastSnapshot /\ LastSnapshot \in Nat
    <3>1. MaxEvents \in Nat /\ \A s \in snapshots : s.event_position \in 0..MaxEvents
      BY AuditViewAssumption DEF IInv, TypeOK, Snapshot, Position
    <3>2. Points # {} /\ Points \subseteq 0..MaxEvents /\ LastSnapshot = Max(Points)
      BY <3>1 DEF Points, LastSnapshot
    <3> HIDE DEF Points
    <3>3. Max(Points) \in Points /\ \A i \in Points : i <= Max(Points)
      BY <3>1, <3>2, LastOf
    <3>4. LastSnapshot \in 0..MaxEvents
      BY <3>2, <3>3
    <3>5. QED
      BY <2>1, <3>1, <3>2, <3>3, <3>4
  <2>3. /\ Counted \in Nat /\ checkpoint \in Nat /\ checkpoint <= Counted /\ point \in Nat
    BY Reach
  <2>4. /\ Tally(events, LastSnapshot, checkpoint) <= Tally(events, point, Counted)
        /\ Tally(events, LastSnapshot, checkpoint) \in Nat
        /\ Tally(events, point, Counted) \in Nat
    BY <2>2, <2>3, TallyLess, TallyTyped
  <2>5. Cardinality(Since(LastSnapshot, _SUBSCRIBED_EVENTS))
        = Tally(events, LastSnapshot, checkpoint)
    BY DEF Since, Tally
  <2>6. Tally(events, LastSnapshot, checkpoint) < Trigger * (1 + raises + restarts)
    <3>1. /\ Allowance \in Nat /\ Allowance < Trigger * (1 + raises + restarts)
          /\ Trigger * (1 + raises + restarts) \in Nat
      BY CountTyped
    <3>2. QED
      BY <2>1, <2>4, <3>1
  <2>7. QED
    BY <2>2, <2>5, <2>6, WindowBounded
<1>4. QED
  BY <1>1, <1>2, <1>3, Invariance, PTL DEF Spec

================================================================================
