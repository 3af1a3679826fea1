---------------------------- MODULE ComplianceAudit ----------------------------
(***************************************************************************)
(* ComplianceAuditViewProjection (src/projections/compliance_audit.py) for *)
(* one application: the daemon upserts the view event by event, writes a   *)
(* snapshot of it whenever an in-memory count says so, and                 *)
(* get_compliance_at answers for any past moment from a snapshot and the   *)
(* events behind it.  Upsert, the two halves of a snapshot and the         *)
(* checkpoint are statements of their own, and a query takes two.          *)
(*                                                                         *)
(* The projection counts what it subscribes to, the query loads what is on *)
(* the stream compliance-<id>: neither holds the other.                    *)
(*                                                                         *)
(* A payload is the position of its event: a column holds the position of  *)
(* the event it was taken from, 0 when it is null.                         *)
(***************************************************************************)
EXTENDS Integers, Sequences, FiniteSets, SequencesExt, FiniteSetsExt

CONSTANTS
  RuleId,
  Trigger,     \* SNAPSHOT_EVENT_COUNT_TRIGGER
  MaxRetries,  \* MAX_RETRIES of the daemon
  MaxEvents,   \* bound: events that carry the application's id
  MaxRaises,   \* bound: statements of the daemon that raise
  MaxRestarts, \* bound: stops of the daemon
  MaxRebuilds  \* bound: calls of rebuild_projection

ASSUME AuditViewAssumption ==
  /\ {Trigger, MaxRetries} \subseteq Nat \ {0}
  /\ {MaxEvents, MaxRaises, MaxRestarts, MaxRebuilds} \subseteq Nat

VARIABLES
  events,     \* committed events, by global_position
  inserted,   \* the events of an open append
  clock,      \* clock_timestamp(): it ticks whenever a row takes it
  view,       \* compliance_audit_view
  snapshots,  \* compliance_snapshots
  count,      \* _event_counts of the application
  read,       \* the rows _write_snapshot has read
  checkpoint, \* last_position
  pc, next, batch, attempt, \* the daemon: step, event, end of its page, retry
  raises, restarts, rebuilds,
  skipped     \* positions passed by that are not in the view (not in the code)

store == <<events, inserted, clock>>
tables == <<view, snapshots, checkpoint>>
daemon == <<pc, next, batch, attempt, count, read>>
faults == <<raises, restarts, rebuilds>>
vars == <<store, tables, daemon, faults, skipped>>

RuleResult == {"ComplianceRulePassed", "ComplianceRuleFailed"}

\* ComplianceClearanceIssued is handled as ComplianceCheckRequested is.
_SUBSCRIBED_EVENTS == RuleResult \cup {"ComplianceCheckRequested"}

\* What handlers and agents append to compliance-<id>.
OnStream == RuleResult \cup {"ComplianceCheckInitiated", "ComplianceRuleNoted",
                            "ComplianceCheckCompleted"}

EventKind == _SUBSCRIBED_EVENTS \cup OnStream
Position == 0..MaxEvents
Event == [kind : EventKind, rules : SUBSET RuleId, recorded_at : Nat]
Row == [status : {"PASSED", "FAILED", "absent"}, rule_version : Position,
        evidence_hash : Position, failure_reason : Position]
View == [RuleId -> Row]

Absent == [status |-> "absent", rule_version |-> 0, evidence_hash |-> 0,
           failure_reason |-> 0]
NoRows == [r \in RuleId |-> Absent]
NothingRead == [payload |-> NoRows, lost |-> {}]

\* lost is not a column: the events before event_position the payload lacks.
Snapshot == [snapshot_at : Nat, event_position : Position, payload : View,
             lost : SUBSET Position]

\* What a query starts from when no snapshot is old enough.
NoSnapshot == [snapshot_at |-> 0, event_position |-> 0, payload |-> NoRows,
               lost |-> {}]

TypeOK ==
  /\ events \in Seq(Event) /\ Len(events) <= MaxEvents
  /\ inserted \in Seq(Event) /\ Len(events) + Len(inserted) <= MaxEvents
  /\ clock \in Nat
  /\ view \in View
  /\ \A s \in snapshots : s \in Snapshot
  /\ checkpoint \in Position
  /\ pc \in {"poll", "upsert", "count", "snapshot", "checkpoint"}
  /\ next \in 1..MaxEvents + 1 /\ batch \in Position
  /\ attempt \in 1..MaxRetries
  /\ count \in Nat
  /\ read \in [payload : View, lost : SUBSET Position]
  /\ raises \in 0..MaxRaises
  /\ restarts \in 0..MaxRestarts
  /\ rebuilds \in 0..MaxRebuilds
  /\ skipped \subseteq Position

Init ==
  /\ events = <<>> /\ inserted = <<>> /\ clock = 0
  /\ view = NoRows /\ snapshots = {} /\ checkpoint = 0
  /\ pc = "poll" /\ next = 1 /\ batch = 0 /\ attempt = 1 /\ count = 0
  /\ read = NothingRead
  /\ raises = 0 /\ restarts = 0 /\ rebuilds = 0
  /\ skipped = {}

--------------------------------------------------------------------------------

\* Slips a maintainer could make, each paired in PROJECT.json with the property
\* that notices it: a retry too many, a query that takes the newest snapshot of all,
\* a snapshot at every other trigger.
LastAttemptLate == attempt > MaxRetries
OldEnoughAny(t) == snapshots \cup {NoSnapshot}
SnapshotDueTwice(n) == n % (2 * Trigger) = 0

--------------------------------------------------------------------------------

\* The agent's one append of a check: ComplianceCheckInitiated when the stream is new,
\* its rules (five in the code, here one or more), a note unless a hard block ended
\* them, and the verdict.
NextInCheck ==
  [ComplianceCheckRequested |-> {},
   ComplianceCheckInitiated |-> RuleResult,
   ComplianceRulePassed     |-> RuleResult \cup {"ComplianceRuleNoted"},
   ComplianceRuleFailed     |-> RuleResult \cup {"ComplianceRuleNoted",
                                                "ComplianceCheckCompleted"},
   ComplianceRuleNoted      |-> {"ComplianceCheckCompleted"},
   ComplianceCheckCompleted |-> {}]

StreamIsNew == \A i \in 1..Len(events) : events[i].kind \notin OnStream

\* The first event of an append: a handler's only one, or the agent's first.
MayOpen(kind) ==
  \/ kind \in _SUBSCRIBED_EVENTS
  \/ kind = "ComplianceCheckInitiated" /\ StreamIsNew

MayContinue(kind, rules) ==
  /\ kind \in NextInCheck[inserted[Len(inserted)].kind]
  /\ StreamIsNew => inserted[1].kind = "ComplianceCheckInitiated"
  /\ \A i \in 1..Len(inserted) : inserted[i].rules \cap rules = {}

\* append on the stream compliance-<id>, or on the loan stream for a
\* ComplianceCheckRequested: an INSERT for each event, which takes recorded_at, and the
\* COMMIT by which all are seen.
InsertEvent(kind, rules) ==
  /\ Len(events) + Len(inserted) < MaxEvents
  /\ IF inserted = <<>> THEN MayOpen(kind) ELSE MayContinue(kind, rules)
  /\ clock' = clock + 1
  /\ inserted' =
       Append(inserted, [kind |-> kind, rules |-> rules, recorded_at |-> clock'])
  /\ UNCHANGED <<events, tables, daemon, faults, skipped>>

CommitEvents ==
  /\ \/ Len(inserted) = 1 /\ inserted[1].kind \in _SUBSCRIBED_EVENTS
     \/ inserted # <<>> /\ inserted[Len(inserted)].kind = "ComplianceCheckCompleted"
  /\ events' = events \o inserted
  /\ inserted' = <<>>
  /\ UNCHANGED <<clock, tables, daemon, faults, skipped>>

--------------------------------------------------------------------------------

\* Both upserts leave the other one's columns alone on a conflict.
RowUpserted(row, kind, position) ==
  IF kind = "ComplianceRulePassed"
  THEN [row EXCEPT !.status = "PASSED", !.rule_version = position,
                   !.evidence_hash = position]
  ELSE [row EXCEPT !.status = "FAILED", !.rule_version = position,
                   !.failure_reason = position]

Upserted(rows, e, position) ==
  [r \in RuleId |-> IF r \in e.rules THEN RowUpserted(rows[r], e.kind, position)
                                    ELSE rows[r]]

\* A batch of the daemon: the events behind its checkpoint.
StartBatch ==
  /\ pc = "poll"
  /\ checkpoint < Len(events)
  /\ next' = checkpoint + 1
  /\ batch' = Len(events)
  /\ attempt' = 1
  /\ pc' = "upsert"
  /\ UNCHANGED <<store, tables, count, read, faults, skipped>>

NextEvent ==
  /\ next' = IF next < batch THEN next + 1 ELSE 1
  /\ batch' = IF next < batch THEN batch ELSE 0
  /\ attempt' = 1
  /\ pc' = IF next < batch THEN "upsert" ELSE "poll"

\* What a batch leaves when it ends before its page does.
BatchForgotten == pc' = "poll" /\ next' = 1 /\ batch' = 0 /\ attempt' = 1

\* handle: the handler of the event's type; it returns early on any other event.
Upsert ==
  /\ pc = "upsert"
  /\ view' = Upserted(view, events[next], next)
  /\ pc' = IF events[next].kind \in _SUBSCRIBED_EVENTS THEN "count" ELSE "checkpoint"
  /\ skipped' = skipped \ {next}
  /\ UNCHANGED <<store, snapshots, checkpoint, next, batch, attempt, count, read,
                 faults>>

SnapshotDue(n) == n % Trigger = 0

\* handle, second half: the count, and the SELECT of _write_snapshot when it is due.
CountEvent ==
  /\ pc = "count"
  /\ count' = count + 1
  /\ IF SnapshotDue(count')
     THEN pc' = "snapshot" /\ read' = [payload |-> view, lost |-> skipped]
     ELSE pc' = "checkpoint" /\ UNCHANGED read
  /\ UNCHANGED <<store, tables, next, batch, attempt, faults, skipped>>

SnapshotOf(now) ==
  [snapshot_at |-> now, event_position |-> next, payload |-> read.payload,
   lost |-> read.lost]

\* The INSERT of _write_snapshot.
WriteSnapshot ==
  /\ pc = "snapshot"
  /\ clock' = clock + 1
  /\ snapshots' = snapshots \cup {SnapshotOf(clock')}
  /\ read' = NothingRead
  /\ pc' = "checkpoint"
  /\ UNCHANGED <<events, inserted, view, checkpoint, next, batch, attempt, count,
                 faults, skipped>>

\* _update_checkpoint.
Advance ==
  /\ pc = "checkpoint"
  /\ checkpoint' = next
  /\ NextEvent
  /\ UNCHANGED <<store, view, snapshots, count, read, faults, skipped>>

LastAttempt == attempt = MaxRetries

\* handle raises: in its upsert, or in a statement of _write_snapshot, which are behind
\* the count.  The daemon runs it again from the start, or gives the event up; the
\* checkpoint passes a given-up event with the next one that succeeds.
Raise ==
  /\ raises < MaxRaises
  /\ raises' = raises + 1
  /\ \/ pc = "upsert" /\ events[next].kind \in RuleResult /\ UNCHANGED count
     \/ pc = "count" /\ SnapshotDue(count + 1) /\ count' = count + 1
     \/ pc = "snapshot" /\ UNCHANGED count
  /\ IF LastAttempt
     THEN /\ NextEvent
          /\ skipped' = IF pc = "upsert" THEN skipped \cup {next} ELSE skipped
     ELSE /\ attempt' = attempt + 1
          /\ pc' = "upsert"
          /\ UNCHANGED <<next, batch, skipped>>
  /\ read' = NothingRead
  /\ UNCHANGED <<store, tables, restarts, rebuilds>>

\* _update_checkpoint raises, or _log_projection_error does after the last attempt:
\* run_forever catches it, and the next poll starts from the stored checkpoint.
BreakOff ==
  /\ raises < MaxRaises
  /\ raises' = raises + 1
  /\ \/ pc = "checkpoint" /\ UNCHANGED count
     \/ /\ LastAttempt
        /\ \/ pc = "upsert" /\ events[next].kind \in RuleResult /\ UNCHANGED count
           \/ pc = "count" /\ SnapshotDue(count + 1) /\ count' = count + 1
           \/ pc = "snapshot" /\ UNCHANGED count
  /\ BatchForgotten
  /\ read' = NothingRead
  /\ UNCHANGED <<store, tables, restarts, rebuilds, skipped>>

\* The process stops and starts again: its memory is gone, its tables are not.
Restart ==
  /\ restarts < MaxRestarts
  /\ restarts' = restarts + 1
  /\ count' = 0
  /\ BatchForgotten
  /\ read' = NothingRead
  /\ UNCHANGED <<store, tables, raises, rebuilds, skipped>>

\* rebuild_projection: one transaction, at any point of a running batch.  What the
\* batch has left behind it is lost when its next checkpoint is written; rows it has
\* read are written after the rebuild.
Rebuild ==
  /\ rebuilds < MaxRebuilds
  /\ rebuilds' = rebuilds + 1
  /\ view' = NoRows
  /\ snapshots' = {}
  /\ checkpoint' = 0
  /\ count' = 0
  /\ skipped' = IF pc = "poll" THEN {}
                ELSE 1..(IF pc = "upsert" THEN next - 1 ELSE next)
  /\ UNCHANGED <<store, pc, next, batch, attempt, read, raises, restarts>>

--------------------------------------------------------------------------------

\* _apply_event_to_state replaces the record of the rule.
RowApplied(kind, position) ==
  IF kind = "ComplianceRulePassed"
  THEN [status |-> "PASSED", rule_version |-> position,
        evidence_hash |-> position, failure_reason |-> 0]
  ELSE [status |-> "FAILED", rule_version |-> position,
        evidence_hash |-> 0, failure_reason |-> position]

\* The events of the compliance stream behind a position, recorded by t, applied
\* in the order of their positions: the last one of each rule stands.
Behind(r, from, t) ==
  {i \in from + 1..Len(events) : r \in events[i].rules /\ events[i].recorded_at <= t}

Delta(rows, from, t) ==
  [r \in RuleId |->
     LET behind == Behind(r, from, t)
     IN  IF behind = {} THEN rows[r]
                        ELSE RowApplied(events[Max(behind)].kind, Max(behind))]

\* get_compliance_at reads the newest snapshot with snapshot_at <= timestamp in one
\* statement and the events in another: by then it may hold any of these.
OldEnough(t) == {s \in snapshots : s.snapshot_at <= t} \cup {NoSnapshot}

Answer(s, t) == Delta(s.payload, s.event_position, t)

Next ==
  \/ \E kind \in RuleResult, r \in RuleId : InsertEvent(kind, {r})
  \/ \E kind \in EventKind \ RuleResult : InsertEvent(kind, {})
  \/ CommitEvents
  \/ StartBatch \/ Upsert \/ CountEvent \/ WriteSnapshot \/ Advance
  \/ Raise \/ BreakOff \/ Restart \/ Rebuild

Spec == Init /\ [][Next]_vars

--------------------------------------------------------------------------------

\* The rule events of a rule recorded by t: what the rule's state at t rests on.
RecordedBy(r, t) ==
  {i \in 1..Len(events) : r \in events[i].rules /\ events[i].recorded_at <= t}

StatusBy == [ComplianceRulePassed |-> "PASSED", ComplianceRuleFailed |-> "FAILED"]

\* "Return compliance state as it existed at a specific point in time" (line 105):
\* each rule has the version and the status of the last event recorded by then,
\* whichever snapshot a query starts from, whatever is committed, restarted or
\* rebuilt before it reads the events, and however late the snapshot was written.
\* The exception is a snapshot of a view from which the rule's events were missing.
TemporalQueryFaithful ==
  \A t \in 0..clock, r \in RuleId :
    LET known == RecordedBy(r, t)
    IN  \A s \in OldEnough(t) : (\A i \in s.lost : r \notin events[i].rules) =>
          LET row == Answer(s, t)[r]
          IN  IF known = {} THEN row = Absent
              ELSE /\ row.rule_version = Max(known)
                   /\ row.status = StatusBy[events[Max(known)].kind]

\* The events of some kinds behind a position, as far as the projection has come.
Since(from, kinds) == {i \in from + 1..checkpoint : events[i].kind \in kinds}

LastSnapshot == Max({0} \cup {s.event_position : s \in snapshots})

\* "Delta events since last snapshot (max 100 events per snapshot interval)" (line 115),
\* corrected.  Only subscribed events are counted: each restart forgets a count that has
\* not reached the trigger, and each exception may have an event counted again or step
\* over the trigger, so that an interval grows by at most one trigger for each.  And even
\* when nothing fails a query loads more than was counted, because the projection passes
\* over the agent's other events of the stream: one in three is counted at worst, after a
\* note and a verdict whose rules the snapshot holds.
DeltaBounded ==
  skipped = {} =>
    LET counted == Cardinality(Since(LastSnapshot, _SUBSCRIBED_EVENTS))
    IN  /\ counted < Trigger * (1 + raises + restarts)
        /\ Cardinality(Since(LastSnapshot, OnStream)) <= 3 * counted + 2

================================================================================
