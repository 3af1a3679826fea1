# Verification of The Ledger

TLA+ models of the event store, its readers and its writers, with the TLC
configurations that check them and TLAPS proofs about the core. Paths below are
relative to the repository; `event_store.py` and the like are under `src/`.

## 1. The system

The Ledger records the life of commercial loan applications as events in
PostgreSQL. Commands come in as MCP tool calls; a handler replays a stream into an
aggregate, checks business rules and appends; daemons carry what was appended to
read models and to Kafka; five LLM agents work on the same streams.

| Component | State | Operations | Interacts through |
|---|---|---|---|
| Event store (`event_store.py`, `schema.sql`) | `events`, `event_streams`, `outbox`, row locks, the identity sequence | `append`, `archive_stream`, `load_stream`, `load_all`, `stream_version` | transactions of several statements over a bounded pool |
| Projection daemon (`projections/daemon.py`) | `projection_checkpoints`, `projection_errors`, the current batch | `_process_batch`, `_handle_with_retry`, `_update_checkpoint`, `rebuild_projection` | reads `events` by global position; every write its own transaction |
| Application summary, agent performance (`projections/application_summary.py`, `agent_performance.py`) | one table each | `handle`, `rebuild` | called by the daemon with upcasted events |
| Compliance audit view (`projections/compliance_audit.py`) | its table, `compliance_snapshots` and an in-memory event count | `handle`, `rebuild`, `get_compliance_at` | called by the daemon; queries read snapshots and `events` |
| Outbox publisher (`outbox/daemon.py`) | `outbox.published_at`, `outbox.attempts`, row locks | `_process_batch` | publishes inside its transaction |
| Aggregates (`aggregates/*.py`) | a replayed stream | `load`, the `assert_*` guards | called by handlers |
| Command handlers (`commands/handlers.py`) and MCP tools (`mcp/tools.py`) | none of their own | eight handlers; a retry wrapper for four of the tools | several awaits between what is read and what is appended |
| Audit chain (`integrity/audit_chain.py`) | the stream `audit-*` | `run_integrity_check` | three reads and an append |
| Agents (`agents/*.py`), context reconstruction (`integrity/gas_town.py`) | a session stream, the output streams | nodes of a graph, `_append_with_occ` | two-stream writes, triggered by events |
| Regulatory package (`regulatory/package.py`) | none of its own | `generate_regulatory_package` | two reads of a stream, an integrity check between them |
| Upcasting (`upcasting/*.py`), what-if (`what_if/projector.py`) | none | pure functions | on what the store returns |
| Simulator and seeding (`starter/datagen`, `scripts/seed_from_jsonl.py`) | a file of events | write histories straight to the tables | beside the store, without its transactions |
| Registry, resources, LLM client, dashboard | none, or read-only | queries | |

What is hard about it: optimistic concurrency across several statements and
several streams; a global order that is not the order of commits; handlers and
checkpoints that do not commit together; retries of a whole handler; publishing
inside a transaction; two daemons started by two entry points; reports made of two
reads; snapshots chosen by one clock and events by another. `PROJECT.json`
lists each hazard at the line where it bites, with the properties aimed at it.

## 2. Modules

| Module | Models | Notes |
|---|---|---|
| `StreamLog` | what `append` promises: a batch is added in one step, against a version, once | abstract |
| `EventStore` | `append` statement by statement, `archive_stream` | implements `StreamLog` and `EventFeed` |
| `EventFeed` | the `events` table as a reader by global position sees it | abstract; base of `ProjectionDaemon` |
| `ProjectionDaemon` | daemons polling the feed | extends `EventFeed` |
| `OutboxPublisher` | publishers draining the outbox | |
| `LoanApplication` | the aggregates as pure operators on a log | |
| `LoanMachine` | what the handlers mean: guarded, single-step writes | abstract; extends `LoanApplication` |
| `CommandHandlers` | the eight handlers under the retry wrapper | implements `LoanMachine` |
| `AuditChain` | `run_integrity_check` | |
| `RegulatoryPackage` | a package around a check | extends `AuditChain` |
| `Subsequence` | rows picked by their positions | operators |
| `AgentContext` | what a recovery learns from a session stream | operators |
| `AgentPipeline` | the five agents on one application, with rivals and recovery runs | uses `AgentContext` |
| `ComplianceAudit` | the compliance view, its snapshots and its temporal query | |
| `Upcasting` | the chain of upcasters, and the events read models see | operators |
| `ApplicationSummary`, `AgentPerformance` | what handling an event does to a row | operators |
| `WhatIf` | the two replays and their comparison | operators |
| `ReadModels` | the two projections and the what-if projector on histories the handlers and agents may write | extends the five above and `LoanApplication` |
| `EventSimulator` | the history the simulator writes for a target state | operators |
| `Seeding` | two scripts that write such histories beside the application | extends `EventSimulator` |
| `EventStoreProofs`, `ProjectionDaemonProofs`, `CommandHandlersProofs`, `ReportingProofs`, `OutboxPublisherProofs`, `ComplianceAuditProofs`, `AgentPipelineProofs`, `SeedingProofs` | theorems | section 5 |
| `MC*` | instances for TLC | |

The modules are layered as the code is. `EventStore` shows that an append, though
it is a transaction of many statements, behaves as one step on one log; that is
why `CommandHandlers`, `AuditChain` and `AgentPipeline` take `store.append` and `load_stream` as
single steps. It also shows that what `load_all` can see is the feed, which is why
`ProjectionDaemon` starts from `EventFeed` and not from transactions. What
`ProjectionDaemon` shows of a daemon (order, repeats, events passed over) is in turn
how `ReadModels` feeds its projections; `ComplianceAudit` has its own daemon steps,
because its count and its snapshots live between them.
`CommandHandlers` in turn shows that read-wait-append cycles behave as the atomic
guarded writes of `LoanMachine`.

### How state and actions correspond to the code

**EventStore.** A *call* is one invocation of `append`; `pc` is the statement it is
about to run, `new_version` the local variable of that name, `staged` the rows
its open transaction has inserted. `lock[s]` is the row of `event_streams` locked
by `SELECT ... FOR UPDATE`, or inserted and not yet committed. `Acquire` is
`pool.acquire` and BEGIN; `SelectRow`, `SelectMissing`, `CreateRow`, `Refetch` are
the four ways through step 1 of the code; `InsertEvent` is one row and moves the
sequence at once; `Commit` makes row version, events and outbox visible together.
`Abort` is any exception or crash inside the transaction; its effect is a rollback
that does not give positions back. A commit whose answer is lost is `Commit` with
the answer `failed`. `append([])`, which only reads the version, is left out.

**ProjectionDaemon.** `Page` is one `SELECT ... LIMIT` of `load_all`: the daemon
breaks off after one page. `todo` holds the pairs of projection and position that the two
nested loops have left, in the order `Before`; `First` is the pair at hand. `HandleOk` and `UpdateCheckpoint` are separate steps
because the connection is in autocommit mode. `poison` is a fixed set of
(projection, event) pairs on which the handler always raises; `faults` are failures
that pass. `Interrupt` is an exception that reaches `run_forever` or a restart of
the process: the two differ in nothing that is kept. `view[p]` is the list of events
applied to the table since it was last truncated, from which order, loss and
repetition can be read.

**OutboxPublisher.** `created_at` is the start of the writing transaction: equal for
a batch, and in no relation to commit order. `marked` and `tried` are the
uncommitted UPDATEs of a publisher's transaction. The broker either takes the row,
refuses it, or takes it and loses the answer.

**LoanMachine and CommandHandlers.** One application, several sessions. An event is
its type, the command that wrote it and the recommendation it carries; the other
payload fields are those of the command's request. `confident` stands for
`confidence_score >= 0.6`, `explained` for "an override has a reason". Each handler
is an action with one disjunct per await. `seen` and `read` are the versions of the
loan (or compliance) and of the session stream that it will name. `Abort` stops a
handler between two steps. Events no handler writes come from `OutsideWrites`:
`CreditAnalysisRequested` from the document agent and `ComplianceClearanceIssued`
from whoever runs the system, as the lifecycle tests do. What else the agents write to
the loan stream, their own `DecisionGenerated` among it, is left to `AgentPipeline`.

**AuditChain.** SHA-256 is injective: the chain hash of a list of payloads is the
list itself, and hashing on from a previous hash is concatenation, which is what
`_recompute_full_chain` and `_chain_hash_from_prev` compute. `Verdict` is the code
between the reads and the append. `ChangeEvent` changes a stored payload in place;
no code of the repository does, it is what the chain is documented to notice.

**RegulatoryPackage.** `BeginPackage` is `load_stream` and the cut at the examination
date; `recorded_at` is `clock_timestamp()`, taken under the lock of the stream's row,
so a date is a number of events. The check of a package is one of `AuditChain`'s,
with all its steps; `FinishPackage` puts its answer, or its conflict, beside the events
read before. `altered` remembers which payloads had been changed by then.

**AgentPipeline.** A *run* is one call of `process_application`; its `plan` says which
agent it is, which run it waits for (`scripts/run_src_pipeline.py` awaits one agent
after another), and whether it recovers an earlier session. `step` and `node` are where
it stands: `recover` lies between the session's first event and the account of the one it
recovers, `work` is a node before its first append, `version` a call of
`stream_version`, `append` the append that follows, under the version in `expected`.
Each agent has its graph (`DocumentGraph` to `DecisionGraph`) and says what its nodes
append (`DocumentWrites` to `DecisionWrites`); `Batch` is the events of one append. A node that
only reads is one step, `Investigate`: what it reads cannot disappear. `found` is what a
run knows, its own analysis or what it read: the LLM's and the registry's answers are
arbitrary. Only the credit agent retries a conflict (`_append_with_occ`); the others
call `store.append` and give up. `RaiseOther` is any other exception, after which
`AgentSessionFailed` is appended, or a crash, after which nothing is; what raises at
`recover` stands outside the `try`, so nothing is appended there either. Left out are a
missing file, further documents, tool-call records and the events of single rules and
anomalies: no node decides on them. `Told` hands the session stream of the broken run
to `reconstruct_agent_context` (`AgentContext`), and `ContextSound` compares the answer
with the streams the run wrote to: a node is recorded in its session after its appends.

**ComplianceAudit.** One application. A payload is the position of its event, so that a
column tells which event it was taken from. The projection counts what it subscribes to
(`_SUBSCRIBED_EVENTS`), a query loads what is on `compliance-<id>` (`OnStream`): rule results
are both, a check that is requested is only counted, and the beginning, the note and the
verdict of a check are only loaded. An append is a handler's one event or the agent's
whole check (`NextInCheck`), of one rule or more where the code has five; `InsertEvent` takes `recorded_at`, `CommitEvents` makes the
append visible, and both may come between any two steps of the daemon. `Upsert`,
`CountEvent` with the SELECT of a snapshot that is due, `WriteSnapshot` with its INSERT and
`Advance` (the checkpoint) are statements of their own; `read` is what the SELECT returned.
`Raise` is an exception of `handle`: the event is tried again from its start, so it is
counted again, or given up after the last attempt. `BreakOff` is an exception of the
daemon's own statements, the checkpoint's or the error record's: the batch ends and the
count stays. `Restart` forgets `count` and the batch; `Rebuild` is one transaction at any
point of a batch. `Answer(s, t)` is what `get_compliance_at(t)` returns when it starts
from snapshot `s`; `OldEnough` holds every snapshot it may have found, because the
snapshot and the events are read by two statements. `lost` and `skipped` are not in the
code: they are the events a snapshot, or the view, lacks because their handler failed
or a rebuild met a running batch.

**ReadModels.** `HandlerEvents` and `AgentEvents` are what writers may append to a
history, under the guards of `LoanApplication`, in payloads of either version; both
write payloads of different shape (`by`). A behaviour follows one of the two
projections: they share nothing but the log. `Delivered` is an event as `load_all`
returns it, upcasted. `Handle`, `HandleAndStop`, `GiveUp`, `NextBatch` and `Rebuild` are
what `ProjectionDaemon` can do to a handler. An average is a fraction, updated as the SQL
does. `WhatIf` works on the same log, on streams as the projector loads them.

**Seeding.** `file` is what the simulator wrote to `seed_events.jsonl` for a scenario (a
target state and the compliance rules the company fails). `UpsertStream` and
`InsertEvent` are the two statements `write_to_db` runs for a line, in autocommit;
`SeedLine` is the transaction `seed_from_jsonl` runs; `AppendEvent` is the application,
under the version it reads. `careless` collects the streams in which `write_to_db` broke
off, went over what was there, or was overtaken.

## 3. Runs

Every run is a `.cfg` of the same name. Each finishes within four minutes.

### Properties that hold

| Run | Question | Bounds, and why they are enough |
|---|---|---|
| `EventStore_safety` | Can interleaved transactions break numbering, order, atomicity, archiving, the outbox? | 3 calls, 2 streams, batches of 1 or 2, versions -1 to 2, pool of 3: a creation race has a winner and two losers, a batch can be interrupted in its middle, and one stream can move while another waits |
| `EventStore_liveness` | Does every call get an answer? | 3 calls on 1 stream, pool of 2: a call waits for a connection, another for a lock |
| `ProjectionDaemon_daemon` | Does one daemon lose, reorder or repeat events, and does it get to every one? What survives a rebuild during a batch? | 2 projections, 3 events, pages of 2, 2 attempts, one poisonous pair, two passing failures, one restart, one rebuild: a page boundary, an exhausted retry, a restart and a rebuild can all meet; two passing failures exhaust the retries of an event that a replay then gets through. `disturbed` remembers the projections rebuilt while a batch was under way: for those events may be lost, and, with a restart, reordered (the last events of the old batch are followed by a replay), but never repeated more often than the daemon was restarted |
| `OutboxPublisher_drain` | Does the table claim only what the broker has? Is a row sent twice by two publishers, or touched when it is settled? Is every row settled, and given up only when it was refused? | 2 live publishers, or one beside a dry run; 3 rows, batches of 2, 2 attempts, 2 refusals a row, 1 lost transaction, 1 late start; with fairness |
| `CommandHandlers_handlers` | Do the handlers keep BR-1 to BR-6 while they race? | a submission, a session start and every pair of further commands over 2 sessions; and a screening, a decision and a second decision or review with all combinations of parameters; 2 attempts, clearance and request each up to twice |
| `AuditChain_together` | What do concurrent checks still guarantee, and is a package what its hash says? | 3 checks, one of them for a package with any examination date; 3 events, 2 payloads, 1 change |
| `AgentPipeline_pipeline` | Do the agents hand over in order, record what they wrote, leave a context that is true, and respect the constraints, when one is started twice or recovered? | the five agents, and a sixth run: for each agent, one that is started beside it and may break, with the agent that follows; and for each agent, one that breaks anywhere and is recovered, after which the pipeline goes on. 2 attempts; the loan empty, submitted, or with its document |
| `ComplianceAudit_snapshots` | Does a temporal query tell the truth, and how long can the delta behind a snapshot get? | 1 rule (rows do not influence each other), 4 events, which hold the longest check of one rule, a snapshot every 2, 2 attempts; any two of 2 exceptions, 1 restart and 1 rebuild (the constraint `TwoFaults`): a retry can step over the trigger, a snapshot can be written late, from a view ahead of its position, or lack events. Three faults and more are left to the proofs, which bound none |
| `ReadModels_histories` | Do the read models say what the aggregate says and what was handled? Does a what-if replay change only what it is told to? | nothing, two applications to be analysed, or one to be decided, with 2 further events of either version and author; 1 stop, exhausted retry or rebuild |
| `Seeding_scripts` | What survives scripts that are stopped, repeated and overtaken? | 5 targets, with and without decision and block (the other early targets give prefixes of the longest file, in which a script may stop at any line; the other decisions differ in one line); 2 starts of scripts over 2 simulated runs, 1 event of the application on the loan or credit stream |

Symmetry is used only where no liveness is checked. Every property has a mutant: a
plausible slip in one mapped definition under which TLC finds the property
violated (`PROJECT.json`, `mutants`).

### Where the code does not do what it says

Each of these runs checks one statement quoted from a comment, a docstring or a
specification of the repository, and ends in a counterexample.

| Run | What happens |
|---|---|
| `ProjectionDaemon_gap` | two appends commit in the other order than they took positions; the checkpoint passes the late one for good |
| `CommandHandlers_final` | a late fraud screening reopens a final loan |

Further divergences met while modelling, which the models contain but no run states:

- `expected_version = -1` is documented to mean a new stream
  (`src/specs/001-ledger-event-store/contracts/event-store-interface.md:77`) and
  `event_store.py:144` accepts any version; so a session can be started again under
  another model version, and `ModelOf` follows the last start.
- A running batch writes the checkpoint that a rebuild has just removed
  (`daemon.py:141`, against "next batch will replay from the beginning", `daemon.py:279`);
  `disturbed` and `skipped` stand for it in the properties.
- Two concurrent checks name the same predecessor: the version is read after the
  previous hash (`audit_chain.py:121`, against "chained to the previous check's hash",
  `audit_chain.py:4-5`). `ForksNeedOverlap` is what remains.
- A given-up event with nothing handled behind it is fetched, retried and logged again
  on every poll (`daemon.py:140`); a projection that fails on a full page keeps the
  page, and so the others, where they are (`daemon.py:115`).
- Nothing keeps two daemons from applying one event (`daemon.py:96`).
- A dry run uses up the attempts it is meant to leave (`outbox/daemon.py:142`); that is
  why `GivenUpMeansRefused` is checked without one.
- The analysis and the request for the next step are two appends
  (`handlers.py:250`): when the second fails the first stands, and a retry is refused.
- `starter/ledger/agents/stub_agents.py:485` says "compliance BLOCKED → recommendation =
  DECLINE (cannot override)"; the later tests of `apply_hard_constraints` turn it into
  REFER (`agents/decision_orchestrator_agent.py:218`), so a loan blocked by compliance can
  be sent to review. `ApprovalsJustified` states what does hold of the results the decision
  names: there is a verdict among them, and none is BLOCKED. A result that was written
  after they were read is not looked at (`decision_orchestrator_agent.py:93`).
- `agents/base_agent.py:50` says a recovered session resumes "after the last successful
  node"; the graph starts over (`base_agent.py:143`), and what the broken session wrote
  is written again.
- After a blocked compliance the pipeline script starts the orchestrator all the same
  (`scripts/run_src_pipeline.py:88`), and a loan declined by compliance gets a decision.
- Compliance can be requested again after the clearance (`handlers.py:299`).
- The regulation set is looked up on a stream nothing writes it to
  (`compliance_record.py:115`): `RequiredChecks` is always empty.
- A changed prefix is taken for an old baseline (`audit_chain.py:99`), so that
  `tamper_detected` is never true; the model says so in `Verdict`.
- A session that was cut off without `AgentSessionFailed` is reported OK
  (`gas_town.py:169`), and events "PENDING or ERROR" are not kept "verbatim"
  (`gas_town.py:10`): only the last three are.
- A row of the compliance view that fails keeps the evidence hash of the pass before
  it, one that passes keeps the failure reason; `get_compliance_at` replaces the record
  instead, so that the two can differ in a column that no longer applies.
- "max 100 events per snapshot interval" (`compliance_audit.py:115`) does not hold, not
  even when nothing fails: `handle` returns before the count for the beginning, the note
  and the verdict of a check (`compliance_audit.py:66`), which `get_compliance_at` loads
  all the same (`:140`). A check of the five rules, but for the first of its stream, is
  seven events, of which five are counted: by the time a hundred are counted, up to a
  hundred and forty have to be loaded. Over restarts and exceptions the count itself
  falls behind. `DeltaBounded` says what does hold: counted events are fewer than a
  trigger and one for each fault, and at most three events are loaded for each of them,
  and two.
- A what-if replay leaves the events caused by the replaced one out of the real history
  too, and only those that name it directly (`projector.py:154`).
- The summary ignores `FraudScreeningRequested`, the aggregate ignores the credit
  stream; after such an event their states differ (`SummaryFollowsAggregate` leaves it out).
- The divisor of `avg_confidence_score` counts analyses without a confidence
  (`agent_performance.py:104`), so old events pull the average towards the first ones.
- A credit analysis written by an agent has no `agent_id`: the ledger's handler raises on
  it, and the daemon gives it up (`agent_performance.py:80`).
- The simulator claims to mirror the agents (`starter/datagen/event_simulator.py:26`).
  Its compliance and decision sessions name the position before the one they mean
  (`:421`, `:453`), and `total_nodes_executed` is 6 even when a hard block ended the
  evaluation. `SeededClaimsHold` states the claims with that offset.
- `generate_all.py` run twice, or beside the application, sets `current_version` back
  (`:182`), writes no outbox rows, and registers checkpoints under names no projection has
  (`:194`). `seed_from_jsonl.py` cannot be resumed: it ends at the first line that is there.

The passing runs of `ProjectionDaemon` set `MaxOpen = 1`, writers that commit one at
a time: with `MaxOpen = 2` `NothingSkipped` fails, which is `ProjectionDaemon_gap`.
They check that the daemon itself adds no loss to the one the feed causes.

## 4. Fairness

- `EventStore`: weak fairness of each call's next statement. The event loop resumes
  a task whose query is answered, and PostgreSQL wakes the waiter of a released row
  lock. Weak fairness is enough because at most finitely many rival calls exist in
  an instance; with a stream of rivals without end a waiter relies on PostgreSQL's
  lock queue. `Abort` and `ArchiveStream` are not fair.
- `AgentPipeline`, `CommandHandlers`, `AuditChain`, `ComplianceAudit`, `ReadModels`,
  `Seeding`: none, their runs check safety only.
- `ProjectionDaemon`: weak fairness of a daemon's batch. `run_forever` catches every
  exception and polls again. Interrupts and passing faults are bounded; nothing
  else is assumed of them. The writers are not fair.
- `OutboxPublisher`: weak fairness of a publisher's batch, for the same reason; a
  call of `publish` returns or raises.

## 5. Proofs

Everything below is proved for every value of the constants, under the assumption
named in each module, and so for any number of calls, commands, rows, rules, events
and faults.

**`EventStoreProofs`** (`EventStore!Spec`): `TypeCorrect`, `StreamsAreDense`,
`ReplayKeepsStreamOrder`, `OutboxIsAtomic`, `BatchesAreAtomic`, `OneWinner` (invariants)
and `ArchivedFrozen` (an action property). None of these is inductive by itself. That
positions are dense after `Commit` depends on the row still being what it was when the
version was read, several steps earlier. The inductive invariant adds what the row
lock buys: a call at `insert` holds the lock of its stream; the row of a locked stream
is not changed by anyone else, so `staged` continues exactly at `current_version`;
staged positions are above every committed position of the stream and not above
`sequence`; and a call without an open transaction has nothing staged. With these, each
action is a short case: only `Commit` changes `events`, and only the holder of the lock
commits. `Refinement` proves that `Spec` implements `StreamLog!Spec`
under the mapping that reads `log[s]` off the committed rows, position by position.
Every step but `Commit` and `ArchiveStream` is a stutter; `Commit` is `Accept`, for which
the proof needs that the version the call named is still the length of the log, and
that the call has nothing in the log yet. `FeedRefinement` proves the other half: for finitely
many calls (`IsFiniteSet(Call)`, because the abstract feed counts open positions) `Spec`
implements `EventFeed!FeedSpec`, so that what is proved of the daemon over the feed holds over
the store. An insert takes the next position, a commit makes a batch of positions visible
at once, and an abort drops what its transaction had staged; the open positions are
the staged ones, finitely many and disjoint from the committed ones.

**`ProjectionDaemonProofs`**: `TypeCorrect`, `SkipsNothing`, `OneDaemonInOrder` and
`OneDaemonCounts`, for any projections, page size, retries and faults. `SkipsNothing` holds for
any number of daemons, but only as long as positions become visible in the order in which
they were taken: it is stated of `Spec /\ [][VisibleInOrder]_vars`, and `ProjectionDaemon_gap`
shows that without the condition it fails. `SkipsNothingSerially` is the same for writers that commit
one at a time, where the condition is a theorem. The invariant (`NoGapIn`) says that
below any position a batch has yet to handle there is nothing it does not know of: it
is settled, or in the batch too; and a page contains every visible position between its
ends, which is where the condition is needed. Order and number are proved for one
daemon, as nothing keeps two from applying the same event: what it is about to handle
lies above the checkpoint (`AboveCheckpoint`), and between the checkpoint and what has been
applied there is nothing but given-up events (`OnlyGivenUpBetween`). The proof showed the
property to be wrong as it first stood, "always in the order of the log": when an event
is given up, a later one applied, and the process stops before the checkpoint is stored, the
replay may get the first one through after the second. TLC finds this with two passing
failures, and `AppliedInOrder` now says that only an event with an error row can be late.
`OneDaemonCounts` needs no condition on the writers: what is applied and not behind the
checkpoint is a batch's own, so only a batch that was cut short applies it again.

**`CommandHandlersProofs`.** The business rules are proved where
writes are atomic (`RulesHold`: `MachineSpec => []MachineInv`), then carried over.
`HandlersImplementMachine` proves that the handlers, which read, wait and append,
implement that machine, and `CreditAnalysedOnce`, `ContextComesFirst` and
`DecisionsAreJustified` follow from the two. The invariant of the refinement says what a
handler still knows at each of its lines: `Past`, it acts on a version its stream has
had; `Holding`, what it found out holds *as long as the stream it will name has that
version*, and what it found out about streams it does not name holds for ever, because
those guards are monotone in a growing stream. An append under a matching version is
then a step of the machine; every other step is a stutter. `ConflictsHaveRivals` proves
that a caller hears of a conflict only when a rival wrote: while a handler holds a version,
every event of its own command on that stream, those of earlier attempts included, is
within that version (`OwnBehind`), so what stands at the next position is someone
else's.

**`ReportingProofs`** holds the proofs about everything that is read off the store: the
read models and the what-if projector (`ReadSpec`), the audit chain and the packages
(`PackageSpec`).

`SummaryFollowsStream` rests on an invariant of the row alone (`SummaryInv`: it is there
once the submission was handled, and in the state the last handled event that the
projection knows leads to), and on a lemma that has nothing to do with the daemon: the
aggregate is where the last event of its stream leads, whatever came before
(`LoanEventsMove`, `StatesAfter`). What the two handlers and what the replay do with an
event is compared type by type (`HandlerEffects`), with events that were upcasted
(`UpcastKeeps`).

`MetricsFollowHistory` relates a row to three sets of times, those at which an analysis,
an analysis with a confidence, and a decision of its key were handled (`MetricsInv`,
`RowMatches`), for each of which a list notes what was added. A handled event adds a time
to the sets and an element to the lists of its key, and nothing to the others
(`AnalysisMatches`, `DecisionMatches`, `OtherMatches`); the new average is the mean of one
element more (`AveragedStep`, `RatedStep`), or, where an event had no confidence, still
between the extremes (`BracketedStep`). The sums are recursive functions: that the sum of a
longer list is the sum and the element needs the function to be the one its equation
describes, which follows from there being no least index at which two solutions differ
(`StepsAgree`, with `LeastNat`).

`WhatIfKeepsDecision` compares two replays element by element: a replay is a course of
outcomes, each got from the last by one event (`Course`); two of them that meet in
everything but tier and confidence before an event (`SameCourse`) still do behind it
(`CourseKept`), and behind the replaced analysis too (`BranchReplaced`). That the real
replay is the real history if nothing depends on the branch is a fact about picking all
rows (`PickedAll`), and that what is inserted from the credit stream keeps the list a list
is `ReplayedList`.

`PackageTypeCorrect`, `RecordsHashPrefixes`, `PackagesAreVerifiable`, `OnlyOverlapForks`:
the invariant follows a check from its reads to its append: what it loaded begins the
stream, its result covers what it loaded, and its previous hash is that of the last
record if none was appended since it began (`AuditInv`); the events of a package begin
what its check loads later, unless a payload changed since (`PackageInv`). The proof
also shows that a verdict is the hash of exactly what was loaded, which is why
`tamper_detected` stays false.

**`OutboxPublisherProofs`**: `TypeCorrect`, `PublishedMeansReceived`,
`RepeatsAreAccounted`, `GivenUpAfterRefusals` and `SettledStaysSettled`. The lock discipline
(`LockDiscipline`: rows an open transaction works on are locked by it, unpublished and
not given up) lets uncommitted marks be counted: each receipt with an answer has a
mark, committed or not, or was undone by an interrupt; each counted attempt was refused.

**`ComplianceAuditProofs`**: `TypeCorrect`, `TemporalQueriesAreFaithful` and `DeltaIsBounded`. The invariant
is that the view reflects the events handled so far, and each snapshot the events up to
its position (`Reflects`): the row of a rule is that of its last event among them, *or
already holds a later one*. The second case is what makes it inductive: after a restart
the view is ahead of the checkpoint, and a snapshot can be ahead of its own position. A
query is right all the same because every event a snapshot holds was recorded before it
was written.

`DeltaIsBounded` needs to know how far the count is from the next trigger. What has been
counted since the last snapshot is at most `count % Trigger`, plus one trigger for each
exception and each restart (`Allowance`): a restart forgets the count, a failed attempt counts
an event again or leaves it uncounted, and a retry may step over the trigger, but one
fault costs at most one interval. `DeltaInv` says this of the events counted (`Counted`), which run
one ahead of the checkpoint between the statements of a batch. It has to leave room
for a batch that a rebuild has overtaken: there the snapshots are gone and the
position is not, and `skipped` is not empty by the time the checkpoint says so.
The events that are loaded and not counted are bounded by the order in which a check is
written (`OrderInv`): a note stands behind a rule, a verdict behind a failed rule or a note,
and a check begins with its own event only on a new stream. So each loaded event behind a
position is a rule there, stands one or two places behind one, or is one of two that have
their rule before the position, or of the one that begins the stream (`WindowCovered`), and
there are at most three times the rules and two (`WindowBounded`).

**`AgentPipelineProofs`**: `TypeCorrect`, `RequestsHaveResults`, `OutputsAreRecorded`,
`ApprovalsAreJustified` and `ContextIsSound`, for any number of runs of any agents, interleaved, broken off and recovered as they may be.
What a later agent relies on is carried by the invariant of a single run (`RunInv`): at
its second append the result of the first is on its stream and signed by this run; the
verdict a compliance run goes by, two nodes after it was reached, is still the one it
appended; what `events_written` lists is where it says, because streams only grow.
`SoundLog` adds that results hold values their readers can use, and that none is written
by anyone but a run, which the type of `contributing_sessions` rests on.

Approvals need more (`DecisionInv`), because the decision names sessions and not events:
what an orchestrator has read must stay all that those sessions say. A compliance run
judges once, at its third node, and goes by that verdict ever after (`JudgedOnce`), so no
second verdict can appear under a session already named (`VerdictRead`); credit and fraud
results are signed by agents that write no verdict (`ResultsSigned`); and once
`apply_hard_constraints` has left an APPROVE, what was read is acceptable (`Read`).

`ContextIsSound` follows a session from its first entry to the recovery that reads it
(`ContextInv`, checked by TLC on the instance of the run before it was proved). Each node
has its place in the session (`EntryAt`: the last one comes after `AgentOutputWritten`), the
first `node - 1` or all of them are entered there and nothing else is (`Entered`), and all
that those nodes append is on the streams (`Behind`), because a node is recorded after
its appends (`Progress`). Each event type belongs to one node of its agent (`Place`), so no event
of a run is ahead of the node it is at (`NothingAhead`). Two facts make this inductive:
what a run finds at a node cannot change what earlier nodes appended (`EarlierWrites`:
only `write_output` goes by a finding), and a session that a recovery names has broken and
writes no more. `ContextIs` then computes what `reconstruct_agent_context` returns for such a
session: the positions it filters are counted by `EntriesCounted` and ordered by `NthEntry`.
`Executed` and `Nth` state its loop without a recursive filter, so that it can be proved
about.

**`SeedingProofs`.** `RowsAreCounted` is proved of any set of scenarios and any number of
starts, stops and appends (`SeedingInv`, checked by TLC first). Neither script looks at what
the database holds, so the invariant says what they rely on instead: every line behind the
one a script is at is in the tables, its own or another (`LinesWritten`), because a taken
position ends the one script and is passed over by the other; and between the two
statements of `write_to_db` the row is exactly one ahead of the events (`RowAhead`). That a
line's position is 1 or follows that of an earlier line of its stream is a lemma about every
file of lines (`PositionFollows`: the last line of the stream before it, `LastOf`), and so
the next line of a stream that its row counts is taken or exactly the next position
(`NextPosition`). `RunTyped` shows that whatever the target and the failing rules are, the
simulator writes lines on streams that exist. The simulator's loops and its counting of
positions are written as functions and cardinalities, not as folds, for these proofs. The
assumption says that the failing rules are rules and that the application appends to streams
of the model.

`ClaimsAreBacked` has two halves. The first is about the file (`RunBacked`): whatever the
target and the failing rules, each line that claims something means an earlier line, of
the stream and type it names, as many lines down that stream as it says (`Backed`). Steps
are put behind each other (`StepNamed`): a step that is told of by a session is a head, the
line that is meant, what follows it, and the session's claim; the position in the claim
must be the number of lines of that stream before the step and in its head, and one
(`Fits`), which the proof computes for each of the five (`CountCat` counts the two halves of
a list, and `CountHalf` the rule events of the compliance step, up to the first hard
failure). The second half is about the tables (`ClaimsInv`, checked by TLC first): behind
the line a script is at, every line of a record that is not a session's is at its
position, or its stream is known to be careless; what is at a position is the
application's or a line of that stream, with all the lines before it; and nothing that is
in the tables is written over (`Grows`). Besides the failing rules, the assumption says that
targets are those the simulator knows (`event_simulator.py:60`).

What is only model-checked is liveness: TLAPS does not prove properties under fairness.
Every invariant and every action property of the runs that hold is a theorem.

## 6. Assumptions, and what is not modelled

- Rule events of one application commit one at a time, as the agent and the handler
  write them: with concurrent writers `recorded_at` and the position can disagree, and
  the temporal query with them. What concurrent commits do to the daemon is
  `ProjectionDaemon_gap`.
- The passing runs of `ProjectionDaemon` take the same writers, as said above.
- `get_compliance_at` finds the events of a stream with LIKE; identifiers that contain
  its wildcards are not modelled.
- SHA-256 is injective.
- Of the agents: several documents or a missing file, tool calls, prompts and arithmetic.
- Of the projections and packages: amounts, times, narrative, serialisation.
- The lag record of the daemon: wall-clock time, used for logging.
- The lifetime of a generator that the daemon leaves in the middle (`daemon.py:123`): below
  the level of the model.
- The order of rows of one stream in Kafka (`outbox/daemon.py:112`): the code claims none,
  the model allows any.
- Aggregates' clearance rules (`compliance_record.py`): nothing calls them.
- MCP resources and server, registry and LLM clients: read-only queries, process
  start-up, external services.
- The dashboard: a user interface over what is modelled here. (`_helpers.py:1005` shows
  the last cost report that was written when the new one fails.)
- The starter template and the demonstration scripts: what the project was started
  from, and calls of modelled functions.

## 7. Plan

Done: the store and its readers, the handlers, the audit chain and packages, the
agents and their recovery, the three projections, the pure algorithms, the seeding
scripts, and the proofs of section 5. What would come next:

1. `ComplianceAudit` with concurrent writers, to say exactly which queries suffer.
2. The agents with several documents, once a node decides on their number.
