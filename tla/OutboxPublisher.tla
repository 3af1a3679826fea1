---------------------------- MODULE OutboxPublisher ----------------------------
(***************************************************************************)
(* OutboxPublisherDaemon (src/outbox/daemon.py): daemons drain the outbox  *)
(* table into Kafka.  A batch is one transaction that keeps its rows       *)
(* locked while it publishes, so the broker hears of a row before the      *)
(* table does, and a transaction that does not commit has published rows   *)
(* the table still calls pending.                                          *)
(***************************************************************************)
EXTENDS Integers, FiniteSets, Functions

CONSTANTS
  Row,           \* rows EventStore.append commits to the outbox
  Publisher,     \* daemons
  Configs,       \* sets of daemons that may be configured with dry_run
  Free,          \* the owner of a row nobody has locked
  BatchSize,     \* cfg.batch_size
  MaxAttempts,   \* cfg.max_attempts
  MaxRefusals,   \* bound: calls of publish that raise
  MaxInterrupts, \* bound: batches that do not commit
  MaxStarts      \* bound: distinct values of created_at

ASSUME OutboxAssumption ==
  /\ Configs \subseteq SUBSET Publisher
  /\ Free \notin Publisher
  /\ BatchSize \in Nat \ {0}
  /\ MaxAttempts \in Nat \ {0}
  /\ MaxRefusals \in Nat
  /\ MaxInterrupts \in Nat
  /\ MaxStarts \in Nat

VARIABLES
  DryRun,       \* the daemons configured with dry_run
  \* the table, committed values
  created_at,   \* 0 before the row is there
  published,    \* rows with published_at
  attempts,
  lock,
  \* the open transaction of each daemon
  pc,
  todo,         \* locked rows still to publish
  marked,       \* rows with an uncommitted published_at
  tried,        \* rows with an uncommitted attempts + 1
  \* the broker, and what went wrong
  received,     \* times Kafka stored the row
  refusals,     \* times publish raised for the row
  unsure,       \* those of them after which Kafka had stored the row
  interrupts

table == <<created_at, published, attempts>>
transaction == <<lock, pc, todo, marked, tried>>
broker == <<received, refusals, unsure>>
vars == <<DryRun, table, transaction, broker, interrupts>>

TypeOK ==
  /\ DryRun \in Configs
  /\ created_at \in [Row -> Nat]
  /\ published \subseteq Row
  /\ attempts \in [Row -> 0..MaxAttempts]
  /\ lock \in [Row -> Publisher \cup {Free}]
  /\ pc \in [Publisher -> {"poll", "publish"}]
  /\ todo \in [Publisher -> SUBSET Row]
  /\ marked \in [Publisher -> SUBSET Row]
  /\ tried \in [Publisher -> SUBSET Row]
  /\ received \in [Row -> Nat]
  /\ refusals \in [Row -> Nat]
  /\ unsure \in [Row -> Nat]
  /\ interrupts \in 0..MaxInterrupts

Init ==
  /\ DryRun \in Configs
  /\ created_at = [r \in Row |-> 0]
  /\ published = {}
  /\ attempts = [r \in Row |-> 0]
  /\ lock = [r \in Row |-> Free]
  /\ pc = [d \in Publisher |-> "poll"]
  /\ todo = [d \in Publisher |-> {}]
  /\ marked = [d \in Publisher |-> {}]
  /\ tried = [d \in Publisher |-> {}]
  /\ received = [r \in Row |-> 0]
  /\ refusals = [r \in Row |-> 0]
  /\ unsure = [r \in Row |-> 0]
  /\ interrupts = 0

--------------------------------------------------------------------------------

Present == {r \in Row : created_at[r] > 0}

\* Slips a maintainer could make, each paired in PROJECT.json with the property
\* that notices it: SELECT without SKIP LOCKED's row locks, attempts compared
\* with <=, published_at set by a dry run, a row given up at once, a
\* transaction that leaves its locks.
PendingUnlocked == {r \in Present \ published : attempts[r] < MaxAttempts}
PendingOnceMore ==
  {r \in Present \ published : attempts[r] <= MaxAttempts /\ lock[r] = Free}
MarksAlways(d) == TRUE
AttemptsAll(d) ==
  [r \in Row |-> IF lock[r] = d THEN MaxAttempts ELSE attempts[r]]
EndLocked(d) ==
  /\ pc' = [pc EXCEPT ![d] = "poll"]
  /\ todo' = [todo EXCEPT ![d] = {}]
  /\ marked' = [marked EXCEPT ![d] = {}]
  /\ tried' = [tried EXCEPT ![d] = {}]
  /\ UNCHANGED lock

--------------------------------------------------------------------------------

\* WHERE published_at IS NULL AND attempts < max_attempts ... SKIP LOCKED.
Pending ==
  {r \in Present \ published : attempts[r] < MaxAttempts /\ lock[r] = Free}

\* EventStore.append commits rows.  created_at is the start of that transaction:
\* the same for all rows of a batch, and not in the order of commits.
AppendRows(rows, started) ==
  /\ rows # {}
  /\ rows \cap Present = {}
  /\ created_at' = [r \in Row |-> IF r \in rows THEN started ELSE created_at[r]]
  /\ UNCHANGED <<DryRun, published, attempts, transaction, broker, interrupts>>

\* ORDER BY created_at LIMIT batch_size: the oldest, rows of one batch in any
\* order.
Oldest(batch, rows) ==
  /\ batch \subseteq rows
  /\ \/ batch = rows /\ Cardinality(batch) <= BatchSize
     \/ Cardinality(batch) = BatchSize
  /\ \A r \in batch, q \in rows \ batch : created_at[r] <= created_at[q]

SelectBatch(d) ==
  /\ pc[d] = "poll"
  /\ \E batch \in SUBSET Pending :
       /\ batch # {}
       /\ Oldest(batch, Pending)
       /\ todo' = [todo EXCEPT ![d] = batch]
       /\ lock' = [r \in Row |-> IF r \in batch THEN d ELSE lock[r]]
  /\ pc' = [pc EXCEPT ![d] = "publish"]
  /\ UNCHANGED <<DryRun, table, marked, tried, broker, interrupts>>

\* No row to select, or all of them locked.
SelectNothing(d) ==
  /\ pc[d] = "poll"
  /\ Pending = {}
  /\ UNCHANGED vars

\* The rows are published in the order they were selected.
Current(d) == {r \in todo[d] : \A q \in todo[d] : created_at[r] <= created_at[q]}

\* A dry run leaves published_at alone.
MarksPublished(d) == d \notin DryRun

\* publish returns: the broker has the row, unless the publisher only logs.
PublishReturns(d, r) ==
  /\ pc[d] = "publish"
  /\ r \in Current(d)
  /\ todo' = [todo EXCEPT ![d] = @ \ {r}]
  /\ tried' = [tried EXCEPT ![d] = @ \cup {r}]
  /\ marked' = [marked EXCEPT ![d] = IF MarksPublished(d) THEN @ \cup {r} ELSE @]
  /\ received' = [received EXCEPT ![r] = IF d \in DryRun THEN @ ELSE @ + 1]
  /\ UNCHANGED <<DryRun, table, lock, pc, refusals, unsure, interrupts>>

\* publish raises: the broker refused the row, or stored it and its answer was
\* lost.  The row is tried once more on a later poll.
PublishRaises(d, r) ==
  /\ pc[d] = "publish"
  /\ d \notin DryRun
  /\ r \in Current(d)
  /\ FoldFunction(LAMBDA m, n : m + n, 0, refusals) < MaxRefusals
  /\ refusals' = [refusals EXCEPT ![r] = @ + 1]
  /\ \/ UNCHANGED <<received, unsure>>
     \/ /\ received' = [received EXCEPT ![r] = @ + 1]
        /\ unsure' = [unsure EXCEPT ![r] = @ + 1]
  /\ todo' = [todo EXCEPT ![d] = @ \ {r}]
  /\ tried' = [tried EXCEPT ![d] = @ \cup {r}]
  /\ UNCHANGED <<DryRun, table, lock, pc, marked, interrupts>>

EndTransaction(d) ==
  /\ pc' = [pc EXCEPT ![d] = "poll"]
  /\ todo' = [todo EXCEPT ![d] = {}]
  /\ marked' = [marked EXCEPT ![d] = {}]
  /\ tried' = [tried EXCEPT ![d] = {}]
  /\ lock' = [r \in Row |-> IF lock[r] = d THEN Free ELSE lock[r]]

AttemptsCounted(d) ==
  [r \in Row |-> IF r \in tried[d] THEN attempts[r] + 1 ELSE attempts[r]]

CommitBatch(d) ==
  /\ pc[d] = "publish"
  /\ todo[d] = {}
  /\ published' = published \cup marked[d]
  /\ attempts' = AttemptsCounted(d)
  /\ EndTransaction(d)
  /\ UNCHANGED <<DryRun, created_at, broker, interrupts>>

\* A statement raises (the handler's own UPDATE then raises too, the transaction
\* being aborted), the connection drops or the process stops: everything the
\* batch wrote is undone, and nothing it published.
Interrupt(d) ==
  /\ pc[d] = "publish"
  /\ interrupts < MaxInterrupts
  /\ interrupts' = interrupts + 1
  /\ EndTransaction(d)
  /\ UNCHANGED <<DryRun, table, broker>>

ProcessBatch(d) ==
  \/ SelectBatch(d)
  \/ SelectNothing(d)
  \/ \E r \in Row : PublishReturns(d, r) \/ PublishRaises(d, r)
  \/ CommitBatch(d)

Next ==
  \/ \E rows \in SUBSET Row, started \in 1..MaxStarts : AppendRows(rows, started)
  \/ \E d \in Publisher : ProcessBatch(d) \/ Interrupt(d)

Spec == Init /\ [][Next]_vars

\* run_forever polls for ever and catches every exception; a publish answers or
\* raises.
FairSpec == Spec /\ \A d \in Publisher : WF_vars(ProcessBatch(d))

--------------------------------------------------------------------------------

\* The table never calls a row published that the broker does not have, although
\* the answer of the broker and the commit that records it are far apart.
PublishedWasReceived == \A r \in published : received[r] > 0

\* Two daemons draining one table do not send a row twice between them: beyond
\* the first, each receipt of a row is owed to a lost answer or to a batch that
\* did not commit.
RepeatsAccounted == \A r \in Row : received[r] - unsure[r] <= 1 + interrupts

\* A row that is published or given up is out of every daemon's hands, one that
\* has selected it already included.
SettledIsFinal ==
  [][\A r \in Row :
       r \in published \/ attempts[r] = MaxAttempts =>
         received'[r] = received[r] /\ attempts'[r] = attempts[r]]_vars

\* A row is given up only when the broker has refused it max_attempts times, batches
\* that were undone and answers that were lost included.  It holds among real
\* publishers only: a dry run counts an attempt whenever it sees the row.
GivenUpMeansRefused ==
  DryRun = {} =>
    \A r \in Present \ published :
      attempts[r] = MaxAttempts => refusals[r] >= MaxAttempts

\* Every row is published or given up, whoever holds its lock meanwhile.
EveryRowSettled ==
  \A r \in Row :
    r \in Present ~> r \in published \/ attempts[r] = MaxAttempts

================================================================================
