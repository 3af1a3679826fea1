--------------------------- MODULE ProjectionDaemon ----------------------------
(***************************************************************************)
(* ProjectionDaemon (src/projections/daemon.py): one or more daemons poll  *)
(* the feed of committed events, hand each event to every projection with  *)
(* retries, and record per projection the last position handled.  Every    *)
(* statement is its own transaction: the handler's writes, the checkpoint  *)
(* and the error row do not commit together.                               *)
(***************************************************************************)
EXTENDS EventFeed, Sequences, FiniteSetsExt, Functions

CONSTANTS
  Daemon,        \* processes running run_forever on the same tables
  Projection,    \* sequence of projection names, in registration order
  BatchSize,     \* EVENTS_PER_PROCESS_BATCH
  MaxRetries,    \* MAX_RETRIES
  MaxPoison,     \* bound: (projection, event) pairs whose handler always raises
  MaxFaults,     \* bound: passing failures of a handler
  MaxInterrupts, \* bound: batches cut short by an exception, crash or restart
  MaxRebuilds    \* bound: calls of rebuild_projection

\* self._projections is a dict: a name occurs once.
ASSUME DaemonAssumption ==
  /\ Projection \in Seq(Range(Projection)) \ {<<>>}
  /\ \A i, j \in DOMAIN Projection : Projection[i] = Projection[j] => i = j
  /\ BatchSize \in Nat \ {0}
  /\ MaxRetries \in Nat \ {0}
  /\ {MaxEvents, MaxOpen, MaxPoison, MaxFaults, MaxInterrupts, MaxRebuilds} \subseteq Nat

Name == Range(Projection)

VARIABLES
  checkpoint, \* projection_checkpoints: last_position, 0 for a missing row
  view,       \* view[p]: positions applied to p's table since it was truncated
  errors,     \* errors[p]: positions of p's rows in projection_errors
  \* local variables of _process_batch
  pc,
  next,       \* proj_next_positions
  todo,       \* the <<index of projection, position>> pairs left of the batch
  attempt,
  \* the environment
  poison,
  faults,
  interrupts,
  rebuilds,
  disturbed   \* history: projections rebuilt while a batch was under way

daemonVars == <<pc, next, todo, attempt>>
tables == <<checkpoint, view, errors>>
environment == <<poison, faults, interrupts, rebuilds, disturbed>>
vars == <<feed, tables, daemonVars, environment>>

Position == 1..MaxEvents
Item == (DOMAIN Projection) \X Position

TypeOK ==
  /\ FeedTypeOK
  /\ checkpoint \in [Name -> 0..MaxEvents]
  /\ view \in [Name -> Seq(Position)]
  /\ errors \in [Name -> SUBSET Position]
  /\ pc \in [Daemon -> {"poll", "fetch", "handle", "checkpoint"}]
  /\ next \in [Daemon -> [Name -> 0..(MaxEvents + 1)]]
  /\ todo \in [Daemon -> SUBSET Item]
  /\ attempt \in [Daemon -> 1..MaxRetries]
  /\ poison \subseteq Name \X Position
  /\ faults \in 0..MaxFaults
  /\ interrupts \in 0..MaxInterrupts
  /\ rebuilds \in 0..MaxRebuilds
  /\ disturbed \subseteq Name

Init ==
  /\ FeedInit
  /\ checkpoint = [p \in Name |-> 0]
  /\ view = [p \in Name |-> <<>>]
  /\ errors = [p \in Name |-> {}]
  /\ pc = [d \in Daemon |-> "poll"]
  /\ next = [d \in Daemon |-> [p \in Name |-> 0]]
  /\ todo = [d \in Daemon |-> {}]
  /\ attempt = [d \in Daemon |-> 1]
  /\ poison \in {S \in SUBSET (Name \X Position) : Cardinality(S) <= MaxPoison}
  /\ faults = 0
  /\ interrupts = 0
  /\ rebuilds = 0
  /\ disturbed = {}

--------------------------------------------------------------------------------

\* Slips a maintainer could make, each paired in PROJECT.json with the property
\* that notices it: re-reading the last event handled, ignoring the checkpoint,
\* excluding the start position twice, one retry too many.
NextPositionSame(last) == last
NextPositionZero(last) == 0
PageAfter(from) ==
  LET visible == {g \in committed : g > from}
  IN  {g \in visible : Cardinality({h \in visible : h < g}) < BatchSize}
RetriesLeftOneMore(d) == attempt[d] <= MaxRetries

--------------------------------------------------------------------------------

\* Where a projection resumes: the checkpoint is the last position handled.
NextPosition(last) == IF last = 0 THEN 0 ELSE last + 1

\* load_all stops after the first page: the lowest BatchSize visible positions
\* at or after from, in one SELECT.
Page(from) ==
  LET visible == {g \in committed : g >= from}
  IN  {g \in visible : Cardinality({h \in visible : h < g}) < BatchSize}

\* What the nested loops, over projections and over events from each one's
\* position, have to handle.
Work(d, page) == {w \in (DOMAIN Projection) \X page : w[2] >= next[d][Projection[w[1]]]}

\* The order of those loops.
Before(w, v) == w[1] < v[1] \/ (w[1] = v[1] /\ w[2] < v[2])
First(work) == CHOOSE w \in work : \A v \in work : v = w \/ Before(w, v)
Handling(d) == Projection[First(todo[d])[1]]
Handled(d) == First(todo[d])[2]

LoadCheckpoints(d) ==
  /\ pc[d] = "poll"
  /\ next' = [next EXCEPT ![d] = [p \in Name |-> NextPosition(checkpoint[p])]]
  /\ pc' = [pc EXCEPT ![d] = "fetch"]
  /\ UNCHANGED <<feed, tables, todo, attempt, environment>>

\* load_all, and the choice of each projection's events; next is not read again.
Fetch(d) ==
  LET page == Page(Min(Range(next[d])))
  IN  /\ pc[d] = "fetch"
      /\ todo' = [todo EXCEPT ![d] = Work(d, page)]
      /\ next' = [next EXCEPT ![d] = [p \in Name |-> 0]]
      /\ pc' = [pc EXCEPT ![d] = IF page = {} THEN "poll" ELSE "handle"]
      /\ UNCHANGED <<feed, tables, attempt, environment>>

\* On to the next pair, or to the next poll.
Advance(d) ==
  LET left == todo[d] \ {First(todo[d])}
  IN  /\ todo' = [todo EXCEPT ![d] = left]
      /\ pc' = [pc EXCEPT ![d] = IF left = {} THEN "poll" ELSE "handle"]
      /\ attempt' = [attempt EXCEPT ![d] = 1]

\* projection.handle returns: its statements are committed.
HandleOk(d) ==
  /\ pc[d] = "handle"
  /\ <<Handling(d), Handled(d)>> \notin poison
  /\ view' = [view EXCEPT ![Handling(d)] = Append(@, Handled(d))]
  /\ pc' = [pc EXCEPT ![d] = "checkpoint"]
  /\ UNCHANGED <<feed, checkpoint, errors, next, todo, attempt, environment>>

RetriesLeft(d) == attempt[d] < MaxRetries

\* projection.handle raises: retry, and after the last attempt write the error
\* row and leave the checkpoint where it is.
HandleRaises(d) ==
  /\ pc[d] = "handle"
  /\ \/ /\ <<Handling(d), Handled(d)>> \in poison
        /\ UNCHANGED faults
     \/ /\ <<Handling(d), Handled(d)>> \notin poison
        /\ faults < MaxFaults
        /\ faults' = faults + 1
  /\ \/ /\ RetriesLeft(d)
        /\ attempt' = [attempt EXCEPT ![d] = @ + 1]
        /\ UNCHANGED <<errors, pc, todo>>
     \/ /\ ~RetriesLeft(d)
        /\ errors' = [errors EXCEPT ![Handling(d)] = @ \cup {Handled(d)}]
        /\ Advance(d)
  /\ UNCHANGED <<feed, checkpoint, view, next, poison, interrupts, rebuilds, disturbed>>

\* The upsert overwrites whatever is stored.
UpdateCheckpoint(d) ==
  /\ pc[d] = "checkpoint"
  /\ checkpoint' = [checkpoint EXCEPT ![Handling(d)] = Handled(d)]
  /\ Advance(d)
  /\ UNCHANGED <<feed, view, errors, next, environment>>

\* A statement of the batch raises into run_forever, or the process dies and is
\* started again: the batch is forgotten.
Interrupt(d) ==
  /\ pc[d] # "poll"
  /\ interrupts < MaxInterrupts
  /\ interrupts' = interrupts + 1
  /\ pc' = [pc EXCEPT ![d] = "poll"]
  /\ todo' = [todo EXCEPT ![d] = {}]
  /\ attempt' = [attempt EXCEPT ![d] = 1]
  /\ UNCHANGED <<feed, tables, next, poison, faults, rebuilds, disturbed>>

\* rebuild_projection: truncate and delete the checkpoint row, in a transaction,
\* without regard to a batch in progress.
RebuildProjection(p) ==
  /\ rebuilds < MaxRebuilds
  /\ rebuilds' = rebuilds + 1
  /\ view' = [view EXCEPT ![p] = <<>>]
  /\ checkpoint' = [checkpoint EXCEPT ![p] = 0]
  /\ disturbed' = IF \A d \in Daemon : pc[d] = "poll" THEN disturbed
                  ELSE disturbed \cup {p}
  /\ UNCHANGED <<feed, errors, daemonVars, poison, faults, interrupts>>

ProcessBatch(d) ==
  \/ LoadCheckpoints(d)
  \/ Fetch(d)
  \/ HandleOk(d)
  \/ HandleRaises(d)
  \/ UpdateCheckpoint(d)

Next ==
  \/ FeedNext /\ UNCHANGED <<tables, daemonVars, environment>>
  \/ \E d \in Daemon : ProcessBatch(d) \/ Interrupt(d)
  \/ \E p \in Name : RebuildProjection(p)

Spec == Init /\ [][Next]_vars

\* run_forever loops and catches everything.
FairSpec == Spec /\ \A d \in Daemon : WF_vars(ProcessBatch(d))

--------------------------------------------------------------------------------

Applied(p) == Range(view[p])

Covered(p) == \A g \in committed : g <= checkpoint[p] => g \in Applied(p) \cup errors[p]

\* Nothing at or below a projection's checkpoint is missing from it: each such
\* event has been applied or has an error row.  The checkpoint is all that is
\* remembered, so an event missed here is missed for good.  Left out is a projection
\* that was rebuilt while a batch was under way: the batch's next upsert undoes the
\* reset, although rebuild_projection says "Checkpoint is reset to 0; next batch
\* will replay from the beginning".
NothingSkipped == \A p \in Name \ disturbed : Covered(p)

\* Positions become visible in the order they were taken, as they do when the
\* writers' transactions do not overlap.  PostgreSQL does not promise it.
VisibleInOrder == \A g \in committed' \ committed, h \in committed : h < g

\* A projection's table is written in the order of the log, so that the last
\* writer of a row is the latest event.  The one exception is an event that was
\* given up: later events are applied without it, and when the process stops
\* before any of their checkpoints is stored, the replay may get it through after
\* all.  A rebuild during a batch alone does not break the order; one followed by
\* a restart does, when the old batch has written to the new table.
AppliedInOrder ==
  \A p \in Name : (p \in disturbed => interrupts = 0) =>
    \A i, j \in DOMAIN view[p] :
      i < j /\ view[p][j] < view[p][i] => view[p][j] \in errors[p]

\* Handlers that count (agent_performance) count an event twice only when a
\* batch was cut between the handler and its checkpoint, once for each cut.
DuplicatesNeedInterrupts ==
  \A p \in Name : Len(view[p]) - Cardinality(Applied(p)) <= interrupts

\* Every committed event is applied, or given up and recorded, by every
\* projection, rebuilt ones included unless a batch was under way.
EveryEventHandled ==
  \A p \in Name : \A g \in Position :
    g \in committed ~> g \in Applied(p) \cup errors[p] \/ p \in disturbed

================================================================================
