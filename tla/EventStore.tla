------------------------------ MODULE EventStore -------------------------------
(***************************************************************************)
(* EventStore.append and EventStore.archive_stream (src/event_store.py)    *)
(* over the tables events, event_streams and outbox (src/schema.sql).      *)
(*                                                                         *)
(* A call is one invocation of append, running as a database transaction   *)
(* of several statements; any number of calls interleave between           *)
(* statements.  A row lock is what SELECT ... FOR UPDATE, or the insertion *)
(* of the row by a transaction still open, takes on a row of               *)
(* event_streams.  Nothing a transaction writes is visible to another      *)
(* before Commit, except that the identity sequence behind                 *)
(* events.global_position has moved: it is not transactional.              *)
(*                                                                         *)
(* append with an empty batch (a read of the version) writes nothing and   *)
(* is left out.                                                            *)
(***************************************************************************)
EXTENDS Integers, FiniteSets

CONSTANTS
  Stream,      \* stream identifiers
  Call,        \* invocations of append
  NoCall,      \* the owner of a row nobody has locked
  MaxBatch,    \* bound: events in one call
  MaxExpected, \* bound: largest expected_version a caller names
  PoolSize     \* connections in the pool (db/pool.py: max_size)

ASSUME ConstantsAssumption ==
  /\ NoCall \notin Call
  /\ MaxBatch \in Nat \ {0}
  /\ MaxExpected \in Nat
  /\ PoolSize \in Nat \ {0}

VARIABLES
  \* event_streams
  registered,      \* streams with a committed row
  current_version, \* the column of that name; 0 where there is no row
  archived,        \* streams whose archived_at is set
  lock,            \* lock[s] is the call holding the row of s
  \* events and outbox, committed rows
  events,
  outbox,          \* the event_id of each row; an event is known by its global
  sequence,        \* last value handed out for global_position
  \* local variables of each call
  req,
  pc,
  new_version,
  staged           \* rows of events inserted by the open transaction

vars == <<registered, current_version, archived, lock, events, outbox, sequence,
          req, pc, new_version, staged>>

--------------------------------------------------------------------------------

\* expected_version = -1 is compared with nothing: it matches any version.
AnyVersion == -1

Request == [stream : Stream, expected : AnyVersion..MaxExpected, size : 1..MaxBatch]

Event == [stream : Stream, position : Nat, global : Nat, call : Call]

InTransaction == {"select", "create", "refetch", "insert"}
Finished == {"returned", "conflict", "stream_archived", "failed"}
PC == {"acquire"} \cup InTransaction \cup Finished

TypeOK ==
  /\ registered \subseteq Stream
  /\ current_version \in [Stream -> Nat]
  /\ archived \subseteq Stream
  /\ lock \in [Stream -> Call \cup {NoCall}]
  /\ events \subseteq Event
  /\ outbox \subseteq Nat
  /\ sequence \in Nat
  /\ req \in [Call -> Request]
  /\ pc \in [Call -> PC]
  /\ new_version \in [Call -> Nat]
  /\ staged \in [Call -> SUBSET Event]

Init ==
  /\ registered = {}
  /\ current_version = [s \in Stream |-> 0]
  /\ archived = {}
  /\ lock = [s \in Stream |-> NoCall]
  /\ events = {}
  /\ outbox = {}
  /\ sequence = 0
  /\ req \in [Call -> Request]
  /\ pc = [c \in Call |-> "acquire"]
  /\ new_version = [c \in Call |-> 0]
  /\ staged = [c \in Call |-> {}]

--------------------------------------------------------------------------------

tables == <<registered, current_version, archived, events, outbox, sequence>>

\* Slips a maintainer could make, each paired in PROJECT.json with the property
\* that notices it: a SELECT without FOR UPDATE, an outbox row for the last
\* event of a batch only, a lock that survives its transaction, a first version
\* taken one too low, a rollback that returns its positions to the sequence.
LockRowNot(c, s) == UNCHANGED lock
OutboxRowsLast(c) == {e.global : e \in {f \in staged[c] : f.position = new_version[c]}}
EndTransactionLocked(c, outcome) ==
  /\ pc' = [pc EXCEPT ![c] = outcome]
  /\ staged' = [staged EXCEPT ![c] = {}]
  /\ UNCHANGED <<lock, req>>
StartVersionLow(s) == current_version[s] - 1
RollbackSequence(c, outcome) ==
  /\ EndTransactionLocked(c, outcome)
  /\ sequence' = sequence - Cardinality(staged[c])
  /\ UNCHANGED <<registered, current_version, archived, events, outbox, new_version>>

--------------------------------------------------------------------------------

\* The transaction of c ends, whatever the outcome: its row lock, and a row it
\* created but did not commit, go with it.
EndTransaction(c, outcome) ==
  /\ pc' = [pc EXCEPT ![c] = outcome]
  /\ lock' = [s \in Stream |-> IF lock[s] = c THEN NoCall ELSE lock[s]]
  /\ staged' = [staged EXCEPT ![c] = {}]
  /\ UNCHANGED req

\* An exception leaves the transaction block: everything is rolled back.
Rollback(c, outcome) ==
  /\ EndTransaction(c, outcome)
  /\ UNCHANGED <<tables, new_version>>

\* pool.acquire() and BEGIN.
Acquire(c) ==
  /\ pc[c] = "acquire"
  /\ Cardinality({d \in Call : pc[d] \in InTransaction}) < PoolSize
  /\ pc' = [pc EXCEPT ![c] = "select"]
  /\ UNCHANGED <<tables, lock, req, new_version, staged>>

\* expected_version not in (-1, current_version) is the conflict test.
Accepts(expected, version) == expected \in {AnyVersion, version}

\* FOR UPDATE.
LockRow(c, s) == lock' = [lock EXCEPT ![s] = c]

\* new_version = current_version
StartVersion(s) == current_version[s]

\* The row of stream s, locked for c, is examined: archived, wrong version, or
\* accepted.
CheckRow(c, s) ==
  \/ /\ s \in archived
     /\ Rollback(c, "stream_archived")
  \/ /\ s \notin archived
     /\ ~Accepts(req[c].expected, current_version[s])
     /\ Rollback(c, "conflict")
  \/ /\ s \notin archived
     /\ Accepts(req[c].expected, current_version[s])
     /\ LockRow(c, s)
     /\ new_version' = [new_version EXCEPT ![c] = StartVersion(s)]
     /\ pc' = [pc EXCEPT ![c] = "insert"]
     /\ UNCHANGED <<tables, req, staged>>

\* The first SELECT ... FOR UPDATE finds a row: it waits for the row's lock and
\* then sees the row as the holder left it.
SelectRow(c) ==
  LET s == req[c].stream
  IN  /\ pc[c] = "select"
      /\ s \in registered
      /\ lock[s] = NoCall
      /\ CheckRow(c, s)

\* The first SELECT finds no row: it locks nothing.
SelectMissing(c) ==
  LET s == req[c].stream
  IN  /\ pc[c] = "select"
      /\ s \notin registered
      /\ \/ /\ req[c].expected \notin {AnyVersion, 0}
            /\ Rollback(c, "conflict")
         \/ /\ req[c].expected \in {AnyVersion, 0}
            /\ pc' = [pc EXCEPT ![c] = "create"]
            /\ UNCHANGED <<tables, lock, req, new_version, staged>>

\* INSERT ... ON CONFLICT DO NOTHING.  It waits while another transaction has an
\* uncommitted row for s, does nothing if a row is committed by then, and else
\* inserts a row that c alone can see.
CreateRow(c) ==
  LET s == req[c].stream
  IN  /\ pc[c] = "create"
      /\ \/ /\ s \in registered
            /\ UNCHANGED lock
         \/ /\ s \notin registered
            /\ lock[s] = NoCall
            /\ lock' = [lock EXCEPT ![s] = c]
      /\ pc' = [pc EXCEPT ![c] = "refetch"]
      /\ UNCHANGED <<tables, req, new_version, staged>>

\* The second SELECT ... FOR UPDATE, after the insert: a row is there.
Refetch(c) ==
  LET s == req[c].stream
  IN  /\ pc[c] = "refetch"
      /\ lock[s] \in {NoCall, c}
      /\ CheckRow(c, s)

\* INSERT INTO events for the next event of the batch.
InsertEvent(c) ==
  LET s == req[c].stream
      row == [stream |-> s, position |-> new_version[c] + 1,
              global |-> sequence + 1, call |-> c]
  IN  /\ pc[c] = "insert"
      /\ new_version[c] < current_version[s] + req[c].size
      /\ staged' = [staged EXCEPT ![c] = @ \cup {row}]
      /\ new_version' = [new_version EXCEPT ![c] = @ + 1]
      /\ sequence' = sequence + 1
      /\ UNCHANGED <<registered, current_version, archived, lock, events, outbox,
                     req, pc>>

\* One outbox row per event of the batch.
OutboxRows(c) == {e.global : e \in staged[c]}

\* UPDATE event_streams, one INSERT INTO outbox per event, COMMIT: the
\* transaction's writes become visible together.  The caller gets the new
\* version, or an exception when the connection is lost before the answer.
Commit(c) ==
  LET s == req[c].stream
  IN  /\ pc[c] = "insert"
      /\ new_version[c] = current_version[s] + req[c].size
      /\ events' = events \cup staged[c]
      /\ outbox' = outbox \cup OutboxRows(c)
      /\ current_version' = [current_version EXCEPT ![s] = new_version[c]]
      /\ registered' = registered \cup {s}
      /\ \E answer \in {"returned", "failed"} : EndTransaction(c, answer)
      /\ UNCHANGED <<archived, sequence, new_version>>

\* The process stops, the connection drops, or a statement or
\* _event_to_db_fields raises, anywhere inside the transaction.
Abort(c) ==
  /\ pc[c] \in InTransaction
  /\ Rollback(c, "failed")

\* archive_stream: one UPDATE of a row that is not archived yet, waiting for the
\* row's lock.  Any other stream gives StreamNotFoundError and no change.
ArchiveStream(s) ==
  /\ s \in registered \ archived
  /\ lock[s] = NoCall
  /\ archived' = archived \cup {s}
  /\ UNCHANGED <<registered, current_version, lock, events, outbox, sequence,
                 req, pc, new_version, staged>>

Step(c) ==
  \/ Acquire(c)
  \/ SelectRow(c)
  \/ SelectMissing(c)
  \/ CreateRow(c)
  \/ Refetch(c)
  \/ InsertEvent(c)
  \/ Commit(c)

\* The finite set of calls of an instance is used up.
Quiescent ==
  /\ \A c \in Call : pc[c] \in Finished
  /\ UNCHANGED vars

Next ==
  \/ \E c \in Call : Step(c) \/ Abort(c)
  \/ \E s \in Stream : ArchiveStream(s)
  \/ Quiescent

Spec == Init /\ [][Next]_vars

\* A statement that can run is run: the event loop resumes a task whose query
\* has been answered, and PostgreSQL wakes the waiter of a released row lock.
FairSpec == Spec /\ \A c \in Call : WF_vars(Step(c))

--------------------------------------------------------------------------------

EventsOf(s) == {e \in events : e.stream = s}
EventsBy(c) == {e \in events : e.call = c}

\* The rows of a stream are numbered 1 .. current_version without gap or
\* duplicate, although positions are computed from a version read several
\* statements before they are committed: the row lock of the first SELECT, or
\* of the re-fetch after a lost creation race, must cover the whole batch.
\* (Were it not so, UNIQUE(stream_id, stream_position) would have to fire.)
DensePositions ==
  \A s \in Stream :
    /\ {e.position : e \in EventsOf(s)} = 1..current_version[s]
    /\ \A e, f \in EventsOf(s) : e.position = f.position => e = f

\* The identity sequence is moved outside the transaction, and a batch may be
\* rolled back after moving it; within one stream the global order must still be
\* the stream's own order, or a replay by load_all would reorder an aggregate.
GlobalFollowsStreamOrder ==
  \A e, f \in events :
    /\ e.global = f.global => e = f
    /\ e.stream = f.stream /\ e.position < f.position => e.global < f.global

\* Every committed event has exactly its own outbox row and every outbox row its
\* event, whichever transactions failed on the way.
OutboxMatchesEvents == outbox = {e.global : e \in events}

\* A batch is in the log whole or not at all, in consecutive positions ending at
\* the version its caller was told; a caller who got a conflict or
\* an archived stream left nothing behind.
AllOrNothing ==
  \A c \in Call :
    /\ EventsBy(c) # {} =>
         {e.position : e \in EventsBy(c)}
           = (new_version[c] - req[c].size + 1)..new_version[c]
    /\ pc[c] = "returned" => EventsBy(c) # {}
    /\ pc[c] \notin {"returned", "failed"} => EventsBy(c) = {}

\* Of all the calls that name the same version of the same stream, at most one
\* ever commits: this is what makes a read-decide-append cycle safe.  It covers
\* version 0, where two calls race to create the row.
OneWinnerPerVersion ==
  \A c, d \in Call :
    /\ EventsBy(c) # {} /\ EventsBy(d) # {}
    /\ req[c].stream = req[d].stream
    /\ req[c].expected = req[d].expected
    /\ req[c].expected # AnyVersion
    => c = d

\* From the moment archive_stream has returned, no append ever lands in the
\* stream, not even one that read the row before it was archived; and no step
\* ever changes or removes a committed event.
ArchivedStreamsFrozen ==
  [][/\ events \subseteq events'
     /\ \A s \in archived : EventsOf(s)' = EventsOf(s)]_vars

\* Every call gets an answer: no call waits forever for a row lock or for a
\* connection held by a call that itself waits.
EveryCallFinishes == \A c \in Call : <>(pc[c] \in Finished)

--------------------------------------------------------------------------------

\* The log of a stream as its callers see it: who wrote each position.
LogOf(s) ==
  [p \in 1..current_version[s] |->
     (CHOOSE e \in events : e.stream = s /\ e.position = p).call]

\* The transactions of append implement single-step appends.
Abstract == INSTANCE StreamLog
  WITH log <- [s \in Stream |-> LogOf(s)], closed <- archived

ImplementsStreamLog == Abstract!Spec

\* What load_all can see of the store is the feed the projection daemon reads:
\* a position is visible once and for good, is taken above all earlier ones, and
\* is visible only after the transaction that took it.
Feed == INSTANCE EventFeed
  WITH committed <- {e.global : e \in events},
       open <- {e.global : e \in UNION {staged[c] : c \in Call}},
       MaxEvents <- Cardinality(Call) * MaxBatch,
       MaxOpen <- Cardinality(Call) * MaxBatch

ImplementsFeed == Feed!FeedSpec

================================================================================
