--------------------------------- MODULE Seeding ---------------------------------
(***************************************************************************)
(* Two ways of writing simulated histories to the database, beside an      *)
(* application that appends to the same streams: write_to_db               *)
(* (src/starter/datagen/generate_all.py), statement by statement, and      *)
(* seed_from_jsonl (src/scripts/seed_from_jsonl.py), a transaction for     *)
(* each line of the file.  Both count positions from 1 and look at nothing *)
(* that is there.  Either may stop anywhere and be run again.              *)
(***************************************************************************)
EXTENDS EventSimulator

CONSTANTS
  Scenarios,   \* bound: targets, with the rules the company fails
  Touched,     \* streams the application appends to
  MaxRuns,     \* bound: runs of generate_all
  MaxStarts,   \* bound: starts of the two scripts
  MaxAppends   \* bound: events of the application

Data == {"loan", "docpkg", "credit", "fraud", "compliance"}
Sessions == {"document-agent", "credit-agent", "fraud-agent", "compliance-agent",
             "decision-agent"}
Stream == (Data \cup Sessions) \X (0..MaxRuns)

ASSUME SeedingAssumption ==
  /\ {MaxRuns, MaxStarts, MaxAppends} \subseteq Nat
  /\ \A s \in Scenarios : /\ s.target \in {STATES[i] : i \in DOMAIN STATES}
                           /\ s.failing \subseteq DOMAIN RULES
  /\ Touched \subseteq Stream

VARIABLES
  scenario,
  generation,  \* runs of the simulator: each names its sessions afresh
  job,         \* the script that is running, the line it is at, and whether the
               \* stream's row is already written for it
  starts,
  events,      \* events[s]: positions to the line that was written, 0 the application's
  version,     \* current_version, 0 without a row
  outbox,
  appends,
  careless     \* streams write_to_db broke off in, found written to, or was
               \* overtaken in (not in the code)

db == <<events, version, outbox>>
vars == <<scenario, generation, job, starts, db, appends, careless>>

\* seed_events.jsonl, which generate_all writes before it writes to the database.
Files == [s \in Scenarios |-> run(s.target, s.failing)]
file == Files[scenario]

\* A session of another run is another stream, an application is the same.
StreamAt(line) ==
  <<file[line].stream, IF file[line].stream \in Sessions THEN generation ELSE 0>>

\* pos_map, stream_version.
Positions ==
  [s \in Scenarios |->
     [line \in DOMAIN Files[s] |->
        CountOf(SubSeq(Files[s], 1, line), Files[s][line].stream)]]
PositionAt(line) == Positions[scenario][line]

Idle == [script |-> "none", line |-> 1, row |-> FALSE]

Init ==
  /\ scenario \in Scenarios
  /\ generation = 0
  /\ job = Idle
  /\ starts = 0
  /\ events = [s \in Stream |-> <<>>]
  /\ version = [s \in Stream |-> 0]
  /\ outbox = {}
  /\ appends = 0
  /\ careless = {}

--------------------------------------------------------------------------------

WithEvent(s, position, line) ==
  [events EXCEPT ![s] =
     [p \in DOMAIN @ \cup {position} |-> IF p = position THEN line ELSE @[p]]]

\* main of generate_all: simulate, save the file, write to the database.
GenerateAll ==
  /\ job.script = "none"
  /\ starts < MaxStarts /\ generation < MaxRuns
  /\ starts' = starts + 1
  /\ generation' = generation + 1
  /\ job' = [Idle EXCEPT !.script = "write_to_db"]
  /\ UNCHANGED <<scenario, db, appends, careless>>

SeedFromJsonl ==
  /\ job.script = "none"
  /\ starts < MaxStarts /\ generation > 0
  /\ starts' = starts + 1
  /\ job' = [Idle EXCEPT !.script = "seed_from_jsonl"]
  /\ UNCHANGED <<scenario, generation, db, appends, careless>>

AtLine(script) == job.script = script /\ job.line <= Len(file)

\* INSERT INTO event_streams ... DO UPDATE SET current_version, in autocommit.
UpsertStream ==
  LET s == StreamAt(job.line)
  IN  /\ AtLine("write_to_db") /\ ~job.row
      /\ version' = [version EXCEPT ![s] = PositionAt(job.line)]
      /\ job' = [job EXCEPT !.row = TRUE]
      /\ UNCHANGED <<scenario, generation, starts, events, outbox, appends, careless>>

\* INSERT INTO events ... ON CONFLICT DO NOTHING.
InsertEvent ==
  LET s == StreamAt(job.line)
      position == PositionAt(job.line)
      there == position \in DOMAIN events[s]
  IN  /\ AtLine("write_to_db") /\ job.row
      /\ events' = IF there THEN events ELSE WithEvent(s, position, job.line)
      /\ job' = [job EXCEPT !.row = FALSE, !.line = @ + 1]
      /\ careless' = IF there THEN careless \cup {s} ELSE careless
      /\ UNCHANGED <<scenario, generation, starts, version, outbox, appends>>

\* Slips a maintainer could make, paired in PROJECT.json with the property that
\* notices it: the stream's row is left as it is.
SeedLineVersionLeft ==
  LET s == StreamAt(job.line)
      position == PositionAt(job.line)
  IN  /\ AtLine("seed_from_jsonl")
      /\ position \notin DOMAIN events[s]
      /\ events' = WithEvent(s, position, job.line)
      /\ outbox' = outbox \cup {<<s, position>>}
      /\ job' = [job EXCEPT !.line = @ + 1]
      /\ UNCHANGED <<scenario, generation, starts, version, appends, careless>>

\* One line: the stream's row if it is missing, the event, the version, the outbox.
SeedLine ==
  LET s == StreamAt(job.line)
      position == PositionAt(job.line)
  IN  /\ AtLine("seed_from_jsonl")
      /\ position \notin DOMAIN events[s]
      /\ events' = WithEvent(s, position, job.line)
      /\ version' = [version EXCEPT ![s] = position]
      /\ outbox' = outbox \cup {<<s, position>>}
      /\ job' = [job EXCEPT !.line = @ + 1]
      /\ UNCHANGED <<scenario, generation, starts, appends, careless>>

\* The position is taken: the script ends, with the lines before this one written.
SeedConflict ==
  /\ AtLine("seed_from_jsonl")
  /\ PositionAt(job.line) \in DOMAIN events[StreamAt(job.line)]
  /\ job' = Idle
  /\ UNCHANGED <<scenario, generation, starts, db, appends, careless>>

\* The streams between the two statements of write_to_db.
HalfWritten == IF job.row THEN {StreamAt(job.line)} ELSE {}

\* The last line is written, or the process stops: generate_all goes on to report that
\* the file was saved.
Stop ==
  /\ job.script # "none"
  /\ job' = Idle
  /\ careless' = careless \cup HalfWritten
  /\ UNCHANGED <<scenario, generation, starts, db, appends>>

\* EventStore.append under the stream's version: refused if the position is taken.
AppendEvent(s) ==
  LET position == version[s] + 1
  IN  /\ appends < MaxAppends
      /\ appends' = appends + 1
      /\ IF position \in DOMAIN events[s] THEN UNCHANGED db
         ELSE /\ events' = WithEvent(s, position, 0)
              /\ version' = [version EXCEPT ![s] = position]
              /\ outbox' = outbox \cup {<<s, position>>}
      /\ careless' = careless \cup (HalfWritten \cap {s})
      /\ UNCHANGED <<scenario, generation, job, starts>>

\* The bounds are reached.
Quiescent ==
  /\ starts = MaxStarts \/ generation = MaxRuns
  /\ job = Idle
  /\ appends = MaxAppends
  /\ UNCHANGED vars

Next ==
  \/ GenerateAll
  \/ SeedFromJsonl
  \/ UpsertStream
  \/ InsertEvent
  \/ SeedLine
  \/ SeedConflict
  \/ Stop
  \/ \E s \in Touched : AppendEvent(s)
  \/ Quiescent

Spec == Init /\ [][Next]_vars

--------------------------------------------------------------------------------

\* Whatever is stopped, run again or appended in between, a stream's row counts its
\* events, without gap, so that append can go on behind them, unless write_to_db was
\* broken off between the two statements of a line of that stream or went over a
\* stream that was there: then the row is ahead of the events, or behind them.
RowsCountEvents ==
  \A s \in Stream \ (careless \cup HalfWritten) : DOMAIN events[s] = 1..version[s]

\* What a stream holds at a position: a line of the file, or an event of the
\* application.
Holds(s, position, type) ==
  /\ position \in DOMAIN events[s]
  /\ events[s][position] # 0
  /\ file[events[s][position]].type = type

\* "The pattern here mirrors exactly what real LangGraph agents produce"
\* (event_simulator.py, line 26): what a session says it wrote is there, in every part
\* of a file that got written, as it is for the agents.  The compliance and decision
\* sessions name the position before the one they mean.  Where write_to_db ran into
\* events of the application it left its own out.
SeededClaimsHold ==
  \A s \in Stream : \A p \in {q \in DOMAIN events[s] : events[s][q] # 0} :
    LET claim == file[events[s][p]].claim
        target == <<claim.stream, 0>>
        actual == IF s[1] \in {"compliance-agent", "decision-agent"}
                  THEN claim.position + 1 ELSE claim.position
    IN  claim # NoClaim /\ target \notin careless => Holds(target, actual, claim.type)

================================================================================
