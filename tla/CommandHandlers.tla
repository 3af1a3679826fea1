---------------------------- MODULE CommandHandlers ----------------------------
(***************************************************************************)
(* The command handlers (src/commands/handlers.py) under the retry wrapper *)
(* of the MCP tools (src/mcp/tools.py), working on one loan application.   *)
(* A handler reads its aggregates, decides, and appends with the version   *)
(* it read; commands interleave between these steps.  load_stream and      *)
(* append are single steps here: EventStore shows that they may be.        *)
(***************************************************************************)
EXTENDS LoanMachine

CONSTANTS
  MaxRetries \* _MAX_RETRIES

ASSUME HandlersAssumption == MaxRetries \in Nat \ {0}

VARIABLES
  compliance, \* the stream compliance-<id>
  pc,
  seen,       \* version of the loan or compliance stream the handler acts on
  read,       \* version of the agent stream it acts on
  attempt

vars == <<machine, compliance, pc, seen, read, attempt>>

Finished == {"done", "rejected", "conflict", "failed"}
PC == {"start", "session", "append", "loan", "append2"} \cup Finished

RuleEventType == {"ComplianceRulePassed", "ComplianceRuleFailed"}

EventOf(types) ==
  [type : types, by : Command \cup {Outside}, outcome : Recommendation]

TypeOK ==
  /\ loan \in Seq(EventOf(LoanEventType))
  /\ agent \in [Session -> Seq(EventOf({"AgentContextLoaded",
                                        "FraudScreeningCompleted"}))]
  /\ compliance \in Seq(EventOf(RuleEventType))
  /\ cmd \in Requests
  /\ pc \in [Command -> PC]
  /\ seen \in [Command -> Nat]
  /\ read \in [Command -> Nat]
  /\ attempt \in [Command -> 1..MaxRetries]

Init ==
  /\ MachineInit
  /\ compliance = <<>>
  /\ pc = [c \in Command |-> "start"]
  /\ seen = [c \in Command |-> 0]
  /\ read = [c \in Command |-> 0]
  /\ attempt = [c \in Command |-> 1]

--------------------------------------------------------------------------------

\* Slips a maintainer could make, each paired in PROJECT.json with the property
\* that notices it: an append that does not pass the version read, or passes it
\* off by one, a causal chain taken on trust, one retry too many.
VersionMatchesAny(c) == TRUE
VersionMatchesNext(c) == Len(loan) + 1 = seen[c]
ChainHoldsAlways(c) == TRUE
RetriesLeftOneMore(c) == attempt[c] <= MaxRetries

--------------------------------------------------------------------------------

At(c, kinds, label) == cmd[c].kind \in kinds /\ pc[c] = label

\* The handler goes on, or raises a DomainError.
Check(c, guard, label) ==
  pc' = [pc EXCEPT ![c] = IF guard THEN label ELSE "rejected"]

GoTo(c, label) == pc' = [pc EXCEPT ![c] = label]

Retried == {"credit", "fraud", "decision", "review"}

RetriesLeft(c) == attempt[c] < MaxRetries

\* OptimisticConcurrencyError: the wrapper runs the handler again from its first
\* line, or gives up; the other tools have no wrapper.
Conflict(c) ==
  /\ \/ /\ cmd[c].kind \in Retried
        /\ RetriesLeft(c)
        /\ attempt' = [attempt EXCEPT ![c] = @ + 1]
        /\ GoTo(c, "start")
     \/ /\ ~(cmd[c].kind \in Retried /\ RetriesLeft(c))
        /\ GoTo(c, "conflict")
        /\ UNCHANGED attempt
  /\ UNCHANGED <<machine, compliance, seen, read>>

\* expected_version = the version acted on.
VersionMatches(c) == Len(loan) = seen[c]

\* What append returns, the version the handler acts on from here.
NewVersion(c) == seen[c] + 1

AppendLoan(c, type, label) ==
  \/ /\ VersionMatches(c)
     /\ LoanEvent(c, type)
     /\ seen' = [seen EXCEPT ![c] = NewVersion(c)]
     /\ GoTo(c, label)
     /\ UNCHANGED <<compliance, read, attempt>>
  \/ /\ ~VersionMatches(c)
     /\ Conflict(c)

\* LoanApplicationAggregate.load, then the check that follows it.
LoadLoan(c, guard, label) ==
  /\ seen' = [seen EXCEPT ![c] = Len(loan)]
  /\ Check(c, guard, label)
  /\ UNCHANGED <<machine, compliance, read, attempt>>

\* assert_context_loaded and assert_model_version_current.
SessionReady(c) ==
  LET log == agent[cmd[c].session]
  IN  ContextLoaded(log) /\ ModelOf(log) = cmd[c].model

\* AgentSessionAggregate.load, then the check that follows it.
LoadSession(c, guard, label) ==
  /\ read' = [read EXCEPT ![c] = Len(agent[cmd[c].session])]
  /\ Check(c, guard, label)
  /\ UNCHANGED <<machine, compliance, seen, attempt>>

\* An append with expected_version -1 takes any version.
SubmitApplication(c) ==
  /\ At(c, {"submit"}, "start")
  /\ Submit(c)
  /\ GoTo(c, "done")
  /\ UNCHANGED <<compliance, seen, read, attempt>>

StartAgentSession(c) ==
  /\ At(c, {"start_session"}, "start")
  /\ StartSession(c)
  /\ GoTo(c, "done")
  /\ UNCHANGED <<compliance, seen, read, attempt>>

\* Both aggregates are loaded before either is checked.
CreditAnalysisCompleted(c) ==
  \/ /\ At(c, {"credit"}, "start")
     /\ LoadLoan(c, TRUE, "session")
  \/ /\ At(c, {"credit"}, "session")
     /\ LoadSession(c, MayCompleteCredit(SubSeq(loan, 1, seen[c])) /\ SessionReady(c),
                    "append")
  \/ /\ At(c, {"credit"}, "append")
     /\ AppendLoan(c, "CreditAnalysisCompleted", "append2")
  \/ /\ At(c, {"credit"}, "append2")
     /\ AppendLoan(c, "FraudScreeningRequested", "done")

\* The screening goes to the session's stream, and only then is the loan read.
AppendScreening(c) ==
  LET s == cmd[c].session
  IN  \/ /\ Len(agent[s]) = read[c]
         /\ AgentEvent(c, "FraudScreeningCompleted")
         /\ GoTo(c, "loan")
         /\ UNCHANGED <<compliance, seen, read, attempt>>
      \/ /\ Len(agent[s]) # read[c]
         /\ Conflict(c)

FraudScreeningCompleted(c) ==
  \/ /\ At(c, {"fraud"}, "start")
     /\ LoadSession(c, SessionReady(c), "append")
  \/ /\ At(c, {"fraud"}, "append")
     /\ AppendScreening(c)
  \/ /\ At(c, {"fraud"}, "loan")
     /\ LoadLoan(c, TRUE, IF MayRequestCompliance(loan) THEN "append2" ELSE "done")
  \/ /\ At(c, {"fraud"}, "append2")
     /\ AppendLoan(c, "ComplianceCheckRequested", "done")

RequestComplianceCheck(c) ==
  \/ /\ At(c, {"compliance"}, "start")
     /\ IF StateOf(loan) = "COMPLIANCE_REVIEW"
        THEN LoadLoan(c, TRUE, "done")
        ELSE LoadLoan(c, MayRequestComplianceCheck(loan), "append")
  \/ /\ At(c, {"compliance"}, "append")
     /\ AppendLoan(c, "ComplianceCheckRequested", "done")

\* The regulation set the compliance stream knows of: the checks of a
\* ComplianceCheckRequested on it, and there is none.  An empty set lets every
\* rule through.
RequiredChecks ==
  {cmd[compliance[i].by].rule :
     i \in {j \in DOMAIN compliance : compliance[j].type = "ComplianceCheckRequested"}}

RecordComplianceRule(c) ==
  \/ /\ At(c, {"rule"}, "start")
     /\ seen' = [seen EXCEPT ![c] = Len(compliance)]
     /\ Check(c, RequiredChecks # {} => cmd[c].rule \in RequiredChecks, "append")
     /\ UNCHANGED <<machine, compliance, read, attempt>>
  \/ /\ At(c, {"rule"}, "append")
     /\ Len(compliance) = seen[c]
     /\ \E type \in RuleEventType : compliance' = Append(compliance, EventBy(c, type))
     /\ GoTo(c, "done")
     /\ UNCHANGED <<machine, seen, read, attempt>>
  \/ /\ At(c, {"rule"}, "append")
     /\ Len(compliance) # seen[c]
     /\ Conflict(c)

\* assert_causal_chain, on streams read after the aggregate.
ChainHolds(c) == cmd[c].contributing \subseteq SessionsWithDecisions

GenerateDecision(c) ==
  \/ /\ At(c, {"decision"}, "start")
     /\ LoadLoan(c, MayDecide(loan, cmd[c].confident, cmd[c].outcome), "session")
  \/ /\ At(c, {"decision"}, "session")
     /\ Check(c, ChainHolds(c), "append")
     /\ UNCHANGED <<machine, compliance, seen, read, attempt>>
  \/ /\ At(c, {"decision"}, "append")
     /\ AppendLoan(c, "DecisionGenerated", "done")

HumanReviewCompleted(c) ==
  \/ /\ At(c, {"review"}, "start")
     /\ LoadLoan(c, MayReview(loan) /\ cmd[c].explained, "append")
  \/ /\ At(c, {"review"}, "append")
     /\ AppendLoan(c, "HumanReviewCompleted", "done")

\* The store fails, or the server stops, between two steps of a handler.
Abort(c) ==
  /\ pc[c] \notin Finished \cup {"start"}
  /\ GoTo(c, "failed")
  /\ UNCHANGED <<machine, compliance, seen, read, attempt>>

Handle(c) ==
  \/ SubmitApplication(c)
  \/ StartAgentSession(c)
  \/ CreditAnalysisCompleted(c)
  \/ FraudScreeningCompleted(c)
  \/ RequestComplianceCheck(c)
  \/ RecordComplianceRule(c)
  \/ GenerateDecision(c)
  \/ HumanReviewCompleted(c)

\* Events of the loan that no handler writes and a handler waits for.  What else the
\* agents write to the loan stream is in AgentPipeline.
OutsideWrites ==
  /\ \E type \in {"CreditAnalysisRequested", "ComplianceClearanceIssued"} :
       AppendOutside(type)
  /\ UNCHANGED <<compliance, pc, seen, read, attempt>>

\* The finite set of commands of an instance is used up.
Quiescent ==
  /\ \A c \in Command : pc[c] \in Finished
  /\ UNCHANGED vars

Next ==
  \/ \E c \in Command : Handle(c) \/ Abort(c)
  \/ OutsideWrites
  \/ Quiescent

Spec == Init /\ [][Next]_vars

--------------------------------------------------------------------------------

\* The handlers, which read, wait and then write, never write what they could not
\* have written in one step: whatever was appended between a handler's read and
\* its append makes the append fail (BR-1 and the guards beside it).
ImplementsLoanMachine == MachineSpec

\* A caller is told of a conflict only when, on one of the streams the handler touches,
\* a rival's event stands right behind the version his last attempt read: no handler
\* conflicts with its own earlier append, nor with one its previous attempt left behind.
ConflictsNeedRivals ==
  LET Beaten(c, log, version) == Len(log) > version /\ log[version + 1].by # c
  IN  \A c \in Command : pc[c] = "conflict" =>
        \/ Beaten(c, loan, seen[c])
        \/ Beaten(c, agent[cmd[c].session], read[c])
        \/ Beaten(c, compliance, seen[c])

\* src/aggregates/loan_application.py, line 13: "Valid state machine transitions
\* only".  The transition table below it leads nowhere from a final state.
FinalIsFinal == [][StateOf(loan) \in Final => StateOf(loan') = StateOf(loan)]_vars

================================================================================
