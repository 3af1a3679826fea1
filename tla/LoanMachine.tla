------------------------------ MODULE LoanMachine ------------------------------
(***************************************************************************)
(* One loan application and its agent sessions as the command handlers     *)
(* mean them: each write finds, at the moment it is made, the history its  *)
(* handler asked for.  Two guards are weaker than the handler reads as,    *)
(* because its two streams are not read and written together: a credit     *)
(* analysis may name any model version its session ever declared, and the  *)
(* compliance request of a fraud screening asks for no state but one.      *)
(***************************************************************************)
EXTENDS LoanApplication, FiniteSets

CONSTANTS
  Command,    \* invocations of a tool
  Outside,    \* author of events written without a command handler
  Session,    \* agent sessions
  Model,      \* model versions
  Rule,       \* compliance rule identifiers
  Requests,   \* the assignments of requests to commands an instance considers
  MaxOutside  \* bound: events of each type written by Outside

Kind == {"submit", "start_session", "credit", "fraud", "compliance", "rule",
         "decision", "review"}

\* The union of the parameters the handlers look at: confident stands for
\* confidence_score >= 0.6, explained for "override implies a reason".
RequestType ==
  [kind : Kind, session : Session, model : Model, rule : Rule,
   outcome : Recommendation, confident : BOOLEAN, explained : BOOLEAN,
   contributing : SUBSET Session]

ASSUME RequestAssumption ==
  /\ Outside \notin Command
  /\ Requests \subseteq [Command -> RequestType]
  /\ MaxOutside \in Nat

VARIABLES
  loan,   \* the stream loan-<id>
  agent,  \* agent[s]: the stream of session s
  cmd     \* the request of each command

machine == <<loan, agent, cmd>>

MachineInit ==
  /\ loan = <<>>
  /\ agent = [s \in Session |-> <<>>]
  /\ cmd \in Requests

--------------------------------------------------------------------------------

EventBy(c, type) == [type |-> type, by |-> c, outcome |-> cmd[c].outcome]

\* The session and model version the payload of e names.
SessionOf(e) == cmd[e.by].session

\* Each AgentContextLoaded replaces the model version of its session.
Declarations(log) == {i \in DOMAIN log : log[i].type = "AgentContextLoaded"}
ModelOf(log) == cmd[log[Max(Declarations(log))].by].model
EverDeclared(log) == {cmd[log[i].by].model : i \in Declarations(log)}

\* Sessions an event of the loan or of their own stream ties to the application.
SessionsWithDecisions ==
  {s \in Session :
     \/ \E i \in DOMAIN loan :
          loan[i].type = "CreditAnalysisCompleted" /\ SessionOf(loan[i]) = s
     \/ Has(agent[s], "FraudScreeningCompleted")}

LoanEvent(c, type) ==
  /\ loan' = Append(loan, EventBy(c, type))
  /\ UNCHANGED <<agent, cmd>>

AgentEvent(c, type) ==
  /\ agent' = [agent EXCEPT ![cmd[c].session] = Append(@, EventBy(c, type))]
  /\ UNCHANGED <<loan, cmd>>

--------------------------------------------------------------------------------

Submit(c) == LoanEvent(c, "ApplicationSubmitted")

StartSession(c) == AgentEvent(c, "AgentContextLoaded")

CompleteCredit(c) ==
  /\ MayCompleteCredit(loan)
  /\ cmd[c].model \in EverDeclared(agent[cmd[c].session])
  /\ LoanEvent(c, "CreditAnalysisCompleted")

RequestFraud(c) ==
  /\ loan # <<>>
  /\ Last(loan) = EventBy(c, "CreditAnalysisCompleted")
  /\ LoanEvent(c, "FraudScreeningRequested")

Screen(c) ==
  LET log == agent[cmd[c].session]
  IN  /\ ContextLoaded(log)
      /\ ModelOf(log) = cmd[c].model
      /\ AgentEvent(c, "FraudScreeningCompleted")

RequestCompliance(c) ==
  /\ \/ /\ cmd[c].kind = "fraud"
        /\ Has(agent[cmd[c].session], "FraudScreeningCompleted")
        /\ MayRequestCompliance(loan)
     \/ /\ cmd[c].kind = "compliance"
        /\ MayRequestComplianceCheck(loan)
  /\ LoanEvent(c, "ComplianceCheckRequested")

DecideLoan(c) ==
  /\ MayDecide(loan, cmd[c].confident, cmd[c].outcome)
  /\ cmd[c].contributing \subseteq SessionsWithDecisions
  /\ LoanEvent(c, "DecisionGenerated")

Review(c) ==
  /\ MayReview(loan)
  /\ cmd[c].explained
  /\ LoanEvent(c, "HumanReviewCompleted")

\* The document agent requests a credit analysis of a submitted application;
\* whoever runs the system issues the clearance, as the tests do, when compliance
\* is under review.
MayAppendOutside(type) ==
  \/ type = "CreditAnalysisRequested" /\ Has(loan, "ApplicationSubmitted")
  \/ type = "ComplianceClearanceIssued" /\ StateOf(loan) = "COMPLIANCE_REVIEW"

AppendOutside(type) ==
  /\ MayAppendOutside(type)
  /\ Cardinality({i \in DOMAIN loan : loan[i].type = type}) < MaxOutside
  /\ loan' = Append(loan, [type |-> type, by |-> Outside, outcome |-> "REFER"])
  /\ UNCHANGED <<agent, cmd>>

MachineNext ==
  \/ \E c \in Command :
       \/ cmd[c].kind = "submit" /\ Submit(c)
       \/ cmd[c].kind = "start_session" /\ StartSession(c)
       \/ cmd[c].kind = "credit" /\ (CompleteCredit(c) \/ RequestFraud(c))
       \/ cmd[c].kind = "fraud" /\ Screen(c)
       \/ RequestCompliance(c)
       \/ cmd[c].kind = "decision" /\ DecideLoan(c)
       \/ cmd[c].kind = "review" /\ Review(c)
  \/ \E type \in {"CreditAnalysisRequested", "ComplianceClearanceIssued"} :
       AppendOutside(type)

MachineSpec == MachineInit /\ [][MachineNext]_machine

--------------------------------------------------------------------------------

\* BR-3: a loan has one credit analysis, however many agents analyse it at once
\* and however often a handler is retried.
OneCreditAnalysis ==
  \A i, j \in DOMAIN loan :
    loan[i].type = "CreditAnalysisCompleted" /\ loan[j].type = "CreditAnalysisCompleted"
      => i = j

\* BR-2, the Gas Town rule, across two streams: no session screens or analyses
\* before it has declared its context.
ContextBeforeDecision ==
  /\ \A s \in Session : \A i \in DOMAIN agent[s] :
       agent[s][i].type = "FraudScreeningCompleted" =>
         ContextLoaded(SubSeq(agent[s], 1, i - 1))
  /\ \A i \in DOMAIN loan : loan[i].type = "CreditAnalysisCompleted" =>
       ContextLoaded(agent[SessionOf(loan[i])])

\* BR-4, BR-5, BR-6: each decision on the stream stands on a clearance that
\* precedes it, has a confidence that allows its recommendation, and names only
\* sessions that did something for this loan.
DecisionsJustified ==
  \A i \in DOMAIN loan : loan[i].type = "DecisionGenerated" =>
    LET c == loan[i].by
    IN  /\ ClearanceIssued(SubSeq(loan, 1, i - 1))
        /\ cmd[c].confident \/ loan[i].outcome = "REFER"
        /\ cmd[c].contributing \subseteq SessionsWithDecisions

================================================================================
