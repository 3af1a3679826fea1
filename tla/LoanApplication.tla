---------------------------- MODULE LoanApplication ----------------------------
(***************************************************************************)
(* LoanApplicationAggregate and AgentSessionAggregate                      *)
(* (src/aggregates/): what a replay of the stream loan-<id>, or of the     *)
(* stream agent-<agent>-<session>, tells a command handler.                *)
(*                                                                         *)
(* An event is [type, by, outcome]: by is the command that wrote it, whose *)
(* parameters are the rest of its payload, and outcome is the              *)
(* recommendation or the final decision it carries.  All events on a loan  *)
(* stream here change the state; FraudScreeningCompleted and the           *)
(* compliance rule events are written to other streams.                    *)
(***************************************************************************)
EXTENDS Integers, Sequences, SequencesExt

Recommendation == {"APPROVE", "DECLINE", "REFER"}

\* _on_<type>, for the types whose effect does not depend on the payload.
StateOn ==
  [ApplicationSubmitted      |-> "SUBMITTED",
   CreditAnalysisRequested   |-> "AWAITING_ANALYSIS",
   CreditAnalysisCompleted   |-> "ANALYSIS_COMPLETE",
   FraudScreeningRequested   |-> "ANALYSIS_COMPLETE",
   ComplianceCheckRequested  |-> "COMPLIANCE_REVIEW",
   ComplianceClearanceIssued |-> "PENDING_DECISION",
   ApplicationApproved       |-> "FINAL_APPROVED",
   ApplicationDeclined       |-> "FINAL_DECLINED"]

LoanEventType == DOMAIN StateOn \cup {"DecisionGenerated", "HumanReviewCompleted"}

AwaitingHuman == {"APPROVED_PENDING_HUMAN", "DECLINED_PENDING_HUMAN"}
Final == {"FINAL_APPROVED", "FINAL_DECLINED"}

StateAfter(e) ==
  IF e.type \in DOMAIN StateOn THEN StateOn[e.type]
  ELSE IF e.type = "DecisionGenerated"
       THEN IF e.outcome = "APPROVE" THEN "APPROVED_PENDING_HUMAN"
                                     ELSE "DECLINED_PENDING_HUMAN"
       ELSE IF e.outcome = "APPROVE" THEN "FINAL_APPROVED" ELSE "FINAL_DECLINED"

StateOf(log) == IF log = <<>> THEN "NONE" ELSE StateAfter(Last(log))

Has(log, type) == \E i \in DOMAIN log : log[i].type = type

CreditAnalysisLocked(log) == Has(log, "CreditAnalysisCompleted")
ClearanceIssued(log) == Has(log, "ComplianceClearanceIssued")
ContextLoaded(log) == Has(log, "AgentContextLoaded")

\* The guard of handle_credit_analysis_completed on the loan stream.
MayCompleteCredit(log) ==
  /\ StateOf(log) = "AWAITING_ANALYSIS"
  /\ ~CreditAnalysisLocked(log)

\* The guards of handle_generate_decision on the loan stream: BR-1, BR-4, BR-5.
MayDecide(log, confident, recommendation) ==
  /\ StateOf(log) = "PENDING_DECISION"
  /\ ~confident => recommendation = "REFER"
  /\ ClearanceIssued(log)

\* handle_fraud_screening_completed asks for no particular state.
MayRequestCompliance(log) == StateOf(log) # "COMPLIANCE_REVIEW"

\* handle_request_compliance_check does.
MayRequestComplianceCheck(log) == StateOf(log) = "ANALYSIS_COMPLETE"

MayReview(log) == StateOf(log) \in AwaitingHuman

================================================================================
