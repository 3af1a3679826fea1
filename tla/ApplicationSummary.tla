--------------------------- MODULE ApplicationSummary ---------------------------
(***************************************************************************)
(* ApplicationSummaryProjection (src/projections/application_summary.py):  *)
(* what handling an event does to the row of its application.  Amounts,    *)
(* times, sessions and reviewer are left out.                              *)
(***************************************************************************)
EXTENDS Integers

\* The row of an application whose ApplicationSubmitted was not handled: an UPDATE
\* finds nothing to change.
NoRow == [state |-> "NONE", risk_tier |-> 0, compliance_status |-> "none",
          decision |-> "none", last_event_type |-> "none"]

SummaryState ==
  {"NONE", "SUBMITTED", "AWAITING_ANALYSIS", "ANALYSIS_COMPLETE", "COMPLIANCE_REVIEW",
   "PENDING_DECISION", "APPROVED_PENDING_HUMAN", "DECLINED_PENDING_HUMAN",
   "FINAL_APPROVED", "FINAL_DECLINED"}

Touched(row, e) == [row EXCEPT !.last_event_type = e.type]

\* INSERT ... ON CONFLICT: a second submission resets the state and keeps the
\* columns of the analysis and the decision.
_handle_ApplicationSubmitted(row, e) ==
  [Touched(row, e) EXCEPT !.state = "SUBMITTED"]

\* Agents nest the risk tier in a decision, where the handler does not look.
_handle_CreditAnalysisCompleted(row, e) ==
  [Touched(row, e) EXCEPT
     !.state = "ANALYSIS_COMPLETE",
     !.risk_tier = IF e.by = "handlers" THEN e.score ELSE 0]

_handle_FraudScreeningCompleted(row, e) == Touched(row, e)

_handle_ComplianceClearanceIssued(row, e) ==
  [Touched(row, e) EXCEPT !.state = "PENDING_DECISION",
                          !.compliance_status = "CLEARED"]

\* Slips a maintainer could make, paired in PROJECT.json with the property that
\* notices it: a referral that stays undecided.
DecisionGeneratedReferred(row, e) ==
  [Touched(row, e) EXCEPT
     !.state = CASE e.outcome = "APPROVE" -> "APPROVED_PENDING_HUMAN"
                 [] e.outcome = "DECLINE" -> "DECLINED_PENDING_HUMAN"
                 [] OTHER -> "PENDING_DECISION",
     !.decision = e.outcome]

_handle_DecisionGenerated(row, e) ==
  [Touched(row, e) EXCEPT
     !.state = IF e.outcome = "APPROVE" THEN "APPROVED_PENDING_HUMAN"
                                        ELSE "DECLINED_PENDING_HUMAN",
     !.decision = e.outcome]

_handle_HumanReviewCompleted(row, e) ==
  [Touched(row, e) EXCEPT
     !.state = IF e.outcome = "APPROVE" THEN "FINAL_APPROVED" ELSE "FINAL_DECLINED"]

_handle_ApplicationApproved(row, e) ==
  [Touched(row, e) EXCEPT !.state = "FINAL_APPROVED"]

_handle_ApplicationDeclined(row, e) ==
  [Touched(row, e) EXCEPT !.state = "FINAL_DECLINED"]

\* CreditAnalysisRequested and ComplianceCheckRequested; without a state, the results
\* of single compliance rules.
_handle_generic(row, e, state) ==
  [Touched(row, e) EXCEPT !.state = IF state = "same" THEN @ ELSE state]

_SUBSCRIBED_EVENTS ==
  {"ApplicationSubmitted", "CreditAnalysisRequested", "CreditAnalysisCompleted",
   "FraudScreeningCompleted", "ComplianceCheckRequested",
   "ComplianceRulePassed", "ComplianceRuleFailed", "ComplianceClearanceIssued",
   "DecisionGenerated", "HumanReviewCompleted", "ApplicationApproved", "ApplicationDeclined"}

Updated(row, e) ==
  CASE e.type = "CreditAnalysisRequested" -> _handle_generic(row, e, "AWAITING_ANALYSIS")
    [] e.type = "CreditAnalysisCompleted" -> _handle_CreditAnalysisCompleted(row, e)
    [] e.type = "FraudScreeningCompleted" -> _handle_FraudScreeningCompleted(row, e)
    [] e.type = "ComplianceCheckRequested" -> _handle_generic(row, e, "COMPLIANCE_REVIEW")
    [] e.type \in {"ComplianceRulePassed", "ComplianceRuleFailed"} ->
         _handle_generic(row, e, "same")
    [] e.type = "ComplianceClearanceIssued" -> _handle_ComplianceClearanceIssued(row, e)
    [] e.type = "DecisionGenerated" -> _handle_DecisionGenerated(row, e)
    [] e.type = "HumanReviewCompleted" -> _handle_HumanReviewCompleted(row, e)
    [] e.type = "ApplicationApproved" -> _handle_ApplicationApproved(row, e)
    [] e.type = "ApplicationDeclined" -> _handle_ApplicationDeclined(row, e)

SummaryAfter(row, e) ==
  IF e.type \notin _SUBSCRIBED_EVENTS THEN row
  ELSE IF e.type = "ApplicationSubmitted" THEN _handle_ApplicationSubmitted(row, e)
  ELSE IF row = NoRow THEN row
  ELSE Updated(row, e)

================================================================================
