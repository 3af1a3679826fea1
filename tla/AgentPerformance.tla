---------------------------- MODULE AgentPerformance ----------------------------
(***************************************************************************)
(* AgentPerformanceLedgerProjection (src/projections/agent_performance.py):*)
(* running averages per agent and model version.  An average is a fraction *)
(* <<numerator, denominator>>, <<>> when null; times are left out.         *)
(***************************************************************************)
EXTENDS Upcasting

\* Rows of agents' decisions, which carry no orchestrator_agent_id, and of decisions
\* whose model_versions do not name the orchestrator.
Unnamed == <<"nobody", "unknown">>

KeyOf(e) ==
  IF e.type \in {"AgentContextLoaded", "CreditAnalysisCompleted"}
  THEN <<"analyst", e.model>>
  ELSE IF e.by = "agents" THEN Unnamed
  ELSE <<"orchestrator", IF e.model = NoModel THEN "unknown" ELSE e.model>>

NoLedgerRow == [analyses_completed |-> -1]

\* _ensure_row.
EmptyLedgerRow ==
  [analyses_completed |-> 0, decisions_generated |-> 0,
   avg_confidence_score |-> <<>>, avg_duration_ms |-> <<>>,
   approve_rate |-> <<0, 1>>, decline_rate |-> <<0, 1>>, refer_rate |-> <<0, 1>>]

\* Slips a maintainer could make, paired in PROJECT.json with the property that
\* notices it: an average over one event too many.
IncludedAfter(avg, count, value) ==
  IF avg = <<>> THEN <<value, 1>>
  ELSE <<avg[1] * (count + 1) + value * avg[2], avg[2] * (count + 2)>>

\* (avg * count + value) / (count + 1), the value itself if there is no average yet.
Included(avg, count, value) ==
  IF avg = <<>> THEN <<value, 1>>
  ELSE <<avg[1] * count + value * avg[2], avg[2] * (count + 1)>>

\* Both averages divide by analyses_completed, although events without a confidence
\* are counted there too.
AnalysisIncluded(row, e) ==
  [row EXCEPT
     !.analyses_completed = @ + 1,
     !.avg_duration_ms = Included(@, row.analyses_completed, e.score),
     !.avg_confidence_score =
        IF e.confidence = Null THEN @
        ELSE Included(@, row.analyses_completed, e.confidence)]

DecisionIncluded(row, e) ==
  LET Rate(rate, recommendation) ==
        Included(rate, row.decisions_generated,
                 IF e.outcome = recommendation THEN 1 ELSE 0)
  IN  [row EXCEPT
         !.decisions_generated = @ + 1,
         !.approve_rate = Rate(@, "APPROVE"),
         !.decline_rate = Rate(@, "DECLINE"),
         !.refer_rate = Rate(@, "REFER")]

\* p["agent_id"] of a credit analysis that an agent wrote: a KeyError.
LedgerRaises(e) == e.type = "CreditAnalysisCompleted" /\ e.by = "agents"

\* HumanReviewCompleted and the other subscribed types change nothing.
LedgerAfter(row, e) ==
  LET ensured == IF row = NoLedgerRow THEN EmptyLedgerRow ELSE row
  IN  CASE e.type = "AgentContextLoaded" -> ensured
        [] e.type = "CreditAnalysisCompleted" -> AnalysisIncluded(ensured, e)
        [] e.type = "DecisionGenerated" -> DecisionIncluded(ensured, e)
        [] OTHER -> row

================================================================================
