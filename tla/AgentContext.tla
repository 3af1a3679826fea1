------------------------------ MODULE AgentContext ------------------------------
(***************************************************************************)
(* reconstruct_agent_context (src/integrity/gas_town.py): what a restarted *)
(* agent learns from the stream of a session.  An event is [type, node,    *)
(* app], node being the node_name of an AgentNodeExecuted.  Prose, token   *)
(* budget and model version are left out.                                  *)
(***************************************************************************)
EXTENDS Subsequence, SequencesExt

_PARTIAL_DECISION_EVENTS == {"CreditAnalysisRequested", "ComplianceCheckRequested"}

_COMPLETION_EVENTS ==
  {"CreditAnalysisCompleted", "FraudScreeningCompleted", "ComplianceClearanceIssued",
   "DecisionGenerated", "HumanReviewCompleted", "ApplicationApproved",
   "ApplicationDeclined"}

_VERBATIM_TAIL == 3

\* A session that ended without a word about it is OK.
_determine_health(events) ==
  IF events # <<>> /\ Last(events).type \in
       _PARTIAL_DECISION_EVENTS \cup {"AgentSessionFailed", "AgentSessionRecovered"}
  THEN "NEEDS_RECONCILIATION" ELSE "OK"

\* Applications with a request and no completion, in whatever order.
_identify_pending_work(events) ==
  LET Apps(types) == {e.app : e \in {x \in ToSet(events) : x.type \in types}}
  IN  Apps(_PARTIAL_DECISION_EVENTS) \ Apps(_COMPLETION_EVENTS)

Executed(events) == {i \in DOMAIN events : events[i].type = "AgentNodeExecuted"}

executed_nodes(events) ==
  LET executed == Executed(events)
  IN  [k \in 1..Cardinality(executed) |-> events[Nth(executed, k)].node]

\* Slips a maintainer could make, paired in PROJECT.json with the property that
\* notices it: the last event is taken for a node.
last_node_of_any(events) == IF events = <<>> THEN "unknown" ELSE Last(events).node

\* "unknown" is what process_application writes for None.
last_successful_node(events) ==
  IF Executed(events) = {} THEN "unknown" ELSE events[Max(Executed(events))].node

reconstruct_agent_context(events) ==
  [last_event_position |-> Len(events),
   pending_work |-> _identify_pending_work(events),
   session_health_status |-> _determine_health(events),
   executed_nodes |-> executed_nodes(events),
   last_successful_node |-> last_successful_node(events),
   verbatim |-> SubSeq(events, IF Len(events) > _VERBATIM_TAIL
                               THEN Len(events) - _VERBATIM_TAIL + 1 ELSE 1, Len(events))]

================================================================================
