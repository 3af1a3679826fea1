----------------------------- MODULE EventSimulator -----------------------------
(***************************************************************************)
(* EventSimulator (src/starter/datagen/event_simulator.py): the history of *)
(* one application up to a target state, as the five agents would leave    *)
(* it, in the order of the lines of seed_events.jsonl.  A line is [stream, *)
(* type, claim]; the claim of an AgentOutputWritten names a stream, a type *)
(* and a stream_position, that of any other event is NoClaim.  A session   *)
(* stream is named after its agent.                                        *)
(***************************************************************************)
EXTENDS Integers, FiniteSets, Sequences

NoClaim == [stream |-> "none", type |-> "none", position |-> 0]

_emit(stream, type) == [stream |-> stream, type |-> type, claim |-> NoClaim]

Emitted(stream, types) == [i \in DOMAIN types |-> _emit(stream, types[i])]

\* _node, once for each of them.
_nodes(agent, count) == [i \in 1..count |-> _emit(agent, "AgentNodeExecuted")]

Opened(agent) == Emitted(agent, <<"AgentSessionStarted", "AgentInputValidated">>)

Closed(agent, stream, type, position) ==
  <<[stream |-> agent, type |-> "AgentOutputWritten",
     claim |-> [stream |-> stream, type |-> type, position |-> position]],
    _emit(agent, "AgentSessionCompleted")>>

_step_submit ==
  Emitted("loan", <<"ApplicationSubmitted", "DocumentUploadRequested">>)
  \o <<_emit("docpkg", "PackageCreated")>>

_step_upload ==
  [i \in 1..8 |-> IF i % 2 = 1 THEN _emit("loan", "DocumentUploaded")
                  ELSE _emit("docpkg", "DocumentAdded")]

CountOf(lines, stream) == Cardinality({i \in DOMAIN lines : lines[i].stream = stream})

\* The position of PackageReadyForAnalysis is counted, the others are written down.
_step_doc_processing(before) ==
  LET document == Emitted("docpkg", <<"DocumentFormatValidated", "ExtractionStarted">>)
                  \o <<_emit("document-agent", "AgentToolCalled"),
                       _emit("docpkg", "ExtractionCompleted")>>
      work == Opened("document-agent") \o _nodes("document-agent", 1) \o document \o document
              \o _nodes("document-agent", 2)
              \o Emitted("docpkg", <<"QualityAssessmentCompleted",
                                     "PackageReadyForAnalysis">>)
  IN  work \o Closed("document-agent", "docpkg", "PackageReadyForAnalysis",
                     CountOf(before \o work, "docpkg"))
      \o <<_emit("loan", "CreditAnalysisRequested")>>

\* Slips a maintainer could make, each paired in PROJECT.json with the property that
\* notices it: a record that is not opened.
StepFraudUnopened ==
  Opened("fraud-agent") \o _nodes("fraud-agent", 5)
  \o <<_emit("fraud", "FraudScreeningCompleted")>>
  \o Closed("fraud-agent", "fraud", "FraudScreeningCompleted", 2)
  \o <<_emit("loan", "ComplianceCheckRequested")>>

_step_credit ==
  Opened("credit-agent") \o <<_emit("credit", "CreditRecordOpened")>>
  \o _nodes("credit-agent", 2)
  \o <<_emit("credit-agent", "AgentToolCalled"), _emit("credit", "HistoricalProfileConsumed")>>
  \o _nodes("credit-agent", 1) \o <<_emit("credit", "ExtractedFactsConsumed")>>
  \o _nodes("credit-agent", 4) \o <<_emit("credit", "CreditAnalysisCompleted")>>
  \o Closed("credit-agent", "credit", "CreditAnalysisCompleted", 4)
  \o <<_emit("loan", "FraudScreeningRequested")>>

_step_fraud ==
  Opened("fraud-agent") \o <<_emit("fraud", "FraudScreeningInitiated")>>
  \o _nodes("fraud-agent", 5) \o <<_emit("fraud", "FraudScreeningCompleted")>>
  \o Closed("fraud-agent", "fraud", "FraudScreeningCompleted", 2)
  \o <<_emit("loan", "ComplianceCheckRequested")>>

\* REG-001 to REG-006, and whether a failure ends the evaluation.
RULES == <<FALSE, TRUE, TRUE, FALSE, TRUE, FALSE>>

_hard_block(failing) == \E i \in failing : RULES[i]

\* failing: the rules the company fails, REG-006 never being one.
_step_compliance(failing) ==
  LET hard == {i \in failing : RULES[i]}
      last == IF hard = {} THEN Len(RULES) ELSE CHOOSE i \in hard : \A j \in hard : i <= j
      Result(i) == IF i \in failing THEN "ComplianceRuleFailed"
                   ELSE IF i = Len(RULES) THEN "ComplianceRuleNoted"
                   ELSE "ComplianceRulePassed"
  IN  Opened("compliance-agent") \o <<_emit("compliance", "ComplianceCheckInitiated")>>
      \o [i \in 1..(2 * last) |->
            IF i % 2 = 1 THEN _emit("compliance-agent", "AgentNodeExecuted")
            ELSE _emit("compliance", Result(i \div 2))]
      \o <<_emit("compliance", "ComplianceCheckCompleted")>>
      \o Closed("compliance-agent", "compliance", "ComplianceCheckCompleted", last + 1)
      \o <<_emit("loan", IF hard = {} THEN "DecisionRequested" ELSE "ApplicationDeclined")>>

_step_decision(target) ==
  Opened("decision-agent") \o _nodes("decision-agent", 5)
  \o <<_emit("loan", "DecisionGenerated")>>
  \o (CASE target = "APPROVED" -> <<_emit("loan", "ApplicationApproved")>>
        [] target = "DECLINED" -> <<_emit("loan", "ApplicationDeclined")>>
        [] OTHER -> <<>>)
  \o Closed("decision-agent", "loan", "DecisionGenerated", 10)

STATES ==
  <<"SUBMITTED", "DOCUMENTS_UPLOADED", "DOCUMENTS_PROCESSED", "CREDIT_COMPLETE",
    "FRAUD_COMPLETE", "COMPLIANCE_COMPLETE", "APPROVED", "DECLINED",
    "DECLINED_COMPLIANCE", "REFERRED">>

\* The steps up to the target; no decision after a hard block.
run(target, failing) ==
  LET idx == CHOOSE i \in DOMAIN STATES : STATES[i] = target
      before == _step_submit \o _step_upload
      decides == /\ idx > 6 /\ target # "DECLINED_COMPLIANCE"
                 /\ ~_hard_block(failing)
  IN  _step_submit
      \o (IF idx > 1 THEN _step_upload ELSE <<>>)
      \o (IF idx > 2 THEN _step_doc_processing(before) ELSE <<>>)
      \o (IF idx > 3 THEN _step_credit ELSE <<>>)
      \o (IF idx > 4 THEN _step_fraud ELSE <<>>)
      \o (IF idx > 5 THEN _step_compliance(failing) ELSE <<>>)
      \o (IF decides THEN _step_decision(target) ELSE <<>>)

================================================================================
