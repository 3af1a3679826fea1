----------------------------- MODULE MCReadModels ------------------------------
(* Instances of ReadModels for TLC. *)
EXTENDS ReadModels

CONSTANTS x, y

Requested(a) == <<Plain("ApplicationSubmitted", a), Plain("CreditAnalysisRequested", a)>>

Analysed(a) ==
  Requested(a) \o
  <<[Plain("CreditAnalysisCompleted", a) EXCEPT !.score = 1, !.confidence = 1,
                                                !.version = 2, !.model = "v2"],
    Plain("FraudScreeningRequested", a),
    Plain("ComplianceCheckRequested", a)>>

\* Nothing, two applications to be analysed, one to be decided.
MCHistories == {<<>>, Requested(x) \o Requested(y), Analysed(x)}

================================================================================
