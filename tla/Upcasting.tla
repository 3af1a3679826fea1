------------------------------- MODULE Upcasting -------------------------------
(***************************************************************************)
(* UpcasterRegistry and the registered upcasters (src/upcasting/), and the *)
(* events the read models are built from.  The store applies Upcast to     *)
(* every row it returns and leaves the row alone.                          *)
(*                                                                         *)
(* An event is [type, by, app, outcome, score, model, confidence, version, *)
(* cause]: by tells the command handlers from the agents, whose payloads   *)
(* differ; outcome is a recommendation or a final decision; score stands   *)
(* for risk tier, limit and duration; cause is the position of the event   *)
(* its causation_id names, 0 without one.                                  *)
(***************************************************************************)
EXTENDS Integers, FiniteSets

Null == 0
NoModel == "absent"

\* (event_type, from_version) of the upcasters registered at import.
Registered == {<<"CreditAnalysisCompleted", 1>>, <<"DecisionGenerated", 1>>}

\* upcast_credit_v1_to_v2 names a model and leaves confidence null;
\* upcast_decision_v1_to_v2 supplies an empty dict of model versions.
Upgrade(e) ==
  [e EXCEPT !.version = @ + 1,
            !.model = IF e.type = "CreditAnalysisCompleted" /\ @ = NoModel
                      THEN "legacy-pre-2026" ELSE @]

\* The chain v, v + 1, ... as far as upcasters are registered.
Upcast(e) ==
  LET walk[n \in 0..Cardinality(Registered)] ==
        IF n = 0 THEN e
        ELSE LET last == walk[n - 1]
             IN  IF <<last.type, last.version>> \in Registered THEN Upgrade(last)
                                                               ELSE last
  IN  walk[Cardinality(Registered)]

================================================================================
