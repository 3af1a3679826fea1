--------------------------------- MODULE WhatIf ---------------------------------
(***************************************************************************)
(* run_what_if (src/what_if/projector.py): the history of a loan is        *)
(* replayed twice, as it was and with counterfactual events in the place   *)
(* of the first event of a type; events caused by the replaced one are     *)
(* left out of both.  An entry is <<position, event>>, position 0 for a    *)
(* counterfactual event.                                                   *)
(***************************************************************************)
EXTENDS Upcasting, Subsequence, SequencesExt, FiniteSetsExt

\* The events of a stream, given by their positions.
Entries(log, positions) ==
  Picked([i \in DOMAIN log |-> <<i, Upcast(log[i])>>], positions)

Indexes(entries, type) == {i \in DOMAIN entries : entries[i][2].type = type}

\* Entries of the loan stream.  An analysis that is only on the credit stream is
\* put behind the last request for one, or at the end.
Replayed(loan, credit, type) ==
  IF type # "CreditAnalysisCompleted" \/ Indexes(loan, type) # {} \/ Indexes(credit, type) = {}
  THEN loan
  ELSE LET analysis == credit[Max(Indexes(credit, type))]
           requests == Indexes(loan, "CreditAnalysisRequested")
           at == IF requests = {} THEN Len(loan) ELSE Max(requests)
       IN  InsertAt(loan, at + 1, analysis)

\* _partition_by_causality: an event depends on the branch if its causation_id names
\* it; what such an event has caused in turn stays.
Independent(post, branch) ==
  Picked(post, {i \in DOMAIN post : post[i][2].cause # branch[1]})

Divided(entries, type) ==
  LET at == Min(Indexes(entries, type))
  IN  [pre |-> SubSeq(entries, 1, at - 1), branch |-> entries[at],
       post |-> SubSeq(entries, at + 1, Len(entries))]

\* Slips a maintainer could make, paired in PROJECT.json with the property that
\* notices it: the events that depend on the branch stay in one of the replays.
RealSequenceWhole(entries, type) == entries

\* Without an event of the type, everything is before the branch.
RealSequence(entries, type) ==
  IF Indexes(entries, type) = {} THEN entries
  ELSE LET d == Divided(entries, type)
       IN  d.pre \o <<d.branch>> \o Independent(d.post, d.branch)

CounterfactualSequence(entries, type, events) ==
  LET stored == [i \in DOMAIN events |-> <<0, events[i]>>]
  IN  IF Indexes(entries, type) = {} THEN entries \o stored
      ELSE LET d == Divided(entries, type)
           IN  d.pre \o stored \o Independent(d.post, d.branch)

NoOutcome == [final_state |-> "None", risk_tier |-> 0, confidence_score |-> Null,
              decision |-> "None"]

\* One event of _evaluate_sequence.
OutcomeAfter(outcome, e) ==
  CASE e.type = "ApplicationSubmitted" -> [outcome EXCEPT !.final_state = "SUBMITTED"]
    [] e.type = "CreditAnalysisCompleted" ->
         [outcome EXCEPT !.final_state = "ANALYSIS_COMPLETE", !.risk_tier = e.score,
                         !.confidence_score = e.confidence]
    [] e.type = "DecisionGenerated" ->
         [outcome EXCEPT !.final_state = "PENDING_DECISION", !.decision = e.outcome]
    [] e.type = "HumanReviewCompleted" ->
         [outcome EXCEPT !.final_state = IF e.outcome = "APPROVE" THEN "FINAL_APPROVED"
                                                                 ELSE "FINAL_DECLINED"]
    [] e.type = "ApplicationApproved" -> [outcome EXCEPT !.final_state = "FINAL_APPROVED"]
    [] e.type = "ApplicationDeclined" -> [outcome EXCEPT !.final_state = "FINAL_DECLINED"]
    [] OTHER -> outcome

Evaluated(entries) ==
  LET outcome[i \in 0..Len(entries)] ==
        IF i = 0 THEN NoOutcome ELSE OutcomeAfter(outcome[i - 1], entries[i][2])
  IN  outcome[Len(entries)]

\* The fields in which two outcomes differ.
Divergence(real, counterfactual) ==
  {field \in DOMAIN real : real[field] # counterfactual[field]}

================================================================================
