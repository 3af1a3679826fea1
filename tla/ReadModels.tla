------------------------------- MODULE ReadModels -------------------------------
(***************************************************************************)
(* The projections application_summary and agent_performance_ledger, fed   *)
(* by the daemon, beside the loan applications they describe, and the      *)
(* what-if projector on the same histories.  What ProjectionDaemon shows   *)
(* of the daemon is its interface here: events in the order of their       *)
(* positions, an event again after a stop between handler and checkpoint,  *)
(* and an event passed over when its retries are used up and a later one   *)
(* succeeds.  The two share nothing but the events, and a behaviour        *)
(* follows one of them.                                                    *)
(***************************************************************************)
EXTENDS LoanApplication, ApplicationSummary, AgentPerformance, WhatIf

CONSTANTS
  App,
  Histories,   \* bound: what is in the store at first
  Score,       \* bound: risk tiers, limits, durations and confidences
  MaxWrites,   \* bound: events written on top of it
  MaxFaults    \* bound: stops, exhausted retries and rebuilds

EventType ==
  LoanEventType \cup {"AgentContextLoaded", "FraudScreeningCompleted",
                     "ComplianceRulePassed", "ComplianceRuleFailed"}
Author == {"handlers", "agents"}

Event ==
  [type : EventType, by : Author, app : App, outcome : Recommendation,
   score : Score \cup {0}, model : {"v2", NoModel}, confidence : Score \cup {Null},
   version : 1..2, cause : Nat]

ASSUME ReadModelsAssumption ==
  /\ Score \subseteq Nat \ {Null}
  /\ {MaxWrites, MaxFaults} \subseteq Nat
  /\ Histories \subseteq Seq(Event)

VARIABLES
  log,         \* events, as stored
  writes,      \* events written since the start
  projection,  \* the one that is followed
  row,         \* application_summary
  ledger,      \* agent_performance_ledger
  checkpoint,
  next,        \* the position it handles next
  handled,     \* positions handled since the table was truncated (not in the code)
  faults

tables == <<row, ledger>>
readVars == <<log, writes, projection, tables, checkpoint, next, handled, faults>>

Projection == {"application_summary", "agent_performance_ledger"}
Keys == ({"analyst", "orchestrator", "nobody"} \X
         {"v2", "legacy-pre-2026", "unknown"})

ReadInit ==
  /\ log \in Histories
  /\ writes = 0
  /\ projection \in Projection
  /\ row = [a \in App |-> NoRow]
  /\ ledger = [k \in Keys |-> NoLedgerRow]
  /\ checkpoint = 0
  /\ next = 1
  /\ handled = <<>>
  /\ faults = 0

--------------------------------------------------------------------------------

\* Agents write an analysis to the credit stream; a screening is on the stream of
\* its session, the result of a rule on the compliance stream.
Stream(e) ==
  CASE e.type = "CreditAnalysisCompleted" /\ e.by = "agents" -> "credit"
    [] e.type \in {"FraudScreeningCompleted", "AgentContextLoaded"} -> "agent"
    [] e.type \in {"ComplianceRulePassed", "ComplianceRuleFailed"} -> "compliance"
    [] OTHER -> "loan"

\* The positions of the events of a stream.
On(stream, a) == {i \in DOMAIN log : log[i].app = a /\ Stream(log[i]) = stream}

Loan(a) == Picked(log, On("loan", a))
Credit(a) == Picked(log, On("credit", a))

Plain(type, a) ==
  [type |-> type, by |-> "handlers", app |-> a, outcome |-> "REFER", score |-> 0,
   model |-> NoModel, confidence |-> Null, version |-> 1, cause |-> 0]

\* A caller names a credit analysis as the cause of what it does next, or nothing.
Causes(a) ==
  {0} \cup {i \in DOMAIN log : log[i].type = "CreditAnalysisCompleted" /\ log[i].app = a}

\* What the handlers may write; their guards are LoanApplication's.  Events of
\* version 1 are left from an older release.
HandlerEvents(a) ==
  LET loan == Loan(a)
  IN  {Plain("ApplicationSubmitted", a)}
      \cup {[Plain("AgentContextLoaded", a) EXCEPT !.model = "v2"]}
      \cup {e \in {Plain("CreditAnalysisRequested", a)} : Has(loan, "ApplicationSubmitted")}
      \cup {e \in {[Plain("CreditAnalysisCompleted", a) EXCEPT
                      !.score = s, !.cause = c, !.version = v,
                      !.model = IF v = 1 THEN NoModel ELSE "v2",
                      !.confidence = IF v = 1 THEN Null ELSE s] :
                     s \in Score, c \in Causes(a), v \in 1..2} :
              MayCompleteCredit(loan)}
      \cup {e \in {[Plain("FraudScreeningRequested", a) EXCEPT !.cause = c] : c \in Causes(a)} :
              loan # <<>> /\ Last(loan).type = "CreditAnalysisCompleted"}
      \cup {[Plain("FraudScreeningCompleted", a) EXCEPT !.cause = c] : c \in Causes(a)}
      \cup {e \in {[Plain("ComplianceCheckRequested", a) EXCEPT !.cause = c] : c \in Causes(a)} :
              MayRequestCompliance(loan)}
      \cup {Plain(type, a) : type \in {"ComplianceRulePassed", "ComplianceRuleFailed"}}
      \cup {e \in {Plain("ComplianceClearanceIssued", a)} : StateOf(loan) = "COMPLIANCE_REVIEW"}
      \cup {e \in {[Plain("DecisionGenerated", a) EXCEPT
                      !.outcome = o, !.cause = c, !.version = v,
                      !.model = IF v = 1 THEN NoModel ELSE "v2"] :
                     o \in Recommendation, c \in Causes(a), v \in 1..2} :
              MayDecide(loan, TRUE, e.outcome)}
      \cup {e \in {[Plain("HumanReviewCompleted", a) EXCEPT !.outcome = o, !.cause = c] :
                     o \in {"APPROVE", "DECLINE"}, c \in Causes(a)} : MayReview(loan)}

\* What the agents may write beside that, as far as AgentPipeline shows: a result
\* once it is asked for, and the outcome of a decision.
AgentEvents(a) ==
  LET loan == Loan(a)
      By(e) == [e EXCEPT !.by = "agents"]
  IN  {e \in {By([Plain("CreditAnalysisCompleted", a) EXCEPT
                    !.score = s, !.version = 2, !.model = "v2", !.confidence = s]) :
                s \in Score} : Has(loan, "CreditAnalysisRequested")}
      \cup {e \in {By(Plain("FraudScreeningRequested", a))} : Credit(a) # <<>>}
      \cup {e \in {By([Plain("DecisionGenerated", a) EXCEPT !.outcome = o, !.version = 2]) :
                     o \in Recommendation} : Has(loan, "ComplianceCheckRequested")}
      \cup {e \in {By(Plain("ApplicationApproved", a))} :
              loan # <<>> /\ Last(loan) = By([Plain("DecisionGenerated", a) EXCEPT
                                                !.outcome = "APPROVE", !.version = 2])}
      \cup {e \in {By(Plain("ApplicationDeclined", a))} : Has(loan, "ComplianceCheckRequested")}

WriteEvent(e) ==
  /\ writes < MaxWrites
  /\ writes' = writes + 1
  /\ log' = Append(log, e)
  /\ UNCHANGED <<projection, tables, checkpoint, next, handled, faults>>

--------------------------------------------------------------------------------

\* load_all returns events upcasted.
Delivered == Upcast(log[next])

Raises == projection = "agent_performance_ledger" /\ LedgerRaises(Delivered)

\* handle of the projection.
Applied ==
  LET e == Delivered
  IN  /\ next <= Len(log)
      /\ ~Raises
      /\ IF projection = "application_summary"
         THEN row' = [row EXCEPT ![e.app] = SummaryAfter(@, e)] /\ UNCHANGED ledger
         ELSE ledger' = [ledger EXCEPT ![KeyOf(e)] = LedgerAfter(@, e)] /\ UNCHANGED row
      /\ handled' = Append(handled, next)

Fault == faults < MaxFaults /\ faults' = faults + 1

Handle ==
  /\ Applied
  /\ checkpoint' = next
  /\ next' = next + 1
  /\ UNCHANGED <<log, writes, projection, faults>>

\* The process stops behind the handler, or anywhere else, and starts again.
HandleAndStop ==
  /\ Applied
  /\ Fault
  /\ next' = checkpoint + 1
  /\ UNCHANGED <<log, writes, projection, checkpoint>>

\* Retries exhausted: always when the handler cannot do with the payload.
GiveUp ==
  /\ next <= Len(log)
  /\ IF Raises THEN UNCHANGED faults ELSE Fault
  /\ next' = next + 1
  /\ UNCHANGED <<log, writes, projection, tables, checkpoint, handled>>

\* A batch starts behind the checkpoint: events given up at the end of the last one
\* are tried again.
NextBatch ==
  /\ next > checkpoint + 1
  /\ next' = checkpoint + 1
  /\ UNCHANGED <<log, writes, projection, tables, checkpoint, handled, faults>>

\* rebuild_projection, between two batches.
Rebuild ==
  /\ Fault
  /\ IF projection = "application_summary"
     THEN row' = [a \in App |-> NoRow] /\ UNCHANGED ledger
     ELSE ledger' = [k \in Keys |-> NoLedgerRow] /\ UNCHANGED row
  /\ checkpoint' = 0
  /\ next' = 1
  /\ handled' = <<>>
  /\ UNCHANGED <<log, writes, projection>>

ReadNext ==
  \/ \E a \in App : \E e \in HandlerEvents(a) \cup AgentEvents(a) : WriteEvent(e)
  \/ Handle \/ HandleAndStop \/ GiveUp \/ NextBatch \/ Rebuild

ReadSpec == ReadInit /\ [][ReadNext]_readVars

--------------------------------------------------------------------------------

StateEvents(a) ==
  {i \in DOMAIN log : log[i].app = a /\ log[i].type \in LoanEventType}

\* "one row per loan application reflecting current state" (application_summary.py,
\* line 4): when the last event that moves the loan is the last one handled, the row
\* is in the state the aggregate replays to, whatever was handled twice or passed
\* over before.  The row is there once the submission is.  Two events move only one
\* of the two: the projection does not know FraudScreeningRequested, and the
\* aggregate does not see the credit stream.
SummaryFollowsAggregate ==
  projection = "application_summary" =>
  \A a \in App :
    LET mine == {n \in DOMAIN handled : handled[n] \in StateEvents(a)}
        there == \E n \in mine : log[handled[n]].type = "ApplicationSubmitted"
        last == Max(StateEvents(a))
    IN  /\ there <=> row[a] # NoRow
        /\ /\ there /\ handled[Max(mine)] = last
           /\ Stream(log[last]) = "loan" /\ log[last].type # "FraudScreeningRequested"
           => row[a].state = StateOf(Loan(a))

\* The events behind the row of a key, by when they were handled.
Behind(k, type) ==
  {n \in DOMAIN handled : LET e == log[handled[n]]
                          IN  e.type = type /\ KeyOf(Upcast(e)) = k}

Total(values) ==
  LET sum[i \in 0..Len(values)] == IF i = 0 THEN 0 ELSE sum[i - 1] + values[i]
  IN  sum[Len(values)]

\* avg is the mean of what was taken from the events handled at some times, 0 being
\* noted for the others.
IsMean(avg, times, values) == avg[1] * Cardinality(times) = Total(values) * avg[2]

\* The running averages and rates of each agent and model are the counts and means
\* of what was handled since the last rebuild, events of an older version included,
\* for which no confidence is made up.
\* The mean of the confidences is only that as long as every event has one: the
\* divisor counts the others too, and the average then merely lies between the
\* extremes.
MetricsMatchHistory ==
  \A k \in Keys :
    LET analyses == Behind(k, "CreditAnalysisCompleted")
        decisions == Behind(k, "DecisionGenerated")
        Scored(n) == log[handled[n]].score
        Confidence(n) == log[handled[n]].confidence
        known == {n \in analyses : Confidence(n) # Null}
        scores == [n \in DOMAIN handled |-> IF n \in analyses THEN Scored(n) ELSE 0]
        confidences == [n \in DOMAIN handled |-> IF n \in known THEN Confidence(n) ELSE 0]
        Share(outcome) ==
          [n \in DOMAIN handled |->
             IF n \in decisions /\ log[handled[n]].outcome = outcome THEN 1 ELSE 0]
    IN  ledger[k] # NoLedgerRow =>
          /\ ledger[k].analyses_completed = Cardinality(analyses)
          /\ ledger[k].decisions_generated = Cardinality(decisions)
          /\ analyses # {} => IsMean(ledger[k].avg_duration_ms, analyses, scores)
          /\ (ledger[k].avg_confidence_score = <<>>) <=> (known = {})
          /\ known # {} =>
               LET avg == ledger[k].avg_confidence_score
               IN  IF known = analyses THEN IsMean(avg, known, confidences)
                   ELSE /\ \E n \in known : Confidence(n) * avg[2] <= avg[1]
                        /\ \E n \in known : avg[1] <= Confidence(n) * avg[2]
          /\ decisions # {} =>
               /\ IsMean(ledger[k].approve_rate, decisions, Share("APPROVE"))
               /\ IsMean(ledger[k].decline_rate, decisions, Share("DECLINE"))
               /\ IsMean(ledger[k].refer_rate, decisions, Share("REFER"))

\* What another credit analysis would have led to: the projector replays the decision
\* that was made, or leaves it out of both replays, so that only the analysis's own
\* fields can differ ("What would the decision have been", projector.py, line 4).
\* The real replay is the real history only if nothing names the analysis as its
\* cause.
WhatIfKeepsTheRest ==
  \A a \in App :
    LET type == "CreditAnalysisCompleted"
        entries == Replayed(Entries(log, On("loan", a)), Entries(log, On("credit", a)), type)
        real == Evaluated(RealSequence(entries, type))
    IN  Indexes(entries, type) # {} =>
          /\ \A s \in Score :
               LET other == [Plain(type, a) EXCEPT !.score = s, !.confidence = s]
               IN  Divergence(real, Evaluated(CounterfactualSequence(entries, type, <<other>>)))
                     \subseteq {"risk_tier", "confidence_score"}
          /\ (\A i \in DOMAIN entries :
                 entries[i][2].cause # entries[Min(Indexes(entries, type))][1])
               => real = Evaluated(entries)

================================================================================
