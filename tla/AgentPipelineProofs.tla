--------------------------- MODULE AgentPipelineProofs ---------------------------
(***************************************************************************)
(* Proofs about AgentPipeline, for every set of runs, every plan and seed, *)
(* and any answers of the LLM and the registry.                            *)
(***************************************************************************)
EXTENDS AgentPipeline, FiniteSetTheorems, SequenceTheorems, WellFoundedInduction, TLAPS

--------------------------------------------------------------------------------

\* The two appends of the nodes write_output that hand over to another agent.
Result == [document |-> "PackageReadyForAnalysis", credit |-> "CreditAnalysisCompleted",
           fraud |-> "FraudScreeningCompleted"]
Request == [document |-> "CreditAnalysisRequested", credit |-> "FraudScreeningRequested",
            fraud |-> "ComplianceCheckRequested"]

\* The result is on its stream, signed by the run that is to make the request.
Delivered(r, type) ==
  \E j \in DOMAIN log[StreamOf(type)] :
    LET e == log[StreamOf(type)][j]
    IN  e.type = type /\ e.by = r /\ e.value # "BLOCKED"

\* The verdict a compliance run goes by is the one it has appended.
Judged(r) ==
  \E j \in DOMAIN log["compliance"] :
    LET e == log["compliance"][j]
    IN  /\ e.type = "ComplianceCheckCompleted" /\ e.by = r
        /\ e.value = found[r].verdict

Recorded(r) ==
  \A i \in DOMAIN written[r] :
    LET w == written[r][i]
        stream == log[StreamOf(w.type)]
    IN  /\ w.position \in DOMAIN stream
        /\ stream[w.position] = Event(w.type, r, ValueOf(r, w.type))

\* What a run has done by the line it is at.
RunInv(r) ==
  /\ step[r] \in {"idle", "recover", "work"} => write[r] = 1 /\ written[r] = <<>>
  /\ step[r] \in {"version", "append"} => write[r] \in DOMAIN Writes(r)
  /\ step[r] = "output" => NodeOf(r) = "write_output"
  /\ /\ step[r] \in {"version", "append"} /\ write[r] = 2
     /\ plan[r].kind \in {"document", "credit", "fraud"}
     => Delivered(r, Result[plan[r].kind])
  /\ /\ plan[r].kind = "compliance"
     /\ node[r] = 4 \/ (node[r] = 3 /\ step[r] = "record")
     => Judged(r)
  /\ Recorded(r)

\* Results carry the values their agents can find, and only the seeds are Nobody's.
Sound(e) ==
  /\ e.type = "CreditAnalysisCompleted" => e.value \in {"MEDIUM", "HIGH"}
  /\ e.type = "FraudScreeningCompleted" => e.value \in {"low", "high"}
  /\ e.type = "ComplianceCheckCompleted" =>
       e.value \in {"CLEAR", "CONDITIONAL", "BLOCKED"}
  /\ e.by = Nobody => e.type \in {"ApplicationSubmitted", "DocumentUploaded"}

SoundLog == \A s \in Streams : \A i \in DOMAIN log[s] : Sound(log[s][i])

\* A request follows the result of the run that makes it.
Justified(e) ==
  /\ e.type = "CreditAnalysisRequested" => Delivered(e.by, "PackageReadyForAnalysis")
  /\ e.type = "FraudScreeningRequested" => Delivered(e.by, "CreditAnalysisCompleted")
  /\ e.type = "ComplianceCheckRequested" => Delivered(e.by, "FraudScreeningCompleted")
  /\ e.type = "DecisionRequested" => Delivered(e.by, "ComplianceCheckCompleted")

RequestsJustified == \A i \in DOMAIN log["loan"] : Justified(log["loan"][i])

IInv ==
  /\ TypeOK
  /\ SoundLog
  /\ \A r \in Run : RunInv(r)
  /\ RequestsJustified

--------------------------------------------------------------------------------
(* The graphs and what their nodes append. *)

Kinds == {"document", "credit", "fraud", "compliance", "decision"}

LEMMA KindIs == Kind = Kinds
BY DEF Kind, Graph, Kinds

LEMMA ComplianceGraphIs ==
  LET g == Graph["compliance"]
  IN  /\ Len(g) = 4
      /\ g[3] = "evaluate_rules" /\ g[4] = "write_output"
      /\ \A i \in {1, 2, 4} : g[i] # "evaluate_rules"
      /\ \A i \in 1..3 : g[i] # "write_output"
<1>1. Graph["compliance"] =
        <<"validate_inputs", "load_company_profile", "evaluate_rules", "write_output">>
  BY DEF Graph, ComplianceGraph
<1>2. /\ Len(Graph["compliance"]) = 4
      /\ Graph["compliance"][1] = "validate_inputs"
      /\ Graph["compliance"][2] = "load_company_profile"
      /\ Graph["compliance"][3] = "evaluate_rules"
      /\ Graph["compliance"][4] = "write_output"
  BY <1>1
<1>3. \A i \in 1..3 : i = 1 \/ i = 2 \/ i = 3
  OBVIOUS
<1>4. QED
  BY <1>2, <1>3

LEMMA GraphLengths ==
  ASSUME NEW k \in Kinds
  PROVE  Len(Graph[k]) \in 1..7 /\ DOMAIN Graph[k] = 1..Len(Graph[k])
<1>1. CASE k = "document"
  BY <1>1 DEF Graph, DocumentGraph
<1>2. CASE k = "credit"
  BY <1>2 DEF Graph, CreditGraph
<1>3. CASE k = "fraud"
  BY <1>3 DEF Graph, FraudGraph
<1>4. CASE k = "compliance"
  BY <1>4 DEF Graph, ComplianceGraph
<1>5. CASE k = "decision"
  BY <1>5 DEF Graph, DecisionGraph
<1>6. QED
  BY <1>1, <1>2, <1>3, <1>4, <1>5 DEF Kinds

LEMMA PlanTyped ==
  ASSUME TypeOK, NEW r \in Run
  PROVE  /\ plan \in [Run -> Plan]
         /\ plan[r].kind \in Kinds
         /\ node[r] \in DOMAIN Graph[plan[r].kind]
         /\ NodeOf(r) \in SessionEvent
<1>1. plan \in [Run -> Plan]
  BY PipelineAssumption DEF TypeOK
<1>2. plan[r].kind \in Kinds
  BY <1>1, KindIs DEF Plan
<1>3. node[r] \in DOMAIN Graph[plan[r].kind]
  BY DEF TypeOK
<1>4. NodeOf(r) \in Range(Graph[plan[r].kind])
  BY <1>3 DEF NodeOf, Range
<1>5. QED
  BY <1>1, <1>2, <1>3, <1>4, KindIs DEF SessionEvent

DocumentEvents == {"DocumentUploaded", "DocumentFormatValidated", "ExtractionCompleted",
                   "QualityAssessmentCompleted"}
Outcomes == {"ApplicationApproved", "ApplicationDeclined", "HumanReviewRequested"}

LEMMA WritesAre ==
  ASSUME NEW r, plan[r].kind \in Kinds, NEW n
  PROVE  \/ WritesAt(r, n) = <<>> /\ ~(plan[r].kind = "compliance"
                                         /\ n \in {"evaluate_rules", "write_output"})
         \/ /\ plan[r].kind = "document"
            /\ \E t \in DocumentEvents : WritesAt(r, n) = <<t>>
         \/ /\ plan[r].kind \in {"document", "credit", "fraud"}
            /\ WritesAt(r, n) = <<Result[plan[r].kind], Request[plan[r].kind]>>
         \/ /\ plan[r].kind = "compliance" /\ n = "evaluate_rules"
            /\ WritesAt(r, n) = <<"ComplianceCheckCompleted">>
         \/ /\ plan[r].kind = "compliance" /\ n = "write_output"
            /\ WritesAt(r, n) = IF found[r].verdict = "BLOCKED"
                                THEN <<"ApplicationDeclined">> ELSE <<"DecisionRequested">>
         \/ /\ plan[r].kind = "decision"
            /\ \E t \in Outcomes : WritesAt(r, n) = <<"DecisionGenerated", t>>
<1>1. CASE plan[r].kind = "document"
  BY <1>1 DEF WritesAt, DocumentWrites, Handoff, DocumentEvents, Result, Request
<1>2. CASE plan[r].kind = "credit"
  BY <1>2 DEF WritesAt, CreditWrites, Handoff, Result, Request
<1>3. CASE plan[r].kind = "fraud"
  BY <1>3 DEF WritesAt, FraudWrites, Handoff, Result, Request
<1>4. CASE plan[r].kind = "compliance"
  BY <1>4 DEF WritesAt, ComplianceWrites
<1>5. CASE plan[r].kind = "decision"
  BY <1>5 DEF WritesAt, DecisionWrites, Outcomes
<1>6. QED
  BY <1>1, <1>2, <1>3, <1>4, <1>5 DEF Kinds

LEMMA WritesTyped ==
  ASSUME TypeOK, NEW r \in Run
  PROVE  /\ Writes(r) = <<>> \/ DOMAIN Writes(r) = {1} \/ DOMAIN Writes(r) = {1, 2}
         /\ DOMAIN Writes(r) = 1..Len(Writes(r)) /\ Len(Writes(r)) \in 0..2
         /\ \A i \in DOMAIN Writes(r) : Writes(r)[i] \in EventName
<1>1. plan[r].kind \in Kinds
  BY PlanTyped
<1>2. \/ Writes(r) = <<>>
      \/ \E t \in EventName : Writes(r) = <<t>>
      \/ \E t, u \in EventName : Writes(r) = <<t, u>>
  <2>1. /\ DocumentEvents \subseteq EventName /\ Outcomes \subseteq EventName
        /\ {"ComplianceCheckCompleted", "DecisionRequested", "DecisionGenerated",
            "ApplicationDeclined"} \subseteq EventName
        /\ \A k \in {"document", "credit", "fraud"} :
             Result[k] \in EventName /\ Request[k] \in EventName
    BY DEF DocumentEvents, Outcomes, EventName, Result, Request
  <2>2. QED
    BY <1>1, <2>1, WritesAre DEF Writes
<1>3. QED
  BY <1>2

LEMMA StreamsAre == \A type : StreamOf(type) \in Streams
BY DEF StreamOf, Streams, PackageEvents

\* A batch ends with the event it is made for.
LEMMA BatchIs ==
  ASSUME TypeOK, NEW r \in Run, NEW type \in EventName
  PROVE  LET b == Batch(r, type)
             e == Event(type, r, ValueOf(r, type))
         IN  /\ e \in EventType
             /\ b \in Seq(EventType) /\ Len(b) \in 1..2 /\ b[Len(b)] = e
             /\ \A i \in DOMAIN b : b[i] = e \/ (b[i].type \in OpeningName /\ b[i].by = r)
<1> DEFINE e == Event(type, r, ValueOf(r, type))
<1>1. e \in EventType
  <2>1. found[r] \in Finding
    BY DEF TypeOK
  <2>2. ValueOf(r, type) \in Value
    BY <2>1 DEF ValueOf, Finding, Value
  <2>3. QED
    BY <2>2 DEF Event, EventType
<1>2. \A t \in OpeningName : Event(t, r, "none") \in EventType
  BY DEF Event, EventType, Value
<1>3. DOMAIN Opener = {"credit", "fraud", "compliance"}
      /\ \A s \in {"credit", "fraud", "compliance"} : Opener[s] \in OpeningName
  BY DEF Opener, OpeningName
<1>4. \/ Batch(r, type) = Append(<<>>, e)
      \/ \E t \in OpeningName : Batch(r, type) = Append(<<Event(t, r, "none")>>, e)
  BY <1>3 DEF Batch, OpeningName
<1>5. CASE Batch(r, type) = Append(<<>>, e)
  BY <1>1, <1>5
<1>6. CASE \E t \in OpeningName : Batch(r, type) = Append(<<Event(t, r, "none")>>, e)
  <2>1. PICK t \in OpeningName : Batch(r, type) = Append(<<Event(t, r, "none")>>, e)
    BY <1>6
  <2>2. /\ Batch(r, type) \in Seq(EventType) /\ Len(Batch(r, type)) = 2
        /\ Batch(r, type)[1] = Event(t, r, "none") /\ Batch(r, type)[2] = e
    BY <1>1, <1>2, <2>1
  <2>3. Event(t, r, "none").type \in OpeningName /\ Event(t, r, "none").by = r
    BY DEF Event
  <2>4. DOMAIN Batch(r, type) = 1..2
    BY <2>2
  <2>5. \A i \in 1..2 : i = 1 \/ i = 2
    OBVIOUS
  <2> HIDE DEF e
  <2>6. \A i \in DOMAIN Batch(r, type) :
          Batch(r, type)[i] = e
            \/ (Batch(r, type)[i].type \in OpeningName /\ Batch(r, type)[i].by = r)
    BY <2>2, <2>3, <2>4, <2>5
  <2>7. QED
    BY <1>1, <2>2, <2>6 DEF e
<1>7. QED
  BY <1>1, <1>4, <1>5, <1>6

--------------------------------------------------------------------------------
(* What one step leaves of the rest. *)

\* Nothing of the old stream is changed or lost in the new one.
Kept(old, new) ==
  /\ DOMAIN old \subseteq DOMAIN new
  /\ \A i \in DOMAIN old : new[i] = old[i]

LogKept == \A s \in Streams : Kept(log[s], log'[s])

LocalsOf(r) == <<step[r], node[r], write[r], found[r], written[r]>>

LEMMA WritesSame ==
  ASSUME NEW q, NEW n, plan' = plan, found'[q] = found[q]
  PROVE  WritesAt(q, n)' = WritesAt(q, n)
BY DEF WritesAt, ComplianceWrites, DecisionWrites

LEMMA ValueSame ==
  ASSUME NEW q, NEW type, found'[q] = found[q]
  PROVE  ValueOf(q, type)' = ValueOf(q, type)
BY DEF ValueOf

LEMMA DeliveredKept ==
  ASSUME NEW q, LogKept
  PROVE  /\ \A type : Delivered(q, type) => Delivered(q, type)'
         /\ found'[q] = found[q] => (Judged(q) => Judged(q)')
         /\ found'[q] = found[q] /\ written'[q] = written[q] => (Recorded(q) => Recorded(q)')
<1>1. \A type : StreamOf(type) \in Streams /\ StreamOf(type)' = StreamOf(type)
  BY StreamsAre DEF StreamOf, PackageEvents
<1>2. \A type : Kept(log[StreamOf(type)], log'[StreamOf(type)])
  BY <1>1 DEF LogKept
<1>3. \A type : Delivered(q, type) => Delivered(q, type)'
  BY <1>1, <1>2 DEF Kept, Delivered
<1>4. "compliance" \in Streams
  BY DEF Streams
<1>5. found'[q] = found[q] => (Judged(q) => Judged(q)')
  BY <1>4 DEF LogKept, Kept, Judged
<1>6. found'[q] = found[q] /\ written'[q] = written[q] => (Recorded(q) => Recorded(q)')
  <2> SUFFICES ASSUME found'[q] = found[q], written'[q] = written[q], Recorded(q),
                      NEW i \in DOMAIN written[q]
               PROVE  LET w == written[q][i]
                      IN  /\ w.position \in DOMAIN log'[StreamOf(w.type)]
                          /\ log'[StreamOf(w.type)][w.position]
                               = Event(w.type, q, ValueOf(q, w.type)')
    BY <1>1 DEF Recorded, Event
  <2>1. ValueOf(q, written[q][i].type)' = ValueOf(q, written[q][i].type)
    BY ValueSame
  <2>2. QED
    BY <1>2, <2>1 DEF Kept, Recorded
<1>7. QED
  BY <1>3, <1>5, <1>6

LEMMA OthersKeep ==
  ASSUME IInv, NEW q \in Run, plan' = plan, LogKept, UNCHANGED LocalsOf(q)
  PROVE  RunInv(q)'
<1>1. RunInv(q)
  BY DEF IInv
<1>2. Writes(q)' = Writes(q) /\ NodeOf(q)' = NodeOf(q)
  <2>1. NodeOf(q)' = NodeOf(q)
    BY DEF NodeOf, LocalsOf
  <2>2. WritesAt(q, NodeOf(q))' = WritesAt(q, NodeOf(q))
    BY <2>1, WritesSame DEF LocalsOf
  <2>3. QED
    BY <2>1, <2>2 DEF Writes
<1>3. \A type : Delivered(q, type) => Delivered(q, type)'
  BY DeliveredKept
<1>4. (Judged(q) => Judged(q)') /\ (Recorded(q) => Recorded(q)')
  BY DeliveredKept DEF LocalsOf
<1>5. \A k : Result[k]' = Result[k]
  BY DEF Result
<1>6. QED
  BY <1>1, <1>2, <1>3, <1>4, <1>5 DEF RunInv, LocalsOf

\* A step that appends nothing.
LEMMA Unwritten ==
  ASSUME IInv, NEW r \in Run, UNCHANGED <<plan, log>>, TypeOK', RunInv(r)',
         \A q \in Run \ {r} : UNCHANGED LocalsOf(q)
  PROVE  IInv'
<1>1. LogKept
  BY DEF LogKept, Kept
<1>2. \A q \in Run \ {r} : RunInv(q)'
  BY <1>1, OthersKeep
<1>3. SoundLog'
  BY DEF IInv, SoundLog, Sound
<1>4. RequestsJustified'
  <2>1. \A q, type : Delivered(q, type) => Delivered(q, type)'
    BY <1>1, DeliveredKept
  <2>2. QED
    BY <2>1 DEF IInv, RequestsJustified, Justified
<1>5. QED
  BY <1>2, <1>3, <1>4 DEF IInv

--------------------------------------------------------------------------------
(* What a node can come to know. *)

\* A set of positions that is not empty has a last one.
LEMMA LastPosition ==
  ASSUME NEW n \in Nat, NEW S, S \subseteq 1..n, S # {}
  PROVE  Max(S) \in S
<1> DEFINE T == {n - i : i \in S}
<1> DEFINE R == OpToRel(<, Nat)
<1>1. T \subseteq Nat
  <2>1. \A i \in S : i \in 1..n /\ n - i \in Nat
    OBVIOUS
  <2>2. QED
    BY <2>1
<1>2. T # {}
  OBVIOUS
<1>3. PICK m \in T : \A k \in T : ~ (<<k, m>> \in R)
  <2> HIDE DEF T
  <2>1. IsWellFoundedOn(R, Nat)
    BY NatLessThanWellFounded
  <2> HIDE DEF R
  <2>2. QED
    BY <1>1, <1>2, <2>1, WFMin
<1>4. \A k, l \in Nat : <<k, l>> \in R <=> k < l
  BY DEF OpToRel
<1>5. \A k \in T : m <= k
  <2> HIDE DEF R, T
  <2>1. TAKE k \in T
  <2>2. k \in Nat /\ m \in Nat
    BY <1>1
  <2>3. ~(k < m)
    BY <2>2, <1>3, <1>4
  <2>4. QED
    BY <2>2, <2>3
<1>6. PICK i \in S : m = n - i
  OBVIOUS
<1>7. \A j \in S : i >= j
  BY <1>5, <1>6
<1>8. QED
  BY <1>7 DEF Max

LEMMA LatestAt ==
  ASSUME IInv, NEW type, Has(log[StreamOf(type)], type)
  PROVE  \E i \in DOMAIN log[StreamOf(type)] :
           /\ log[StreamOf(type)][i] = Latest(type)
           /\ log[StreamOf(type)][i].type = type
<1> DEFINE s == log[StreamOf(type)]
           P == {i \in DOMAIN s : s[i].type = type}
<1>1. s \in Seq(EventType)
  BY StreamsAre DEF IInv, TypeOK
<1>2. Len(s) \in Nat /\ P \subseteq 1..Len(s) /\ P # {}
  BY <1>1 DEF Has
<1>3. Max(P) \in P
  BY <1>2, LastPosition
<1>4. Latest(type) = s[Max(P)]
  BY DEF Latest
<1>5. QED
  BY <1>3, <1>4

LEMMA LatestIs ==
  ASSUME IInv, NEW type, Has(log[StreamOf(type)], type)
  PROVE  Latest(type) \in EventType /\ Latest(type).type = type /\ Sound(Latest(type))
<1> DEFINE s == log[StreamOf(type)]
<1>1. StreamOf(type) \in Streams /\ s \in Seq(EventType)
  BY StreamsAre DEF IInv, TypeOK
<1>2. PICK i \in DOMAIN s : s[i] = Latest(type) /\ s[i].type = type
  BY LatestAt
<1>3. Sound(s[i])
  BY <1>1 DEF IInv, SoundLog
<1> HIDE DEF s
<1>4. s[i] \in EventType
  BY <1>1
<1>5. QED
  BY <1>2, <1>3, <1>4

\* The orchestrator reads the results of runs.
LEMMA NeedsRead ==
  ASSUME IInv, NEW r \in Run, Satisfied(r), NodeOf(r) \in DOMAIN Needs \ {"validate_inputs"}
  PROVE  /\ NodeOf(r) = "load_credit_result" =>
              Latest(Needs[NodeOf(r)]).value \in {"MEDIUM", "HIGH"}
         /\ NodeOf(r) = "load_fraud_result" =>
              Latest(Needs[NodeOf(r)]).value \in {"low", "high"}
         /\ NodeOf(r) = "load_compliance_result" =>
              Latest(Needs[NodeOf(r)]).value \in {"CLEAR", "CONDITIONAL", "BLOCKED"}
         /\ Latest(Needs[NodeOf(r)]).by \in Run
<1> DEFINE type == Needs[NodeOf(r)]
<1>1. /\ NodeOf(r) = "load_credit_result" => type = "CreditAnalysisCompleted"
      /\ NodeOf(r) = "load_fraud_result" => type = "FraudScreeningCompleted"
      /\ NodeOf(r) = "load_compliance_result" => type = "ComplianceCheckCompleted"
      /\ NodeOf(r) \in {"load_credit_result", "load_fraud_result", "load_compliance_result"}
  BY DEF Needs
<1>2. /\ Latest(type) \in EventType /\ Latest(type).type = type /\ Sound(Latest(type))
  BY LatestIs DEF Satisfied
<1>3. QED
  BY <1>1, <1>2 DEF Sound, EventType

LEMMA FindingsTyped ==
  ASSUME IInv, NEW r \in Run, Satisfied(r), NEW f \in Findings(r)
  PROVE  /\ f \in Finding
         /\ NodeOf(r) = "write_output" => f = found[r]
<1> DEFINE n == NodeOf(r)
<1>1. found[r] \in Finding
  BY DEF IInv, TypeOK
<1>2. CASE n = "analyze_credit_risk"
  BY <1>1, <1>2 DEF Findings, Evaluated, Synthesized, Finding
<1>3. CASE n = "analyze_fraud_patterns"
  BY <1>1, <1>3 DEF Findings, Evaluated, Synthesized, Finding
<1>4. CASE n = "evaluate_rules"
  <2>1. \A failing : Verdict(failing) \in {"CLEAR", "CONDITIONAL", "BLOCKED"}
    BY DEF Verdict
  <2>2. PICK failing : f = [found[r] EXCEPT !.verdict = Verdict(failing)]
    BY <1>4 DEF Findings, Evaluated, Synthesized
  <2>3. QED
    BY <1>1, <1>4, <2>1, <2>2 DEF Finding
<1>5. CASE n \in {"load_credit_result", "load_fraud_result", "load_compliance_result"}
  <2>1. n \in DOMAIN Needs \ {"validate_inputs"}
    BY <1>5 DEF Needs
  <2>2. CASE n = "load_credit_result"
    <3>1. Latest(Needs[n]).value \in {"MEDIUM", "HIGH"}
      BY <2>1, <2>2, NeedsRead
    <3>2. f = [found[r] EXCEPT !.tier = Latest(Needs[n]).value]
      BY <2>2 DEF Findings, Evaluated, Synthesized
    <3>3. QED
      BY <1>1, <2>2, <3>1, <3>2 DEF Finding
  <2>3. CASE n = "load_fraud_result"
    <3>1. Latest(Needs[n]).value \in {"low", "high"}
      BY <2>1, <2>3, NeedsRead
    <3>2. f = [found[r] EXCEPT !.score = Latest(Needs[n]).value]
      BY <2>3 DEF Findings, Evaluated, Synthesized
    <3>3. QED
      BY <1>1, <2>3, <3>1, <3>2 DEF Finding
  <2>4. CASE n = "load_compliance_result"
    <3>1. Latest(Needs[n]).value \in {"CLEAR", "CONDITIONAL", "BLOCKED"}
      BY <2>1, <2>4, NeedsRead
    <3>2. f = [found[r] EXCEPT !.verdict = Latest(Needs[n]).value]
      BY <2>4 DEF Findings, Evaluated, Synthesized
    <3>3. QED
      BY <1>1, <2>4, <3>1, <3>2 DEF Finding
  <2>5. QED
    BY <1>5, <2>2, <2>3, <2>4
<1>6. CASE n = "synthesize_decision"
  <2>1. PICK x \in {"APPROVE", "DECLINE", "REFER", "OTHER"}, c \in {"low", "middle", "high"} :
          f = [found[r] EXCEPT !.recommendation = x, !.confidence = c]
    BY <1>6 DEF Findings, Evaluated, Synthesized
  <2>2. QED
    BY <1>1, <1>6, <2>1 DEF Finding
<1>7. CASE n = "apply_hard_constraints"
  <2>1. Constrained(found[r]) \in {"APPROVE", "DECLINE", "REFER", "OTHER"}
    BY <1>1 DEF Constrained, Finding
  <2>2. f = [found[r] EXCEPT !.recommendation = Constrained(found[r])]
    BY <1>7 DEF Findings, Evaluated, Synthesized
  <2>3. QED
    BY <1>1, <1>7, <2>1, <2>2 DEF Finding
<1>8. CASE n \notin {"analyze_credit_risk", "analyze_fraud_patterns", "evaluate_rules",
                     "load_credit_result", "load_fraud_result", "load_compliance_result",
                     "synthesize_decision", "apply_hard_constraints"}
  BY <1>1, <1>8 DEF Findings, Evaluated, Synthesized
<1>9. QED
  BY <1>2, <1>3, <1>4, <1>5, <1>6, <1>7, <1>8

--------------------------------------------------------------------------------
(* The steps of a run. *)

LEMMA ToldTyped ==
  ASSUME TypeOK, NEW r \in Run, NEW entry \in SessionEvent, Tell(r, entry)
  PROVE  session' \in [Run -> Seq(SessionEvent)]
BY DEF TypeOK, Tell

LEMMA EndingEvents ==
  {"AgentSessionStarted", "AgentSessionRecovered", "AgentOutputWritten",
   "AgentSessionCompleted", "AgentSessionFailed"} \subseteq SessionEvent
BY DEF SessionEvent

LEMMA Labels ==
  {"idle", "recover", "work", "version", "append", "output", "record", "complete",
   "done", "failed", "crashed"} \subseteq Step
BY DEF Step, Ended

\* A step after which the run is at another line, having changed nothing else.
LEMMA LineStep ==
  ASSUME IInv, NEW r \in Run, NEW label \in Step, GoTo(r, label),
         session' \in [Run -> Seq(SessionEvent)],
         UNCHANGED <<plan, log, node, write, attempt, expected, found, source, written>>,
         RunInv(r)'
  PROVE  IInv'
<1>1. step' \in [Run -> Step] /\ \A q \in Run \ {r} : step'[q] = step[q]
  BY DEF GoTo, IInv, TypeOK
<1>2. TypeOK'
  BY <1>1 DEF IInv, TypeOK
<1>3. \A q \in Run \ {r} : UNCHANGED LocalsOf(q)
  BY <1>1 DEF LocalsOf
<1>4. QED
  BY <1>2, <1>3, Unwritten

\* What RunInv says of a run that only moves to another line.
LEMMA LineInv ==
  ASSUME IInv, NEW r \in Run, NEW label \in Step, GoTo(r, label),
         UNCHANGED <<plan, log, node, write, found, written>>,
         \/ label \notin {"idle", "recover", "work", "version", "append", "output", "record"}
         \/ step[r] \in {"idle", "recover"} /\ label \in {"recover", "work"}
         \/ step[r] = "append" /\ label = "version"
         \/ step[r] = "version" /\ label = "append"
         \/ step[r] = "output" /\ label = "record" /\ NodeOf(r) = "write_output"
  PROVE  RunInv(r)'
<1>1. RunInv(r) /\ step'[r] = label
  BY DEF IInv, TypeOK, GoTo
<1>2. Writes(r)' = Writes(r) /\ NodeOf(r)' = NodeOf(r)
  BY WritesSame DEF Writes, NodeOf
<1>3. LogKept
  BY DEF LogKept, Kept
<1>4. /\ \A type : Delivered(r, type) => Delivered(r, type)'
      /\ Judged(r) => Judged(r)'
      /\ Recorded(r) => Recorded(r)'
  BY <1>3, DeliveredKept
<1>5. plan[r].kind = "compliance" /\ NodeOf(r) = "write_output" => node[r] # 3
  BY ComplianceGraphIs DEF NodeOf
<1>6. \A k : Result[k]' = Result[k]
  BY DEF Result
<1>7. QED
  BY <1>1, <1>2, <1>4, <1>5, <1>6 DEF RunInv

LEMMA StartStep ==
  ASSUME IInv, NEW r \in Run, Start(r)
  PROVE  IInv'
<1>1. session' \in [Run -> Seq(SessionEvent)]
  BY ToldTyped, EndingEvents DEF Start, IInv
<1>2. RunInv(r)'
  BY LineInv, Labels DEF Start
<1>3. QED
  BY <1>1, <1>2, LineStep, Labels DEF Start

LEMMA RecoverStep ==
  ASSUME IInv, NEW r \in Run, Recover(r)
  PROVE  IInv'
<1>1. session' \in [Run -> Seq(SessionEvent)]
  BY ToldTyped, EndingEvents DEF Recover, IInv
<1>2. RunInv(r)'
  BY LineInv, Labels DEF Recover
<1>3. QED
  BY <1>1, <1>2, LineStep, Labels DEF Recover

\* On to the next node, or to the end of the graph.
LEMMA RecordStep ==
  ASSUME IInv, NEW r \in Run, Record(r), UNCHANGED <<plan, log, expected, attempt>>,
         found' \in [Run -> Finding], \A q \in Run \ {r} : found'[q] = found[q],
         source' \in [Run -> SUBSET Run],
         found' = found \/ written[r] = <<>>,
         plan[r].kind = "compliance" => node[r] \in {1, 2} \/ (Judged(r) /\ found' = found)
  PROVE  IInv'
<1> DEFINE size == Len(Graph[plan[r].kind])
           last == node[r] = size
<1>1. /\ plan[r].kind \in Kinds /\ size \in 1..7 /\ node[r] \in 1..size
      /\ DOMAIN Graph[plan[r].kind] = 1..size
      /\ NodeOf(r) \in SessionEvent
  BY PlanTyped, GraphLengths DEF IInv
<1>2. session' \in [Run -> Seq(SessionEvent)]
  BY <1>1, ToldTyped DEF Record, IInv
<1>3. /\ step' \in [Run -> Step]
      /\ step'[r] = IF last THEN "complete" ELSE "work"
      /\ \A q \in Run \ {r} : step'[q] = step[q]
  BY Labels DEF Record, GoTo, IInv, TypeOK
<1>4. /\ node' \in [Run -> Nat]
      /\ node'[r] = IF last THEN node[r] ELSE node[r] + 1
      /\ \A q \in Run \ {r} : node'[q] = node[q]
  BY DEF Record, IInv, TypeOK
<1>5. /\ write' \in [Run -> 1..2] /\ write'[r] = 1
      /\ \A q \in Run \ {r} : write'[q] = write[q]
  BY DEF Record, IInv, TypeOK
<1>6. /\ written' \in [Run -> Seq([type : EventName, position : Nat])]
      /\ written'[r] = IF last THEN written[r] ELSE <<>>
      /\ \A q \in Run \ {r} : written'[q] = written[q]
  <2>1. written \in [Run -> Seq([type : EventName, position : Nat])]
    BY DEF IInv, TypeOK
  <2>2. <<>> \in Seq([type : EventName, position : Nat])
    OBVIOUS
  <2>3. written' = IF last THEN written ELSE [written EXCEPT ![r] = <<>>]
    BY DEF Record
  <2>4. QED
    BY <2>1, <2>2, <2>3
<1>7. \A q \in Run : node'[q] \in DOMAIN Graph[plan[q].kind]
  <2>1. node'[r] \in 1..size
    BY <1>1, <1>4
  <2>2. QED
    BY <1>1, <1>4, <2>1 DEF IInv, TypeOK
<1>8. TypeOK'
  BY <1>2, <1>3, <1>4, <1>5, <1>6, <1>7 DEF IInv, TypeOK
<1>9. LogKept
  BY DEF LogKept, Kept
<1>10. plan[r].kind = "compliance" /\ node'[r] \in {3, 4} =>
         \/ node'[r] = 3 /\ step'[r] = "work"
         \/ Judged(r) /\ found' = found
  BY <1>1, <1>3, <1>4, ComplianceGraphIs
<1>11. Judged(r) /\ found' = found => Judged(r)'
  BY <1>9, DeliveredKept
<1>12. Recorded(r)'
  <2>1. CASE written'[r] = <<>>
    BY <2>1 DEF Recorded
  <2>2. CASE written'[r] # <<>>
    <3>1. found' = found /\ written'[r] = written[r]
      BY <1>6, <2>2
    <3>2. QED
      BY <1>9, <3>1, DeliveredKept DEF IInv, RunInv
  <2>3. QED
    BY <2>1, <2>2
<1>13. RunInv(r)'
  BY <1>3, <1>5, <1>6, <1>10, <1>11, <1>12 DEF RunInv
<1>14. \A q \in Run \ {r} : UNCHANGED LocalsOf(q)
  BY <1>3, <1>4, <1>5, <1>6 DEF LocalsOf
<1>15. QED
  BY <1>8, <1>13, <1>14, Unwritten

\* Where the nodes of the compliance agent are.
LEMMA ComplianceNodes ==
  ASSUME IInv, NEW r \in Run, plan[r].kind = "compliance"
  PROVE  /\ node[r] \in 1..4
         /\ NodeOf(r) = "evaluate_rules" <=> node[r] = 3
         /\ NodeOf(r) = "write_output" <=> node[r] = 4
<1>1. DOMAIN Graph["compliance"] = 1..4
  BY GraphLengths, ComplianceGraphIs DEF Kinds
<1>2. node[r] \in 1..4
  BY <1>1, PlanTyped DEF IInv
<1>3. QED
  BY <1>2, ComplianceGraphIs DEF NodeOf

LEMMA InvestigateStep ==
  ASSUME IInv, NEW r \in Run, Investigate(r)
  PROVE  IInv'
<1>1. PICK f \in Findings(r) : found' = [found EXCEPT ![r] = f]
  BY DEF Investigate
<1>2. f \in Finding /\ (NodeOf(r) = "write_output" => f = found[r])
  BY FindingsTyped DEF Investigate
<1>3. /\ found' \in [Run -> Finding]
      /\ \A q \in Run \ {r} : found'[q] = found[q]
  BY <1>1, <1>2 DEF IInv, TypeOK
<1>4. source' \in [Run -> SUBSET Run]
  <2>1. NodeOf(r) \in DOMAIN Needs \ {"validate_inputs"} => Latest(Needs[NodeOf(r)]).by \in Run
    BY NeedsRead DEF Investigate
  <2>2. QED
    BY <2>1 DEF Investigate, IInv, TypeOK
<1>5. plan[r].kind = "compliance" => node[r] \in {1, 2}
  <2> SUFFICES ASSUME plan[r].kind = "compliance" PROVE node[r] \in {1, 2}
    OBVIOUS
  <2>1. Writes(r) = <<>>
    BY DEF Investigate, Uploaded
  <2>2. NodeOf(r) \notin {"evaluate_rules", "write_output"}
    BY <2>1, WritesAre DEF Writes, Kinds
  <2>3. QED
    BY <2>2, ComplianceNodes
<1>6. written[r] = <<>>
  BY DEF Investigate, IInv, RunInv
<1>7. QED
  BY <1>3, <1>4, <1>5, <1>6, RecordStep DEF Investigate

LEMMA BeginWritingStep ==
  ASSUME IInv, NEW r \in Run, BeginWriting(r)
  PROVE  IInv'
<1>1. PICK f \in Findings(r) : found' = [found EXCEPT ![r] = f]
  BY DEF BeginWriting
<1>2. f \in Finding /\ (NodeOf(r) = "write_output" => f = found[r])
  BY FindingsTyped DEF BeginWriting
<1>3. /\ found' \in [Run -> Finding]
      /\ found'[r] = f /\ \A q \in Run \ {r} : found'[q] = found[q]
  BY <1>1, <1>2 DEF IInv, TypeOK
<1>4. /\ step' \in [Run -> Step] /\ step'[r] = "version"
      /\ \A q \in Run \ {r} : step'[q] = step[q]
  BY Labels DEF BeginWriting, GoTo, IInv, TypeOK
<1>5. TypeOK'
  BY <1>3, <1>4 DEF BeginWriting, IInv, TypeOK
<1>6. RunInv(r)'
  <2>1. write'[r] = 1 /\ written'[r] = <<>> /\ node'[r] = node[r]
    BY DEF BeginWriting, IInv, RunInv
  <2>2. write'[r] \in DOMAIN Writes(r)'
    <3>1. DOMAIN Writes(r)' # {}
      <4>1. Writes(r) # <<>> /\ plan' = plan /\ NodeOf(r)' = NodeOf(r)
        BY DEF BeginWriting, NodeOf
      <4>2. WritesAt(r, NodeOf(r)) # <<>> => WritesAt(r, NodeOf(r))' # <<>>
        <5>1. plan[r].kind \in Kinds
          BY PlanTyped DEF IInv
        <5>2. CASE plan[r].kind \in {"document", "credit", "fraud"}
          BY <4>1, <5>2 DEF WritesAt, ComplianceWrites, DecisionWrites
        <5>3. CASE plan[r].kind = "compliance"
          BY <4>1, <5>3 DEF WritesAt, ComplianceWrites, DecisionWrites
        <5>4. CASE plan[r].kind = "decision"
          BY <4>1, <5>4 DEF WritesAt, ComplianceWrites, DecisionWrites
        <5>5. QED
          BY <5>1, <5>2, <5>3, <5>4 DEF Kinds
      <4>3. Writes(r)' # <<>>
        BY <4>1, <4>2 DEF Writes
      <4>4. QED
        BY <1>5, <4>3, WritesTyped
    <3>2. QED
      BY <1>5, <2>1, <3>1, WritesTyped
  <2>3. Recorded(r)'
    BY <2>1 DEF Recorded
  <2>4. plan[r].kind = "compliance" /\ node[r] = 4 => Judged(r)'
    <3>1. plan[r].kind = "compliance" /\ node[r] = 4 => Judged(r) /\ found'[r] = found[r]
      BY <1>2, <1>3, ComplianceNodes DEF IInv, RunInv
    <3>2. QED
      BY <3>1 DEF BeginWriting, Judged
  <2>5. QED
    BY <1>4, <2>1, <2>2, <2>3, <2>4 DEF RunInv, BeginWriting
<1>7. \A q \in Run \ {r} : UNCHANGED LocalsOf(q)
  BY <1>3, <1>4 DEF LocalsOf, BeginWriting
<1>8. QED
  BY <1>5, <1>6, <1>7, Unwritten DEF BeginWriting

LEMMA ReadVersionStep ==
  ASSUME IInv, NEW r \in Run, ReadVersion(r)
  PROVE  IInv'
<1> DEFINE stream == StreamOf(Writes(r)[write[r]])
<1>1. step' \in [Run -> Step] /\ \A q \in Run \ {r} : step'[q] = step[q]
  BY Labels DEF ReadVersion, GoTo, IInv, TypeOK
<1>2. expected' \in [Run -> Nat \cup {AnyVersion}]
  <2>1. Len(log[stream]) \in Nat
    BY StreamsAre DEF IInv, TypeOK
  <2>2. QED
    BY <2>1 DEF ReadVersion, IInv, TypeOK
<1>3. TypeOK'
  BY <1>1, <1>2 DEF ReadVersion, IInv, TypeOK
<1>4. RunInv(r)'
  BY LineInv, Labels DEF ReadVersion
<1>5. \A q \in Run \ {r} : UNCHANGED LocalsOf(q)
  BY <1>1 DEF LocalsOf, ReadVersion
<1>6. QED
  BY <1>3, <1>4, <1>5, Unwritten DEF ReadVersion

LEMMA GiveUpStep ==
  ASSUME IInv, NEW r \in Run, GiveUp(r),
         UNCHANGED <<plan, log, node, write, attempt, expected, found, source, written>>
  PROVE  IInv'
<1>1. RunInv(r)'
  BY LineInv, Labels DEF GiveUp
<1>2. session' \in [Run -> Seq(SessionEvent)]
  BY ToldTyped, EndingEvents DEF GiveUp, IInv
<1>3. QED
  BY <1>1, <1>2, LineStep, Labels DEF GiveUp

LEMMA ConflictStep ==
  ASSUME IInv, NEW r \in Run, Conflict(r)
  PROVE  IInv'
<1>1. CASE ~MayRetry(r) /\ GiveUp(r) /\ UNCHANGED attempt
  BY <1>1, GiveUpStep DEF Conflict
<1>2. CASE /\ MayRetry(r)
           /\ attempt' = [attempt EXCEPT ![r] = @ + 1]
           /\ GoTo(r, "version")
           /\ UNCHANGED session
  <2>1. step' \in [Run -> Step] /\ \A q \in Run \ {r} : step'[q] = step[q]
    BY <1>2, Labels DEF GoTo, IInv, TypeOK
  <2>2. attempt' \in [Run -> 1..MaxAttempts]
    BY <1>2, PipelineAssumption DEF MayRetry, IInv, TypeOK
  <2>3. TypeOK'
    BY <1>2, <2>1, <2>2 DEF Conflict, IInv, TypeOK
  <2>4. RunInv(r)'
    BY <1>2, LineInv, Labels DEF Conflict
  <2>5. \A q \in Run \ {r} : UNCHANGED LocalsOf(q)
    BY <2>1 DEF LocalsOf, Conflict
  <2>6. QED
    BY <2>3, <2>4, <2>5, Unwritten DEF Conflict
<1>3. QED
  BY <1>1, <1>2 DEF Conflict

LEMMA RecordOutputStep ==
  ASSUME IInv, NEW r \in Run, RecordOutput(r)
  PROVE  IInv'
<1>1. NodeOf(r) = "write_output"
  BY DEF RecordOutput, IInv, RunInv
<1>2. RunInv(r)'
  BY <1>1, LineInv, Labels DEF RecordOutput
<1>3. session' \in [Run -> Seq(SessionEvent)]
  BY ToldTyped, EndingEvents DEF RecordOutput, IInv
<1>4. QED
  BY <1>2, <1>3, LineStep, Labels DEF RecordOutput

LEMMA RecordNodeStep ==
  ASSUME IInv, NEW r \in Run, RecordNode(r)
  PROVE  IInv'
<1>1. plan[r].kind = "compliance" => node[r] \in {1, 2} \/ Judged(r)
  <2>1. plan[r].kind = "compliance" => node[r] \in {1, 2, 3, 4}
    BY ComplianceNodes
  <2>2. QED
    BY <2>1 DEF RecordNode, IInv, RunInv
<1>2. found' \in [Run -> Finding] /\ source' \in [Run -> SUBSET Run] /\ found' = found
  BY DEF RecordNode, IInv, TypeOK
<1>3. QED
  BY <1>1, <1>2, RecordStep DEF RecordNode

LEMMA CompleteSessionStep ==
  ASSUME IInv, NEW r \in Run, CompleteSession(r)
  PROVE  IInv'
<1>1. RunInv(r)'
  BY LineInv, Labels DEF CompleteSession
<1>2. session' \in [Run -> Seq(SessionEvent)]
  BY ToldTyped, EndingEvents DEF CompleteSession, IInv
<1>3. QED
  BY <1>1, <1>2, LineStep, Labels DEF CompleteSession

LEMMA RaiseStep ==
  ASSUME IInv, NEW r \in Run, RaiseMissing(r) \/ RaiseOther(r)
  PROVE  IInv'
<1>1. CASE GiveUp(r)
  BY <1>1, GiveUpStep DEF RaiseMissing, RaiseOther
<1>2. CASE GoTo(r, "crashed") /\ UNCHANGED session
  <2>1. UNCHANGED <<plan, log, node, write, attempt, expected, found, source, written>>
    BY DEF RaiseMissing, RaiseOther
  <2>2. RunInv(r)'
    BY <1>2, <2>1, LineInv, Labels
  <2>3. session' \in [Run -> Seq(SessionEvent)]
    BY <1>2 DEF IInv, TypeOK
  <2>4. QED
    BY <1>2, <2>1, <2>2, <2>3, LineStep, Labels
<1>3. QED
  BY <1>1, <1>2 DEF RaiseMissing, RaiseOther

\* The batch an append adds to the stream of its event.
LEMMA AppendedLog ==
  ASSUME IInv, NEW r \in Run, AppendBatch(r)
  PROVE  LET type == Writes(r)[write[r]]
             stream == StreamOf(type)
             e == Event(type, r, ValueOf(r, type))
         IN  /\ type \in EventName /\ stream \in Streams
             /\ log' \in [Streams -> Seq(EventType)] /\ LogKept
             /\ NewVersion(r, type) \in DOMAIN log'[stream]
             /\ log'[stream][NewVersion(r, type)] = e
             /\ \A s \in Streams : \A i \in DOMAIN log'[s] :
                  \/ i \in DOMAIN log[s] /\ log'[s][i] = log[s][i]
                  \/ s = stream /\ log'[s][i] = e
                  \/ log'[s][i].type \in OpeningName /\ log'[s][i].by = r
<1> DEFINE type == Writes(r)[write[r]]
           stream == StreamOf(type)
           e == Event(type, r, ValueOf(r, type))
           b == Batch(r, type)
<1>1. type \in EventName
  <2>1. write[r] \in DOMAIN Writes(r)
    BY DEF IInv, RunInv, AppendBatch
  <2>2. QED
    BY <2>1, WritesTyped DEF IInv
<1>2. stream \in Streams /\ log \in [Streams -> Seq(EventType)]
  BY StreamsAre DEF IInv, TypeOK
<1>3. /\ b \in Seq(EventType) /\ Len(b) \in 1..2 /\ b[Len(b)] = e
      /\ \A i \in DOMAIN b : b[i] = e \/ (b[i].type \in OpeningName /\ b[i].by = r)
  BY <1>1, BatchIs DEF IInv
<1>4. /\ log'[stream] = log[stream] \o b
      /\ \A s \in Streams \ {stream} : log'[s] = log[s]
      /\ log' = [log EXCEPT ![stream] = log[stream] \o b]
  BY <1>2 DEF AppendBatch
<1>5. NewVersion(r, type) = Len(log[stream]) + Len(b)
  BY DEF NewVersion
<1> HIDE DEF type, stream, e, b
<1>6. /\ log[stream] \o b \in Seq(EventType)
      /\ Len(log[stream] \o b) = Len(log[stream]) + Len(b)
      /\ \A i \in 1..Len(log[stream]) + Len(b) :
           (log[stream] \o b)[i] =
             IF i <= Len(log[stream]) THEN log[stream][i] ELSE b[i - Len(log[stream])]
  BY <1>2, <1>3, ConcatProperties
<1>7. /\ Len(log[stream]) \in Nat /\ DOMAIN log[stream] = 1..Len(log[stream])
      /\ DOMAIN b = 1..Len(b)
      /\ DOMAIN log'[stream] = 1..(Len(log[stream]) + Len(b))
  BY <1>2, <1>3, <1>4, <1>6
<1>8. log' \in [Streams -> Seq(EventType)]
  BY <1>2, <1>4, <1>6
<1>9. Kept(log[stream], log'[stream])
  BY <1>3, <1>4, <1>6, <1>7 DEF Kept
<1>10. LogKept
  BY <1>4, <1>9 DEF LogKept, Kept
<1>11. /\ NewVersion(r, type) \in DOMAIN log'[stream]
       /\ log'[stream][NewVersion(r, type)] = e
  <2>1. NewVersion(r, type) \in 1..Len(log[stream]) + Len(b)
    BY <1>3, <1>5, <1>7
  <2>2. /\ NewVersion(r, type) - Len(log[stream]) = Len(b)
        /\ ~(NewVersion(r, type) <= Len(log[stream]))
    BY <1>3, <1>5, <1>7
  <2>3. QED
    BY <1>3, <1>4, <1>6, <1>7, <2>1, <2>2
<1>12. ASSUME NEW s \in Streams, NEW i \in DOMAIN log'[s]
       PROVE  \/ i \in DOMAIN log[s] /\ log'[s][i] = log[s][i]
              \/ s = stream /\ log'[s][i] = e
              \/ log'[s][i].type \in OpeningName /\ log'[s][i].by = r
  <2>1. CASE s # stream
    BY <1>4, <2>1
  <2>2. CASE s = stream /\ i <= Len(log[stream])
    BY <1>4, <1>6, <1>7, <2>2
  <2>3. CASE s = stream /\ ~(i <= Len(log[stream]))
    <3>1. i - Len(log[stream]) \in DOMAIN b
      BY <1>3, <1>7, <2>3
    <3>2. log'[s][i] = b[i - Len(log[stream])]
      BY <1>4, <1>6, <1>7, <2>3
    <3>3. QED
      BY <1>3, <2>3, <3>1, <3>2
  <2>4. QED
    BY <2>1, <2>2, <2>3
<1>13. QED
  BY <1>1, <1>2, <1>8, <1>10, <1>11, <1>12 DEF type, stream, e

LEMMA AppendBatchStep ==
  ASSUME IInv, NEW r \in Run, AppendBatch(r)
  PROVE  IInv'
<1> DEFINE type == Writes(r)[write[r]]
           stream == StreamOf(type)
           e == Event(type, r, ValueOf(r, type))
           position == NewVersion(r, type)
           more == write[r] < Len(Writes(r))
           kind == plan[r].kind
<1>1. /\ type \in EventName /\ stream \in Streams
      /\ log' \in [Streams -> Seq(EventType)] /\ LogKept
      /\ position \in DOMAIN log'[stream]
      /\ log'[stream][position] = e
      /\ \A s \in Streams : \A i \in DOMAIN log'[s] :
           \/ i \in DOMAIN log[s] /\ log'[s][i] = log[s][i]
           \/ s = stream /\ log'[s][i] = e
           \/ log'[s][i].type \in OpeningName /\ log'[s][i].by = r
  BY AppendedLog
<1>2. /\ step[r] = "append" /\ write[r] \in DOMAIN Writes(r) /\ write[r] \in 1..2
      /\ kind \in Kinds /\ r # Nobody /\ found[r] \in Finding
      /\ DOMAIN Writes(r) = 1..Len(Writes(r)) /\ Len(Writes(r)) \in 0..2
  BY PlanTyped, WritesTyped, PipelineAssumption DEF AppendBatch, IInv, RunInv, TypeOK
<1>0. more => write[r] = 1 /\ Len(Writes(r)) = 2
  <2>1. \A m \in 1..2, n \in 0..2 : m < n => m = 1 /\ n = 2
    OBVIOUS
  <2>2. write[r] \in 1..2 /\ Len(Writes(r)) \in 0..2
    BY <1>2
  <2>3. QED
    BY <2>1, <2>2
<1>3. /\ step' \in [Run -> Step]
      /\ step'[r] = IF more THEN IF kind = "decision" THEN "append" ELSE "version"
                    ELSE IF NodeOf(r) = "write_output" THEN "output" ELSE "record"
      /\ \A q \in Run \ {r} : step'[q] = step[q]
  BY Labels DEF AppendBatch, GoTo, IInv, TypeOK
<1>4. /\ write' \in [Run -> 1..2]
      /\ write'[r] = IF more THEN write[r] + 1 ELSE write[r]
      /\ \A q \in Run \ {r} : write'[q] = write[q]
  <2>1. more => write[r] + 1 \in 1..2
    BY <1>0
  <2>2. write' = IF more THEN [write EXCEPT ![r] = @ + 1] ELSE write
    BY DEF AppendBatch
  <2>3. write \in [Run -> 1..2]
    BY DEF IInv, TypeOK
  <2> HIDE DEF more
  <2>4. QED
    BY <2>1, <2>2, <2>3
<1>5. position \in Nat
  BY <1>1
<1>6. /\ written' \in [Run -> Seq([type : EventName, position : Nat])]
      /\ written'[r] = Append(written[r], [type |-> type, position |-> position])
      /\ \A q \in Run \ {r} : written'[q] = written[q]
  <2> DEFINE w == [type |-> type, position |-> position]
  <2>1. w \in [type : EventName, position : Nat]
    BY <1>1, <1>5
  <2>2. written \in [Run -> Seq([type : EventName, position : Nat])]
    BY DEF IInv, TypeOK
  <2>3. written' = [written EXCEPT ![r] = Append(@, w)]
    BY DEF AppendBatch
  <2> DEFINE W == [type : EventName, position : Nat]
  <2>4. w \in W /\ written \in [Run -> Seq(W)]
    BY <2>1, <2>2
  <2> HIDE DEF w, W, type, position
  <2>5. Append(written[r], w) \in Seq(W)
    BY <2>4, AppendProperties
  <2>6. /\ written' \in [Run -> Seq(W)]
        /\ written'[r] = Append(written[r], w)
        /\ \A q \in Run \ {r} : written'[q] = written[q]
    BY <2>3, <2>4, <2>5
  <2>7. QED
    BY <2>6 DEF w, W
<1>7. TypeOK'
  <2>1. expected' \in [Run -> Nat \cup {AnyVersion}]
    BY <1>5 DEF AppendBatch, IInv, TypeOK
  <2>2. attempt' \in [Run -> 1..MaxAttempts]
    BY PipelineAssumption DEF AppendBatch, IInv, TypeOK
  <2>3. QED
    BY <1>1, <1>3, <1>4, <1>6, <2>1, <2>2 DEF AppendBatch, IInv, TypeOK
<1>8. UNCHANGED <<plan, session, node, found, source>>
  BY DEF AppendBatch
<1>9. \A q \in Run \ {r} : RunInv(q)'
  BY <1>1, <1>3, <1>4, <1>6, <1>8, OthersKeep DEF LocalsOf
<1>10. \A n : /\ WritesAt(r, n)' = WritesAt(r, n)
              /\ Writes(r)' = Writes(r) /\ NodeOf(r)' = NodeOf(r)
  BY <1>8, WritesSame DEF Writes, NodeOf
<1>11. \A t : StreamOf(t)' = StreamOf(t) /\ ValueOf(r, t)' = ValueOf(r, t)
  BY <1>8, ValueSame DEF StreamOf, PackageEvents
<1>12. e.type = type /\ e.by = r /\ e.value = ValueOf(r, type)
  BY DEF Event
<1>13. \/ kind = "document" /\ type \in DocumentEvents
       \/ /\ kind \in {"document", "credit", "fraud"}
          /\ type = IF write[r] = 1 THEN Result[kind] ELSE Request[kind]
       \/ /\ kind = "compliance" /\ NodeOf(r) = "evaluate_rules"
          /\ type = "ComplianceCheckCompleted" /\ ~more
       \/ /\ kind = "compliance" /\ NodeOf(r) = "write_output"
          /\ type \in {"ApplicationDeclined", "DecisionRequested"}
          /\ type = "DecisionRequested" => found[r].verdict # "BLOCKED"
       \/ kind = "decision" /\ type \in Outcomes \cup {"DecisionGenerated"}
  BY <1>2, WritesAre DEF Writes
<1>14. SoundLog'
  <2>1. Sound(e)
    <3>1. /\ ValueOf(r, "CreditAnalysisCompleted") \in {"MEDIUM", "HIGH"}
          /\ ValueOf(r, "FraudScreeningCompleted") \in {"low", "high"}
          /\ ValueOf(r, "ComplianceCheckCompleted") \in {"CLEAR", "CONDITIONAL", "BLOCKED"}
      BY <1>2 DEF ValueOf, Finding
    <3>2. QED
      BY <1>2, <1>12, <3>1 DEF Sound
  <2>2. \A d : d.type \in OpeningName /\ d.by = r => Sound(d)
    BY <1>2 DEF Sound, OpeningName
  <2>3. \A s \in Streams : \A i \in DOMAIN log'[s] : Sound(log'[s][i])
    BY <1>1, <2>1, <2>2 DEF IInv, SoundLog
  <2>4. QED
    BY <2>3 DEF SoundLog, Sound
<1>15. \A q, t : Delivered(q, t) => Delivered(q, t)'
  BY <1>1, DeliveredKept
<1>16. RequestsJustified'
  <2>1. ASSUME NEW d, d = e PROVE Justified(d)'
    <3>0. d.type = type /\ d.by = r
      BY <1>12, <2>1
    <3>1. CASE kind \in {"document", "credit", "fraud"} /\ write[r] = 2 /\ type = Request[kind]
      <4>1. PICK t : t = Result[kind] /\ Delivered(r, t)
        BY <1>2, <3>1 DEF IInv, RunInv
      <4>2. Delivered(r, t)'
        BY <1>15, <4>1
      <4>3. QED
        BY <3>0, <3>1, <4>1, <4>2 DEF Justified, Result, Request
    <3>2. CASE kind = "compliance" /\ NodeOf(r) = "write_output" /\ type = "DecisionRequested"
      <4>1. Judged(r)
        BY <3>2, ComplianceNodes DEF IInv, RunInv
      <4>2. found[r].verdict # "BLOCKED"
        BY <1>13, <3>2
      <4>3. Delivered(r, "ComplianceCheckCompleted")
        BY <4>1, <4>2 DEF Judged, Delivered, StreamOf, PackageEvents
      <4>4. Delivered(r, "ComplianceCheckCompleted")'
        BY <1>15, <4>3
      <4>5. QED
        BY <3>0, <3>2, <4>4 DEF Justified
    <3>3. CASE type \notin {"CreditAnalysisRequested", "FraudScreeningRequested",
                            "ComplianceCheckRequested", "DecisionRequested"}
      BY <3>0, <3>3 DEF Justified
    <3>4. \/ kind \in {"document", "credit", "fraud"} /\ write[r] = 2 /\ type = Request[kind]
          \/ kind = "compliance" /\ NodeOf(r) = "write_output" /\ type = "DecisionRequested"
          \/ type \notin {"CreditAnalysisRequested", "FraudScreeningRequested",
                          "ComplianceCheckRequested", "DecisionRequested"}
      BY <1>2, <1>13 DEF DocumentEvents, Outcomes, Result
    <3>5. QED
      BY <3>1, <3>2, <3>3, <3>4
  <2>2. \A d : d.type \in OpeningName => Justified(d)'
    BY DEF Justified, OpeningName
  <2>3. \A d : Justified(d) => Justified(d)'
    BY <1>15 DEF Justified
  <2>4. "loan" \in Streams
    BY DEF Streams
  <2>5. ASSUME NEW i \in DOMAIN log'["loan"] PROVE Justified(log["loan"][i])'
    <3>1. PICK d : d = log'["loan"][i]
      OBVIOUS
    <3>2. \/ i \in DOMAIN log["loan"] /\ d = log["loan"][i]
          \/ d = e
          \/ d.type \in OpeningName
      BY <1>1, <2>4, <3>1
    <3>3. Justified(d)'
      BY <2>1, <2>2, <2>3, <3>2 DEF IInv, RequestsJustified
    <3>4. QED
      BY <3>1, <3>3 DEF Justified
  <2>6. QED
    BY <2>5 DEF RequestsJustified
<1>17. RunInv(r)'
  <2>1. step'[r] \in {"version", "append"} => write'[r] \in DOMAIN Writes(r)'
    BY <1>2, <1>3, <1>4, <1>10
  <2>2. step'[r] = "output" => NodeOf(r)' = "write_output"
    BY <1>3, <1>10
  <2>3. ASSUME step'[r] \in {"version", "append"}, kind \in {"document", "credit", "fraud"},
               NEW t, t = Result[kind]
        PROVE  Delivered(r, t)'
    <3>1. write[r] = 1 /\ Len(Writes(r)) = 2
      <4>1. more
        BY <1>3, <2>3
      <4>2. QED
        BY <1>0, <4>1
    <3>2. type = t
      <4>1. kind # "compliance" /\ kind # "decision"
        BY <2>3
      <4>2. \/ Writes(r) = <<>>
            \/ \E u \in DocumentEvents : Writes(r) = <<u>>
            \/ Writes(r) = <<Result[kind], Request[kind]>>
        BY <1>2, <4>1, WritesAre DEF Writes
      <4>3. Writes(r) = <<Result[kind], Request[kind]>>
        <5>1. Writes(r) # <<>>
          BY <3>1
        <5>2. ASSUME NEW u \in DocumentEvents, Writes(r) = <<u>> PROVE FALSE
          <6>1. Len(Writes(r)) = 1
            BY <5>2
          <6>2. QED
            BY <3>1, <6>1
        <5>3. QED
          BY <4>2, <5>1, <5>2
      <4>4. QED
        BY <2>3, <3>1, <4>3
    <3>3. PICK d : d = e
      OBVIOUS
    <3>4. d.type = t /\ d.by = r /\ d.value # "BLOCKED"
      <4>1. t \in {"PackageReadyForAnalysis", "CreditAnalysisCompleted",
                   "FraudScreeningCompleted"}
        BY <2>3 DEF Result
      <4>2. ValueOf(r, t) # "BLOCKED"
        BY <1>2, <4>1 DEF ValueOf, Finding
      <4>3. QED
        BY <1>12, <3>2, <3>3, <4>2
    <3>5. \E j \in DOMAIN log'[StreamOf(t)] : log'[StreamOf(t)][j] = d
      BY <1>1, <3>2, <3>3
    <3>6. QED
      BY <1>11, <3>4, <3>5 DEF Delivered
  <2>4. kind = "compliance" /\ (node[r] = 4 \/ (node[r] = 3 /\ step'[r] = "record"))
          => Judged(r)'
    <3>1. CASE kind = "compliance" /\ node[r] = 4
      <4>1. Judged(r)
        BY <3>1 DEF IInv, RunInv
      <4>2. QED
        BY <1>1, <1>8, <4>1, DeliveredKept
    <3>2. CASE kind = "compliance" /\ node[r] = 3
      <4>1. type = "ComplianceCheckCompleted"
        BY <1>2, <1>13, <3>2, ComplianceNodes
      <4>2. stream = "compliance" /\ e.value = found[r].verdict
        BY <1>12, <4>1 DEF StreamOf, PackageEvents, ValueOf
      <4>3. QED
        BY <1>1, <1>8, <1>12, <4>1, <4>2 DEF Judged
    <3>3. QED
      BY <3>1, <3>2
  <2>5. Recorded(r)'
    <3>1. /\ written[r] \in Seq([type : EventName, position : Nat])
          /\ Recorded(r)
      BY DEF IInv, TypeOK, RunInv
    <3> DEFINE w == [type |-> type, position |-> position]
    <3>2. w \in [type : EventName, position : Nat]
      BY <1>1, <1>5
    <3>3. w.type = type /\ w.position = position
      OBVIOUS
    <3>4. written'[r] = Append(written[r], w)
      BY <1>6
    <3>5. ASSUME NEW i \in DOMAIN written'[r]
          PROVE  LET v == written'[r][i]
                 IN  /\ v.position \in DOMAIN log'[StreamOf(v.type)]
                     /\ log'[StreamOf(v.type)][v.position]
                          = Event(v.type, r, ValueOf(r, v.type))
      <4>1. (i \in DOMAIN written[r] /\ written'[r][i] = written[r][i]) \/ written'[r][i] = w
        <5> HIDE DEF w
        <5>1. QED
          BY <3>1, <3>2, <3>4
      <4>2. CASE written'[r][i] = w
        BY <1>1, <3>3, <4>2
      <4>3. CASE i \in DOMAIN written[r] /\ written'[r][i] = written[r][i]
        <5>1. StreamOf(written[r][i].type) \in Streams
          BY StreamsAre
        <5>2. QED
          BY <1>1, <3>1, <4>3, <5>1 DEF LogKept, Kept, Recorded
      <4>4. QED
        BY <4>1, <4>2, <4>3
    <3>6. QED
      BY <1>11, <3>5 DEF Recorded, Event
  <2>6. \A k : Result[k]' = Result[k]
    BY DEF Result
  <2>7. step'[r] \notin {"idle", "recover", "work"} /\ plan' = plan /\ node' = node
    BY <1>3, <1>8
  <2>8. step'[r] \in {"version", "append"} /\ kind \in {"document", "credit", "fraud"}
          => Delivered(r, Result[plan[r].kind])'
    BY <2>3, <2>6, <2>7 DEF Delivered
  <2>9. QED
    BY <2>1, <2>2, <2>4, <2>5, <2>7, <2>8 DEF RunInv
<1>18. QED
  BY <1>7, <1>9, <1>14, <1>16, <1>17 DEF IInv

--------------------------------------------------------------------------------

LEMMA InitIInv == Init => IInv
<1> SUFFICES ASSUME Init PROVE IInv
  OBVIOUS
<1>1. PICK setup \in Setups :
        /\ plan = setup[1]
        /\ log = [s \in Streams |-> IF s = "loan" THEN setup[2] ELSE <<>>]
  BY DEF Init
<1>2. plan \in [Run -> Plan] /\ setup[2] \in Seeds
  BY <1>1, PipelineAssumption
<1>3. /\ setup[2] \in Seq(EventType)
      /\ \A i \in DOMAIN setup[2] :
           setup[2][i].by = Nobody
             /\ setup[2][i].type \in {"ApplicationSubmitted", "DocumentUploaded"}
  <2> DEFINE a == Event("ApplicationSubmitted", Nobody, "none")
             b == Event("DocumentUploaded", Nobody, "none")
  <2>1. /\ a \in EventType /\ b \in EventType /\ a.by = Nobody /\ b.by = Nobody
        /\ a.type = "ApplicationSubmitted" /\ b.type = "DocumentUploaded"
    BY DEF Event, EventType, EventName, Value
  <2>2. setup[2] = <<>> \/ setup[2] = <<a>> \/ setup[2] = <<a, b>>
    BY <1>2 DEF Seeds
  <2> HIDE DEF a, b
  <2>3. CASE setup[2] = <<a, b>>
    <3>1. /\ <<a, b>> \in Seq(EventType) /\ DOMAIN <<a, b>> = 1..2
          /\ <<a, b>>[1] = a /\ <<a, b>>[2] = b
      BY <2>1
    <3>2. \A i \in 1..2 : i = 1 \/ i = 2
      OBVIOUS
    <3>3. QED
      BY <2>1, <2>3, <3>1, <3>2
  <2>4. CASE setup[2] = <<a>>
    <3>1. <<a>> \in Seq(EventType) /\ DOMAIN <<a>> = {1} /\ <<a>>[1] = a
      BY <2>1
    <3>2. QED
      BY <2>1, <2>4, <3>1
  <2>5. CASE setup[2] = <<>>
    BY <2>5
  <2>6. QED
    BY <2>2, <2>3, <2>4, <2>5
<1>4. log \in [Streams -> Seq(EventType)]
  BY <1>1, <1>3
<1>5. \A r \in Run : node[r] \in DOMAIN Graph[plan[r].kind]
  <2>1. \A r \in Run : plan[r].kind \in Kinds /\ node[r] = 1
    BY <1>2, KindIs DEF Init, Plan
  <2>2. \A k \in Kinds : 1 \in DOMAIN Graph[k]
    BY GraphLengths
  <2>3. QED
    BY <2>1, <2>2
<1>6. TypeOK
  <2>1. Missing \in Finding
    BY DEF Missing, Finding
  <2>2. QED
    BY <1>1, <1>4, <1>5, <2>1, Labels, PipelineAssumption DEF Init, TypeOK
<1>7. SoundLog
  BY <1>1, <1>3 DEF SoundLog, Sound
<1>8. RequestsJustified
  BY <1>1, <1>3 DEF RequestsJustified, Justified, Streams
<1>9. \A r \in Run : RunInv(r)
  BY DEF Init, RunInv, Recorded
<1>10. QED
  BY <1>6, <1>7, <1>8, <1>9 DEF IInv

LEMMA NextStep == IInv /\ [Next]_vars => IInv'
<1> SUFFICES ASSUME IInv, [Next]_vars PROVE IInv'
  OBVIOUS
<1>1. CASE UNCHANGED vars
  <2>1. LogKept /\ TypeOK' /\ UNCHANGED <<plan, log>> /\ \A q : UNCHANGED LocalsOf(q)
    BY <1>1 DEF IInv, TypeOK, vars, local, LocalsOf, LogKept, Kept
  <2>2. \A q \in Run : RunInv(q)'
    BY <2>1, OthersKeep
  <2>3. SoundLog'
    BY <2>1 DEF IInv, SoundLog, Sound
  <2>4. RequestsJustified'
    BY <2>1, DeliveredKept DEF IInv, RequestsJustified, Justified
  <2>5. QED
    BY <2>1, <2>2, <2>3, <2>4 DEF IInv
<1>2. ASSUME NEW r \in Run, RunStep(r) PROVE IInv'
  BY <1>2, StartStep, RecoverStep, InvestigateStep, BeginWritingStep, ReadVersionStep,
     AppendBatchStep, ConflictStep, RecordOutputStep, RecordNodeStep, CompleteSessionStep, RaiseStep
  DEF RunStep
<1>3. QED
  BY <1>1, <1>2, RaiseStep DEF Next, Quiescent

LEMMA Invariance == Spec => []IInv
<1>1. Init => IInv
  BY InitIInv
<1>2. IInv /\ [Next]_vars => IInv'
  BY NextStep
<1>3. QED
  BY <1>1, <1>2, PTL DEF Spec

--------------------------------------------------------------------------------

\* Streams hold the events their agents write, every run is at a node of its graph,
\* and its findings are ones the next node can read.
THEOREM TypeCorrect == Spec => []TypeOK
<1>1. IInv => TypeOK
  BY DEF IInv
<1>2. QED
  BY <1>1, Invariance, PTL

\* An agent is asked for only when the run that asks has delivered its own result,
\* and a decision only of results that are not blocked.
THEOREM RequestsHaveResults == Spec => []RequestsFollowResults
<1>1. IInv => RequestsFollowResults
  BY DEF IInv, RequestsJustified, Justified, Delivered, RequestsFollowResults
<1>2. QED
  BY <1>1, Invariance, PTL

\* The positions a session claims in its AgentOutputWritten hold its own events.
THEOREM OutputsAreRecorded == Spec => []OutputsRecorded
<1>1. IInv => OutputsRecorded
  BY DEF IInv, RunInv, Recorded, OutputsRecorded
<1>2. QED
  BY <1>1, Invariance, PTL

--------------------------------------------------------------------------------
(* Approvals.  What the orchestrator read, and that its authors do not add to it. *)

\* The step at which a run has yet to append what its node is for.
Before == {"idle", "recover", "work", "version", "append"}

\* A compliance run judges once, and goes by that ever after.
JudgedOnce ==
  \A j \in DOMAIN log["compliance"] :
    LET e == log["compliance"][j]
    IN  e.type = "ComplianceCheckCompleted" =>
          /\ e.by \in Run
          /\ plan[e.by].kind = "compliance"
          /\ e.value = found[e.by].verdict
          /\ node[e.by] = 4 \/ (node[e.by] = 3 /\ step[e.by] \notin Before)

\* The other two results come from agents of their own.
ResultsSigned ==
  /\ \A j \in DOMAIN log["credit"] :
       log["credit"][j].type = "CreditAnalysisCompleted" =>
         plan[log["credit"][j].by].kind = "credit"
  /\ \A j \in DOMAIN log["fraud"] :
       log["fraud"][j].type = "FraudScreeningCompleted" =>
         plan[log["fraud"][j].by].kind = "fraud"

HasJudged(q) ==
  \E j \in DOMAIN log["compliance"] :
    /\ log["compliance"][j].type = "ComplianceCheckCompleted"
    /\ log["compliance"][j].by = q

\* Whatever the sources of r have judged is the verdict r has read.
VerdictRead(r) ==
  \A j \in DOMAIN log["compliance"] :
    /\ log["compliance"][j].type = "ComplianceCheckCompleted"
    /\ log["compliance"][j].by \in source[r]
    => log["compliance"][j].value = found[r].verdict

Acceptable(f) ==
  /\ f.verdict # "BLOCKED" /\ f.score = "low"
  /\ f.tier = "MEDIUM" \/ f.confidence = "high"

\* What the orchestrator has read by the node it is at.
Read(r) ==
  /\ step[r] \in {"version", "append", "output", "record"} => node[r] = 7
  /\ node[r] >= 3 => Named(r, "CreditAnalysisCompleted", found[r].tier)
  /\ node[r] >= 4 => Named(r, "FraudScreeningCompleted", found[r].score)
  /\ node[r] <= 4 => \A q \in source[r] : plan[q].kind \in {"credit", "fraud"}
  /\ node[r] >= 5 => VerdictRead(r) /\ Named(r, "ComplianceCheckCompleted", found[r].verdict)
  /\ \A q \in source[r] : plan[q].kind = "compliance" => HasJudged(q)
  /\ node[r] = 7 /\ found[r].recommendation = "APPROVE" => Acceptable(found[r])

ApprovalsSigned ==
  \A i \in DOMAIN log["loan"] : log["loan"][i].type = "ApplicationApproved" =>
    LET r == log["loan"][i].by
    IN  /\ r \in Run /\ plan[r].kind = "decision" /\ node[r] = 7
        /\ found[r].recommendation = "APPROVE"

DecisionInv ==
  /\ JudgedOnce
  /\ ResultsSigned
  /\ \A r \in Run : plan[r].kind = "decision" => Read(r)
  /\ ApprovalsSigned

LEMMA DecisionGraphIs ==
  LET g == Graph["decision"]
  IN  /\ Len(g) = 7 /\ DOMAIN g = 1..7
      /\ g[1] = "validate_inputs" /\ g[2] = "load_credit_result"
      /\ g[3] = "load_fraud_result" /\ g[4] = "load_compliance_result"
      /\ g[5] = "synthesize_decision" /\ g[6] = "apply_hard_constraints"
      /\ g[7] = "write_output"
<1>1. Graph["decision"] =
        <<"validate_inputs", "load_credit_result", "load_fraud_result",
          "load_compliance_result", "synthesize_decision", "apply_hard_constraints",
          "write_output">>
  BY DEF Graph, DecisionGraph
<1>2. QED
  BY <1>1

LEMMA DecisionNodes ==
  ASSUME TypeOK, NEW r \in Run, plan[r].kind = "decision"
  PROVE  /\ node[r] \in 1..7
         /\ node[r] = 1 => NodeOf(r) = "validate_inputs"
         /\ node[r] = 2 => NodeOf(r) = "load_credit_result"
         /\ node[r] = 3 => NodeOf(r) = "load_fraud_result"
         /\ node[r] = 4 => NodeOf(r) = "load_compliance_result"
         /\ node[r] = 5 => NodeOf(r) = "synthesize_decision"
         /\ node[r] = 6 => NodeOf(r) = "apply_hard_constraints"
         /\ node[r] = 7 => NodeOf(r) = "write_output"
BY PlanTyped, DecisionGraphIs DEF NodeOf

LEMMA DecisionWritesAre ==
  ASSUME NEW r, plan[r].kind = "decision", NEW n
  PROVE  /\ n # "write_output" => WritesAt(r, n) = <<>>
         /\ n = "write_output" =>
              \E t \in Outcomes :
                /\ WritesAt(r, n) = <<"DecisionGenerated", t>>
                /\ t = "ApplicationApproved" => found[r].recommendation = "APPROVE"
BY DEF WritesAt, DecisionWrites, Outcomes

\* A step that appends nothing and reads nothing, after which no run is back before
\* its append, nor is a finding changed that an invariant is about.
LEMMA SilentKeeps ==
  ASSUME IInv, DecisionInv, NEW r \in Run, UNCHANGED <<plan, log, node, source>>,
         \A q \in Run \ {r} : step'[q] = step[q] /\ found'[q] = found[q],
         step[r] \in Before \/ step'[r] \notin Before,
         step'[r] \in {"version", "append", "output", "record"} =>
           \/ step[r] \in {"version", "append", "output", "record"}
           \/ plan[r].kind = "decision" => node[r] = 7,
         \/ found'[r] = found[r]
         \/ plan[r].kind # "decision" /\ ~HasJudged(r)
  PROVE  DecisionInv'
<1>1. JudgedOnce'
  <2> SUFFICES ASSUME NEW j \in DOMAIN log["compliance"], NEW p,
                      p = log["compliance"][j].by,
                      log["compliance"][j].type = "ComplianceCheckCompleted"
               PROVE  /\ p \in Run /\ plan[p].kind = "compliance"
                      /\ log["compliance"][j].value = found'[p].verdict
                      /\ node[p] = 4 \/ (node[p] = 3 /\ step'[p] \notin Before)
    BY DEF JudgedOnce, Before
  <2>1. /\ p \in Run /\ plan[p].kind = "compliance"
        /\ log["compliance"][j].value = found[p].verdict
        /\ node[p] = 4 \/ (node[p] = 3 /\ step[p] \notin Before)
    BY DEF DecisionInv, JudgedOnce
  <2>2. HasJudged(p)
    BY DEF HasJudged
  <2>3. found'[p] = found[p]
    BY <2>1, <2>2
  <2>4. step[p] \in Before \/ step'[p] \notin Before
    BY <2>1
  <2>5. QED
    BY <2>1, <2>3, <2>4
<1>2. ResultsSigned'
  BY DEF DecisionInv, ResultsSigned
<1>3. ASSUME NEW q \in Run, plan[q].kind = "decision" PROVE Read(q)'
  <2>1. Read(q) /\ found'[q] = found[q]
    BY <1>3 DEF DecisionInv
  <2>2. step'[q] \in {"version", "append", "output", "record"} => node[q] = 7
    BY <1>3, <2>1 DEF Read
  <2>3. \A t, v : Named(q, t, v) => Named(q, t, v)'
    BY DEF Named, StreamOf, PackageEvents
  <2>4. VerdictRead(q) => VerdictRead(q)'
    BY <2>1 DEF VerdictRead
  <2>5. \A p : HasJudged(p) => HasJudged(p)'
    BY DEF HasJudged
  <2>6. Acceptable(found[q]) => Acceptable(found[q])'
    BY <2>1 DEF Acceptable
  <2>7. (node[q] >= 3 => Named(q, "CreditAnalysisCompleted", found[q].tier))'
    BY <2>1, <2>3 DEF Read, Named
  <2>8. (node[q] >= 4 => Named(q, "FraudScreeningCompleted", found[q].score))'
    BY <2>1, <2>3 DEF Read, Named
  <2>9. (node[q] >= 5 => Named(q, "ComplianceCheckCompleted", found[q].verdict))'
    BY <2>1, <2>3 DEF Read, Named
  <2>10. QED
    BY <2>1, <2>2, <2>4, <2>5, <2>6, <2>7, <2>8, <2>9 DEF Read
<1>4. ApprovalsSigned'
  BY DEF DecisionInv, ApprovalsSigned
<1>5. QED
  BY <1>1, <1>2, <1>3, <1>4 DEF DecisionInv

LEMMA LineKeeps ==
  ASSUME IInv, DecisionInv, NEW r \in Run, NEW label, GoTo(r, label),
         UNCHANGED <<plan, log, node, found, source>>,
         \/ label \in {"complete", "done", "failed", "crashed"}
         \/ step[r] \in {"idle", "recover", "version", "append", "output"}
              /\ label \in {"recover", "work", "version", "append", "record"}
              /\ (step[r] \in {"idle", "recover"} => label \in {"recover", "work"})
              /\ (step[r] = "output" => label = "record")
  PROVE  DecisionInv'
<1>1. step'[r] = label /\ \A q \in Run \ {r} : step'[q] = step[q]
  BY DEF GoTo, IInv, TypeOK
<1>2. step[r] \in Before \/ step'[r] \notin Before
  BY <1>1 DEF Before
<1>3. QED
  BY <1>1, <1>2, SilentKeeps

LEMMA BeginWritingKeeps ==
  ASSUME IInv, DecisionInv, NEW r \in Run, BeginWriting(r)
  PROVE  DecisionInv'
<1>1. PICK f \in Findings(r) : found' = [found EXCEPT ![r] = f]
  BY DEF BeginWriting
<1>2. f \in Finding /\ (NodeOf(r) = "write_output" => f = found[r])
  BY FindingsTyped DEF BeginWriting
<1>3. found'[r] = f /\ \A q \in Run \ {r} : found'[q] = found[q]
  BY <1>1 DEF IInv, TypeOK
<1>4. step'[r] = "version" /\ step[r] = "work" /\ \A q \in Run \ {r} : step'[q] = step[q]
  BY DEF BeginWriting, GoTo, IInv, TypeOK
<1>5. plan[r].kind = "decision" => NodeOf(r) = "write_output" /\ node[r] = 7
  <2>1. plan[r].kind = "decision" => NodeOf(r) = "write_output"
    BY DecisionWritesAre DEF BeginWriting, Writes
  <2>2. plan[r].kind = "decision" /\ NodeOf(r) = "write_output" => node[r] = 7
    <3>1. \A i \in 1..7 : i \in {1, 2, 3, 4, 5, 6} \/ i = 7
      OBVIOUS
    <3>2. QED
      BY <3>1, DecisionNodes DEF IInv
  <2>3. QED
    BY <2>1, <2>2
<1>6. HasJudged(r) => found'[r] = found[r]
  <2>1. HasJudged(r) => plan[r].kind = "compliance" /\ node[r] = 4
    BY <1>4 DEF HasJudged, DecisionInv, JudgedOnce, Before
  <2>2. QED
    BY <1>2, <1>3, <2>1, ComplianceNodes
<1>7. QED
  BY <1>2, <1>3, <1>4, <1>5, <1>6, SilentKeeps DEF BeginWriting, Before

\* The orchestrator, or another agent, goes on to its next node.
LEMMA InvestigateKeeps ==
  ASSUME IInv, IInv', DecisionInv, NEW r \in Run, Investigate(r)
  PROVE  DecisionInv'
<1> DEFINE n == NodeOf(r)
<1>1. PICK f \in Findings(r) : found' = [found EXCEPT ![r] = f]
  BY DEF Investigate
<1>2. /\ f \in Finding /\ found'[r] = f /\ found[r] \in Finding
      /\ \A q \in Run \ {r} : found'[q] = found[q]
  BY <1>1, FindingsTyped DEF Investigate, IInv, TypeOK
<1>3. /\ UNCHANGED <<plan, log>>
      /\ \A q \in Run \ {r} : step'[q] = step[q] /\ node'[q] = node[q] /\ source'[q] = source[q]
      /\ step[r] = "work" /\ step'[r] \in {"complete", "work"}
      /\ node'[r] = IF node[r] = Len(Graph[plan[r].kind]) THEN node[r] ELSE node[r] + 1
      /\ source'[r] = IF n \in DOMAIN Needs \ {"validate_inputs"}
                      THEN source[r] \cup {Latest(Needs[n]).by} ELSE source[r]
  BY DEF Investigate, Record, GoTo, IInv, TypeOK
<1>4. ~(plan[r].kind = "compliance" /\ node[r] = 4) /\ ~HasJudged(r)
  <2>1. plan[r].kind = "compliance" => Writes(r) = <<>>
    BY DEF Investigate, Uploaded
  <2>2. plan[r].kind = "compliance" => n \notin {"evaluate_rules", "write_output"}
    BY <2>1, WritesAre DEF Writes, Kinds
  <2>3. ~(plan[r].kind = "compliance" /\ node[r] = 4)
    BY <2>2, ComplianceNodes
  <2>4. HasJudged(r) => plan[r].kind = "compliance" /\ node[r] = 4
    BY <1>3 DEF HasJudged, DecisionInv, JudgedOnce, Before
  <2>5. QED
    BY <2>3, <2>4
<1>5. JudgedOnce'
  <2> SUFFICES ASSUME NEW j \in DOMAIN log["compliance"], NEW p,
                      p = log["compliance"][j].by,
                      log["compliance"][j].type = "ComplianceCheckCompleted"
               PROVE  /\ p \in Run /\ plan[p].kind = "compliance"
                      /\ log["compliance"][j].value = found'[p].verdict
                      /\ node'[p] = 4 \/ (node'[p] = 3 /\ step'[p] \notin Before)
    BY <1>3 DEF JudgedOnce, Before
  <2>1. HasJudged(p)
    BY DEF HasJudged
  <2>2. p # r
    BY <1>4, <2>1
  <2>3. /\ p \in Run /\ plan[p].kind = "compliance"
        /\ log["compliance"][j].value = found[p].verdict
        /\ node[p] = 4 \/ (node[p] = 3 /\ step[p] \notin Before)
    BY DEF DecisionInv, JudgedOnce
  <2>4. QED
    BY <1>2, <1>3, <2>2, <2>3
<1>6. ResultsSigned'
  BY <1>3 DEF DecisionInv, ResultsSigned
<1>7. \A p : HasJudged(p) => HasJudged(p)'
  BY <1>3 DEF HasJudged
<1>8. ASSUME NEW q \in Run \ {r}, plan[q].kind = "decision" PROVE Read(q)'
  <2>1. /\ Read(q) /\ found'[q] = found[q] /\ source'[q] = source[q]
        /\ step'[q] = step[q] /\ node'[q] = node[q] /\ UNCHANGED <<plan, log>>
    BY <1>2, <1>3, <1>8 DEF DecisionInv
  <2>2. VerdictRead(q) => VerdictRead(q)'
    BY <2>1 DEF VerdictRead
  <2>3. Acceptable(found[q]) => Acceptable(found[q])'
    BY <2>1 DEF Acceptable
  <2>4. (node[q] >= 3 => Named(q, "CreditAnalysisCompleted", found[q].tier))'
    BY <2>1 DEF Read, Named, StreamOf, PackageEvents
  <2>5. (node[q] >= 4 => Named(q, "FraudScreeningCompleted", found[q].score))'
    BY <2>1 DEF Read, Named, StreamOf, PackageEvents
  <2>6. (node[q] >= 5 => Named(q, "ComplianceCheckCompleted", found[q].verdict))'
    BY <2>1 DEF Read, Named, StreamOf, PackageEvents
  <2>7. QED
    BY <1>7, <2>1, <2>2, <2>3, <2>4, <2>5, <2>6 DEF Read
<1>9. ASSUME plan[r].kind = "decision" PROVE Read(r)'
  <2>1. /\ Read(r) /\ node[r] \in 1..7
    BY <1>9, DecisionNodes DEF DecisionInv, IInv
  <2>2. node[r] # 7
    <3>1. n # "write_output"
      BY <1>9, DecisionWritesAre DEF Investigate, Uploaded, Writes
    <3>2. QED
      BY <1>9, <3>1, DecisionNodes DEF IInv
  <2>3. node[r] \in 1..6 /\ node'[r] = node[r] + 1
    BY <1>3, <1>9, <2>1, <2>2, DecisionGraphIs
  <2>4. \A t, v : Named(r, t, v) =>
          \E i \in DOMAIN log'[StreamOf(t)] :
            LET e == log'[StreamOf(t)][i] IN e.type = t /\ e.by \in source'[r] /\ e.value = v
    BY <1>3 DEF Named
  <2>5. \A t : StreamOf(t)' = StreamOf(t)
    BY DEF StreamOf, PackageEvents
  <2>6. \A t, v : Named(r, t, v) => Named(r, t, v)'
    BY <2>4, <2>5 DEF Named
  <2>7. n \in {"load_credit_result", "load_fraud_result", "load_compliance_result"} =>
          LET t == Needs[n]
              p == Latest(t).by
          IN  /\ p \in Run /\ source'[r] = source[r] \cup {p}
              /\ Has(log[StreamOf(t)], t)
    <3>1. n \in {"load_credit_result", "load_fraud_result", "load_compliance_result"} =>
            n \in DOMAIN Needs \ {"validate_inputs"}
      BY DEF Needs
    <3>2. QED
      BY <1>3, <3>1, NeedsRead DEF Investigate, Satisfied
  <2>8. CASE node[r] = 1
    <3>1. /\ n = "validate_inputs" /\ node'[r] = 2 /\ source'[r] = source[r]
      BY <1>3, <1>9, <2>3, <2>8, DecisionNodes DEF IInv
    <3>2. QED
      BY <1>3, <1>7, <2>1, <2>8, <3>1 DEF Read
  <2>9. CASE node[r] = 2
    <3>1. n = "load_credit_result" /\ Needs[n] = "CreditAnalysisCompleted"
      BY <1>9, <2>9, DecisionNodes DEF IInv, Needs
    <3>2. /\ Latest("CreditAnalysisCompleted").by \in source'[r]
          /\ source'[r] = source[r] \cup {Latest("CreditAnalysisCompleted").by}
          /\ Has(log["credit"], "CreditAnalysisCompleted")
      BY <2>7, <3>1 DEF StreamOf, PackageEvents
    <3>3. PICK i \in DOMAIN log["credit"] :
            /\ log["credit"][i] = Latest("CreditAnalysisCompleted")
            /\ log["credit"][i].type = "CreditAnalysisCompleted"
      BY <3>2, LatestAt DEF StreamOf, PackageEvents
    <3>4. plan[Latest("CreditAnalysisCompleted").by].kind = "credit"
      BY <3>3 DEF DecisionInv, ResultsSigned
    <3>5. found'[r].tier = Latest("CreditAnalysisCompleted").value
      BY <1>2, <3>1 DEF Findings, Evaluated, Synthesized, Finding
    <3>6. Named(r, "CreditAnalysisCompleted", found[r].tier)'
      BY <1>3, <3>2, <3>3, <3>5 DEF Named, StreamOf, PackageEvents
    <3>7. QED
      BY <1>3, <2>1, <2>3, <2>9, <3>2, <3>4, <3>6 DEF Read
  <2>10. CASE node[r] = 3
    <3>1. n = "load_fraud_result" /\ Needs[n] = "FraudScreeningCompleted"
      BY <1>9, <2>10, DecisionNodes DEF IInv, Needs
    <3>2. /\ Latest("FraudScreeningCompleted").by \in source'[r]
          /\ source'[r] = source[r] \cup {Latest("FraudScreeningCompleted").by}
          /\ Has(log["fraud"], "FraudScreeningCompleted")
      BY <2>7, <3>1 DEF StreamOf, PackageEvents
    <3>3. PICK i \in DOMAIN log["fraud"] :
            /\ log["fraud"][i] = Latest("FraudScreeningCompleted")
            /\ log["fraud"][i].type = "FraudScreeningCompleted"
      BY <3>2, LatestAt DEF StreamOf, PackageEvents
    <3>4. plan[Latest("FraudScreeningCompleted").by].kind = "fraud"
      BY <3>3 DEF DecisionInv, ResultsSigned
    <3>5. /\ found'[r].score = Latest("FraudScreeningCompleted").value
          /\ found'[r].tier = found[r].tier
      BY <1>2, <3>1 DEF Findings, Evaluated, Synthesized, Finding
    <3>6. Named(r, "FraudScreeningCompleted", found[r].score)'
      BY <1>3, <3>2, <3>3, <3>5 DEF Named, StreamOf, PackageEvents
    <3>7. Named(r, "CreditAnalysisCompleted", found[r].tier)'
      <4>1. PICK v : v = found[r].tier /\ Named(r, "CreditAnalysisCompleted", v)
        BY <2>1, <2>10 DEF Read
      <4>2. Named(r, "CreditAnalysisCompleted", v)'
        BY <2>6, <4>1
      <4>3. QED
        BY <3>5, <4>1, <4>2 DEF Named
    <3>8. QED
      BY <1>3, <2>1, <2>3, <2>10, <3>2, <3>4, <3>6, <3>7 DEF Read
  <2>11. CASE node[r] = 4
    <3> DEFINE p == Latest("ComplianceCheckCompleted").by
    <3>1. n = "load_compliance_result" /\ Needs[n] = "ComplianceCheckCompleted"
      BY <1>9, <2>11, DecisionNodes DEF IInv, Needs
    <3>2. /\ source'[r] = source[r] \cup {p}
          /\ Has(log["compliance"], "ComplianceCheckCompleted")
      BY <2>7, <3>1 DEF StreamOf, PackageEvents
    <3>3. PICK i \in DOMAIN log["compliance"] :
            /\ log["compliance"][i] = Latest("ComplianceCheckCompleted")
            /\ log["compliance"][i].type = "ComplianceCheckCompleted"
      BY <3>2, LatestAt DEF StreamOf, PackageEvents
    <3>4. /\ HasJudged(p)
          /\ Latest("ComplianceCheckCompleted").value = found[p].verdict
      BY <3>3 DEF HasJudged, DecisionInv, JudgedOnce
    <3>5. /\ found'[r].verdict = Latest("ComplianceCheckCompleted").value
          /\ found'[r].tier = found[r].tier /\ found'[r].score = found[r].score
      BY <1>2, <3>1 DEF Findings, Evaluated, Synthesized, Finding
    <3>6. VerdictRead(r)'
      <4> SUFFICES ASSUME NEW j \in DOMAIN log["compliance"],
                          log["compliance"][j].type = "ComplianceCheckCompleted",
                          log["compliance"][j].by \in source'[r]
                   PROVE  log["compliance"][j].value = found'[r].verdict
        BY <1>3 DEF VerdictRead
      <4>1. /\ plan[log["compliance"][j].by].kind = "compliance"
            /\ log["compliance"][j].value = found[log["compliance"][j].by].verdict
        BY DEF DecisionInv, JudgedOnce
      <4>2. log["compliance"][j].by \notin source[r]
        BY <2>1, <2>11, <4>1 DEF Read
      <4>3. log["compliance"][j].by = p
        BY <3>2, <4>2
      <4>4. QED
        BY <3>4, <3>5, <4>1, <4>3
    <3>7. PICK v, w : /\ v = found[r].tier /\ Named(r, "CreditAnalysisCompleted", v)
                      /\ w = found[r].score /\ Named(r, "FraudScreeningCompleted", w)
      BY <2>1, <2>11 DEF Read
    <3>8. /\ Named(r, "CreditAnalysisCompleted", v)'
          /\ Named(r, "FraudScreeningCompleted", w)'
      BY <2>6, <3>7
    <3>9. (/\ Named(r, "CreditAnalysisCompleted", found[r].tier)
           /\ Named(r, "FraudScreeningCompleted", found[r].score))'
      BY <3>5, <3>7, <3>8 DEF Named
    <3>10. \A q \in source'[r] : plan'[q].kind = "compliance" => HasJudged(q)'
      BY <1>3, <1>7, <2>1, <3>2, <3>4 DEF Read
    <3>11. Named(r, "ComplianceCheckCompleted", found[r].verdict)'
      BY <1>3, <3>2, <3>3, <3>5 DEF Named, StreamOf, PackageEvents
    <3>12. QED
      BY <1>3, <2>1, <2>3, <2>11, <3>6, <3>9, <3>10, <3>11 DEF Read
  <2>12. CASE node[r] \in {5, 6}
    <3>1. n \in {"synthesize_decision", "apply_hard_constraints"}
      BY <1>9, <2>12, DecisionNodes DEF IInv
    <3>2. source'[r] = source[r]
      BY <1>3, <3>1 DEF Needs
    <3>3. /\ found'[r].verdict = found[r].verdict
          /\ found'[r].tier = found[r].tier /\ found'[r].score = found[r].score
      <4>1. CASE n = "synthesize_decision"
        <5>1. PICK x \in {"APPROVE", "DECLINE", "REFER", "OTHER"},
                   c \in {"low", "middle", "high"} :
                f = [found[r] EXCEPT !.recommendation = x, !.confidence = c]
          BY <4>1 DEF Findings, Evaluated, Synthesized
        <5>2. QED
          BY <1>2, <5>1 DEF Finding
      <4>2. CASE n = "apply_hard_constraints"
        <5>1. f = [found[r] EXCEPT !.recommendation = Constrained(found[r])]
          BY <4>2 DEF Findings, Evaluated, Synthesized
        <5>2. QED
          BY <1>2, <5>1 DEF Finding
      <4>3. QED
        BY <3>1, <4>1, <4>2
    <3>4. PICK v, w, x : /\ v = found[r].tier /\ Named(r, "CreditAnalysisCompleted", v)
                         /\ w = found[r].score /\ Named(r, "FraudScreeningCompleted", w)
                         /\ x = found[r].verdict /\ Named(r, "ComplianceCheckCompleted", x)
      BY <2>1, <2>12 DEF Read
    <3>5. /\ Named(r, "CreditAnalysisCompleted", v)'
          /\ Named(r, "FraudScreeningCompleted", w)'
          /\ Named(r, "ComplianceCheckCompleted", x)'
      BY <2>6, <3>4
    <3>6. (/\ Named(r, "CreditAnalysisCompleted", found[r].tier)
           /\ Named(r, "FraudScreeningCompleted", found[r].score)
           /\ Named(r, "ComplianceCheckCompleted", found[r].verdict))'
      BY <3>3, <3>4, <3>5 DEF Named
    <3>7. VerdictRead(r)'
      BY <1>3, <2>1, <2>12, <3>2, <3>3 DEF Read, VerdictRead
    <3>8. (node[r] = 7 /\ found[r].recommendation = "APPROVE" => Acceptable(found[r]))'
      <4> SUFFICES ASSUME node'[r] = 7, found'[r].recommendation = "APPROVE"
                   PROVE  Acceptable(found[r])'
        OBVIOUS
      <4>1. node[r] = 6 /\ n = "apply_hard_constraints"
        BY <1>9, <2>3, <2>12, DecisionNodes DEF IInv
      <4>2. f = [found[r] EXCEPT !.recommendation = Constrained(found[r])]
        BY <4>1 DEF Findings, Evaluated, Synthesized
      <4>3. Constrained(found[r]) = "APPROVE" /\ f.confidence = found[r].confidence
        BY <1>2, <4>2 DEF Finding
      <4>4. Acceptable(found[r])
        BY <1>2, <4>3 DEF Constrained, Finding, Acceptable
      <4>5. QED
        BY <1>2, <3>3, <4>3, <4>4 DEF Acceptable
    <3>9. \A q \in source'[r] : plan'[q].kind = "compliance" => HasJudged(q)'
      BY <1>3, <1>7, <2>1, <3>2 DEF Read
    <3>10. QED
      BY <1>3, <2>3, <2>12, <3>6, <3>7, <3>8, <3>9 DEF Read
  <2>13. QED
    BY <2>3, <2>8, <2>9, <2>10, <2>11, <2>12
<1>10. ApprovalsSigned'
  <2> SUFFICES ASSUME NEW i \in DOMAIN log["loan"], NEW p, p = log["loan"][i].by,
                      log["loan"][i].type = "ApplicationApproved"
               PROVE  /\ p \in Run /\ plan[p].kind = "decision" /\ node'[p] = 7
                      /\ found'[p].recommendation = "APPROVE"
    BY <1>3 DEF ApprovalsSigned
  <2>1. /\ p \in Run /\ plan[p].kind = "decision" /\ node[p] = 7
        /\ found[p].recommendation = "APPROVE"
    BY DEF DecisionInv, ApprovalsSigned
  <2>2. p # r
    <3>1. ASSUME plan[r].kind = "decision" PROVE n # "write_output"
      <4>1. Writes(r) = <<>>
        BY <3>1 DEF Investigate, Uploaded
      <4>2. n = "write_output" => \E t : WritesAt(r, n) = <<"DecisionGenerated", t>>
        BY <3>1, DecisionWritesAre
      <4>3. \A t : <<"DecisionGenerated", t>> # <<>>
        OBVIOUS
      <4>4. QED
        BY <4>1, <4>2, <4>3 DEF Writes
    <3>2. plan[r].kind = "decision" => node[r] # 7
      BY <3>1, DecisionNodes DEF IInv
    <3>3. QED
      BY <2>1, <3>2
  <2>3. QED
    BY <1>2, <1>3, <2>1, <2>2
<1>11. QED
  BY <1>3, <1>5, <1>6, <1>8, <1>9, <1>10 DEF DecisionInv

\* What an orchestrator has read stays read when streams only grow.
LEMMA ReadKept ==
  ASSUME NEW r \in Run, Read(r), LogKept, UNCHANGED <<plan, found, source>>,
         node'[r] = node[r],
         step'[r] \in {"version", "append", "output", "record"} => node[r] = 7,
         node[r] >= 5 => VerdictRead(r)'
  PROVE  Read(r)'
<1>1. \A t : StreamOf(t)' = StreamOf(t) /\ Kept(log[StreamOf(t)], log'[StreamOf(t)])
  BY StreamsAre DEF LogKept, StreamOf, PackageEvents
<1>2. \A t, v : Named(r, t, v) => Named(r, t, v)'
  BY <1>1 DEF Named, Kept
<1>3. Kept(log["compliance"], log'["compliance"])
  BY DEF LogKept, Streams
<1>4. \A q : HasJudged(q) => HasJudged(q)'
  BY <1>3 DEF HasJudged, Kept
<1>5. Acceptable(found[r]) => Acceptable(found[r])'
  BY DEF Acceptable
<1>6. PICK v, w, x : v = found[r].tier /\ w = found[r].score /\ x = found[r].verdict
  OBVIOUS
<1>7. /\ node[r] >= 3 => Named(r, "CreditAnalysisCompleted", v)'
      /\ node[r] >= 4 => Named(r, "FraudScreeningCompleted", w)'
      /\ node[r] >= 5 => Named(r, "ComplianceCheckCompleted", x)'
  BY <1>2, <1>6 DEF Read
<1>8. /\ (node[r] >= 3 => Named(r, "CreditAnalysisCompleted", found[r].tier))'
      /\ (node[r] >= 4 => Named(r, "FraudScreeningCompleted", found[r].score))'
      /\ (node[r] >= 5 => Named(r, "ComplianceCheckCompleted", found[r].verdict))'
  BY <1>6, <1>7 DEF Named
<1>9. QED
  BY <1>4, <1>5, <1>8 DEF Read

\* An agent that has appended goes on to its next node.
LEMMA RecordNodeKeeps ==
  ASSUME IInv, DecisionInv, NEW r \in Run, RecordNode(r)
  PROVE  DecisionInv'
<1>1. /\ UNCHANGED <<plan, log, found, source>>
      /\ \A q \in Run \ {r} : step'[q] = step[q] /\ node'[q] = node[q]
      /\ step[r] = "record" /\ step'[r] \in {"complete", "work"}
      /\ node'[r] = IF node[r] = Len(Graph[plan[r].kind]) THEN node[r] ELSE node[r] + 1
  BY DEF RecordNode, Record, GoTo, IInv, TypeOK
<1>2. plan[r].kind = "decision" => node[r] = 7 /\ node'[r] = 7
  BY <1>1, DecisionGraphIs DEF DecisionInv, Read
<1>3. plan[r].kind = "compliance" /\ node[r] \in {3, 4} => node'[r] = 4
  <2>1. PICK size : size = Len(Graph[plan[r].kind])
    OBVIOUS
  <2>2. plan[r].kind = "compliance" => size = 4
    BY <2>1, ComplianceGraphIs
  <2>3. node'[r] = IF node[r] = size THEN node[r] ELSE node[r] + 1
    BY <1>1, <2>1
  <2>4. QED
    BY <2>2, <2>3
<1>4. JudgedOnce'
  <2> SUFFICES ASSUME NEW j \in DOMAIN log["compliance"], NEW p,
                      p = log["compliance"][j].by,
                      log["compliance"][j].type = "ComplianceCheckCompleted"
               PROVE  /\ p \in Run /\ plan[p].kind = "compliance"
                      /\ log["compliance"][j].value = found[p].verdict
                      /\ node'[p] = 4 \/ (node'[p] = 3 /\ step'[p] \notin Before)
    BY <1>1 DEF JudgedOnce, Before
  <2>1. /\ p \in Run /\ plan[p].kind = "compliance"
        /\ log["compliance"][j].value = found[p].verdict
        /\ node[p] = 4 \/ (node[p] = 3 /\ step[p] \notin Before)
    BY DEF DecisionInv, JudgedOnce
  <2>2. QED
    BY <1>1, <1>3, <2>1
<1>5. ResultsSigned'
  BY <1>1 DEF DecisionInv, ResultsSigned
<1>6. LogKept
  BY <1>1 DEF LogKept, Kept
<1>7. ASSUME NEW q \in Run, plan'[q].kind = "decision" PROVE Read(q)'
  <2>1. Read(q)
    BY <1>1, <1>7 DEF DecisionInv
  <2>2. node'[q] = node[q]
    BY <1>1, <1>2, <1>7
  <2>3. step'[q] \in {"version", "append", "output", "record"} => node[q] = 7
    BY <1>1, <2>1 DEF Read
  <2>4. VerdictRead(q) => VerdictRead(q)'
    BY <1>1 DEF VerdictRead
  <2>5. QED
    BY <1>1, <1>6, <2>1, <2>2, <2>3, <2>4, ReadKept DEF Read
<1>8. ApprovalsSigned'
  BY <1>1, <1>2 DEF DecisionInv, ApprovalsSigned
<1>9. QED
  BY <1>4, <1>5, <1>7, <1>8 DEF DecisionInv

\* What an agent appends, where the invariant speaks of it.
LEMMA AppendsAre ==
  ASSUME IInv, DecisionInv, NEW r \in Run, AppendBatch(r),
         NEW type, type = Writes(r)[write[r]]
  PROVE  /\ type = "CreditAnalysisCompleted" => plan[r].kind = "credit"
         /\ type = "FraudScreeningCompleted" => plan[r].kind = "fraud"
         /\ type = "ComplianceCheckCompleted" =>
              plan[r].kind = "compliance" /\ node[r] = 3 /\ step'[r] = "record"
         /\ type = "ApplicationApproved" =>
              /\ plan[r].kind = "decision" /\ node[r] = 7
              /\ found[r].recommendation = "APPROVE"
<1>1. /\ step[r] = "append" /\ write[r] \in DOMAIN Writes(r)
      /\ plan[r].kind \in Kinds
      /\ DOMAIN Writes(r) = 1..Len(Writes(r)) /\ Len(Writes(r)) \in 0..2
  BY PlanTyped, WritesTyped DEF AppendBatch, IInv, RunInv
<1>2. CASE plan[r].kind = "document"
  <2>1. type \in DocumentEvents \cup {"PackageReadyForAnalysis", "CreditAnalysisRequested"}
    <3>1. PICK s : s = Writes(r)
      OBVIOUS
    <3>2. \/ s = <<>>
          \/ \E t \in DocumentEvents : s = <<t>>
          \/ s = <<"PackageReadyForAnalysis", "CreditAnalysisRequested">>
      <4>1. /\ Result["document"] = "PackageReadyForAnalysis"
            /\ Request["document"] = "CreditAnalysisRequested"
        BY DEF Result, Request
      <4>2. \/ s = <<>>
            \/ \E t \in DocumentEvents : s = <<t>>
            \/ s = <<Result["document"], Request["document"]>>
        BY <1>1, <1>2, <3>1, WritesAre DEF Writes
      <4>3. QED
        BY <4>1, <4>2
    <3>3. write[r] \in DOMAIN s /\ type = s[write[r]]
      BY <1>1, <3>1
    <3>4. \A t : DOMAIN <<t>> = {1}
      OBVIOUS
    <3>5. QED
      BY <3>2, <3>3, <3>4
  <2>2. QED
    BY <2>1 DEF DocumentEvents
<1>3. CASE plan[r].kind = "credit"
  <2>1. type \in {"CreditAnalysisCompleted", "FraudScreeningRequested"}
    BY <1>1, <1>3, WritesAre DEF Writes, Result, Request
  <2>2. QED
    BY <1>3, <2>1
<1>4. CASE plan[r].kind = "fraud"
  <2>1. type \in {"FraudScreeningCompleted", "ComplianceCheckRequested"}
    BY <1>1, <1>4, WritesAre DEF Writes, Result, Request
  <2>2. QED
    BY <1>4, <2>1
<1>5. CASE plan[r].kind = "compliance"
  <2>1. \/ NodeOf(r) = "evaluate_rules" /\ Writes(r) = <<"ComplianceCheckCompleted">>
        \/ type \in {"ApplicationDeclined", "DecisionRequested"}
    <3>1. PICK s : s = Writes(r)
      OBVIOUS
    <3>2. \/ s = <<>>
          \/ NodeOf(r) = "evaluate_rules" /\ s = <<"ComplianceCheckCompleted">>
          \/ s = <<"ApplicationDeclined">>
          \/ s = <<"DecisionRequested">>
      BY <1>1, <1>5, <3>1, WritesAre DEF Writes
    <3>3. write[r] \in DOMAIN s /\ type = s[write[r]]
      BY <1>1, <3>1
    <3>4. \A t : DOMAIN <<t>> = {1}
      OBVIOUS
    <3>5. QED
      BY <3>1, <3>2, <3>3, <3>4
  <2>2. CASE NodeOf(r) = "evaluate_rules" /\ Writes(r) = <<"ComplianceCheckCompleted">>
    <3>1. ~(write[r] < Len(Writes(r))) /\ NodeOf(r) # "write_output"
      BY <1>1, <2>2
    <3>2. step'[r] = "record"
      BY <3>1 DEF AppendBatch, GoTo, IInv, TypeOK
    <3>3. QED
      BY <1>1, <1>5, <2>2, <3>2, ComplianceNodes
  <2>3. QED
    BY <2>1, <2>2
<1>6. CASE plan[r].kind = "decision"
  <2>1. PICK s : s = Writes(r)
    OBVIOUS
  <2>2. \/ s = <<>>
        \/ \E t \in Outcomes :
             /\ s = <<"DecisionGenerated", t>>
             /\ t = "ApplicationApproved" => found[r].recommendation = "APPROVE"
    BY <1>6, <2>1, DecisionWritesAre DEF Writes
  <2>3. write[r] \in DOMAIN s /\ type = s[write[r]]
    BY <1>1, <2>1
  <2>4. /\ type = "DecisionGenerated" \/ type \in Outcomes
        /\ type = "ApplicationApproved" => found[r].recommendation = "APPROVE"
    <3>1. \A t : DOMAIN <<"DecisionGenerated", t>> = {1, 2}
      OBVIOUS
    <3>2. QED
      BY <2>2, <2>3, <3>1
  <2>5. node[r] = 7
    BY <1>1, <1>6 DEF DecisionInv, Read
  <2>6. QED
    BY <1>6, <2>4, <2>5 DEF Outcomes
<1>7. QED
  BY <1>1, <1>2, <1>3, <1>4, <1>5, <1>6 DEF Kinds

LEMMA AppendBatchKeeps ==
  ASSUME IInv, DecisionInv, NEW r \in Run, AppendBatch(r)
  PROVE  DecisionInv'
<1>1. PICK type : type = Writes(r)[write[r]]
  OBVIOUS
<1>2. PICK e : e = Event(type, r, ValueOf(r, type))
  OBVIOUS
<1>3. /\ LogKept
      /\ \A s \in Streams : \A i \in DOMAIN log'[s] :
           \/ i \in DOMAIN log[s] /\ log'[s][i] = log[s][i]
           \/ log'[s][i] = e
           \/ log'[s][i].type \in OpeningName
  BY <1>1, <1>2, AppendedLog
<1>4. e.type = type /\ e.by = r
      /\ (type = "ComplianceCheckCompleted" => e.value = found[r].verdict)
  BY <1>2 DEF Event, ValueOf
<1>5. /\ UNCHANGED <<plan, found, source, node>>
      /\ \A q \in Run \ {r} : step'[q] = step[q]
      /\ step[r] = "append"
  BY DEF AppendBatch, GoTo, IInv, TypeOK
<1>6. /\ type = "CreditAnalysisCompleted" => plan[r].kind = "credit"
      /\ type = "FraudScreeningCompleted" => plan[r].kind = "fraud"
      /\ type = "ComplianceCheckCompleted" =>
           plan[r].kind = "compliance" /\ node[r] = 3 /\ step'[r] = "record"
      /\ type = "ApplicationApproved" =>
           /\ plan[r].kind = "decision" /\ node[r] = 7
           /\ found[r].recommendation = "APPROVE"
  BY <1>1, AppendsAre
<1>7. {"loan", "credit", "fraud", "compliance"} \subseteq Streams
  BY DEF Streams
<1>8. {"CreditAnalysisCompleted", "FraudScreeningCompleted", "ComplianceCheckCompleted",
       "ApplicationApproved"} \cap OpeningName = {}
  BY DEF OpeningName
<1>9. step'[r] \notin Before \/ plan[r].kind # "compliance" \/ node[r] # 3
  <2>1. plan[r].kind = "compliance" /\ node[r] = 3 => type = "ComplianceCheckCompleted"
    <3> SUFFICES ASSUME plan[r].kind = "compliance", node[r] = 3
                 PROVE  type = "ComplianceCheckCompleted"
      OBVIOUS
    <3>1. NodeOf(r) = "evaluate_rules"
      BY ComplianceNodes
    <3>2. Writes(r) = <<"ComplianceCheckCompleted">>
      BY <3>1 DEF Writes, WritesAt, ComplianceWrites
    <3>3. write[r] \in DOMAIN Writes(r)
      BY <1>5 DEF IInv, RunInv
    <3>4. QED
      BY <1>1, <3>2, <3>3
  <2>2. QED
    BY <1>6, <2>1 DEF Before
<1>10. JudgedOnce'
  <2> SUFFICES ASSUME NEW j \in DOMAIN log'["compliance"], NEW d,
                      d = log'["compliance"][j], d.type = "ComplianceCheckCompleted"
               PROVE  /\ d.by \in Run /\ plan[d.by].kind = "compliance"
                      /\ d.value = found[d.by].verdict
                      /\ node[d.by] = 4 \/ (node[d.by] = 3 /\ step'[d.by] \notin Before)
    BY <1>5 DEF JudgedOnce, Before
  <2>1. d = e \/ \E i \in DOMAIN log["compliance"] : d = log["compliance"][i]
    BY <1>3, <1>7, <1>8
  <2>2. CASE d = e
    BY <1>4, <1>6, <2>2 DEF Before
  <2>3. CASE \E i \in DOMAIN log["compliance"] : d = log["compliance"][i]
    <3>1. /\ d.by \in Run /\ plan[d.by].kind = "compliance"
          /\ d.value = found[d.by].verdict
          /\ node[d.by] = 4 \/ (node[d.by] = 3 /\ step[d.by] \notin Before)
      BY <2>3 DEF DecisionInv, JudgedOnce
    <3>2. QED
      BY <1>5, <1>9, <3>1
  <2>4. QED
    BY <2>1, <2>2, <2>3
<1>11. ResultsSigned'
  <2>1. ASSUME NEW s \in {"credit", "fraud"}, NEW j \in DOMAIN log'[s],
               log'[s][j].type \in {"CreditAnalysisCompleted", "FraudScreeningCompleted"}
        PROVE  log'[s][j] = e \/ \E i \in DOMAIN log[s] : log'[s][j] = log[s][i]
    BY <1>3, <1>7, <1>8, <2>1
  <2>2. QED
    BY <1>4, <1>5, <1>6, <2>1 DEF DecisionInv, ResultsSigned
<1>12. ASSUME NEW q \in Run, plan'[q].kind = "decision" PROVE Read(q)'
  <2>1. Read(q)
    BY <1>5, <1>12 DEF DecisionInv
  <2>2. step'[q] \in {"version", "append", "output", "record"} => node[q] = 7
    BY <1>5, <2>1 DEF Read
  <2>3. ASSUME VerdictRead(q) PROVE VerdictRead(q)'
    <3> SUFFICES ASSUME NEW j \in DOMAIN log'["compliance"], NEW d,
                        d = log'["compliance"][j], d.type = "ComplianceCheckCompleted",
                        d.by \in source[q]
                 PROVE  d.value = found[q].verdict
      BY <1>5 DEF VerdictRead
    <3>1. d = e \/ \E i \in DOMAIN log["compliance"] : d = log["compliance"][i]
      BY <1>3, <1>7, <1>8
    <3>2. d # e
      <4>1. d = e => plan[r].kind = "compliance" /\ node[r] = 3 /\ r \in source[q]
        BY <1>4, <1>6
      <4>2. plan[r].kind = "compliance" /\ r \in source[q] => HasJudged(r)
        BY <2>1 DEF Read
      <4>3. HasJudged(r) => node[r] = 4 \/ step[r] \notin Before
        BY DEF HasJudged, DecisionInv, JudgedOnce
      <4>4. QED
        BY <1>5, <4>1, <4>2, <4>3 DEF Before
    <3>3. QED
      BY <2>3, <3>1, <3>2 DEF VerdictRead
  <2>4. QED
    BY <1>3, <1>5, <2>1, <2>2, <2>3, ReadKept DEF Read
<1>13. ApprovalsSigned'
  <2> SUFFICES ASSUME NEW i \in DOMAIN log'["loan"], NEW d,
                      d = log'["loan"][i], d.type = "ApplicationApproved"
               PROVE  /\ d.by \in Run /\ plan[d.by].kind = "decision" /\ node[d.by] = 7
                      /\ found[d.by].recommendation = "APPROVE"
    BY <1>5 DEF ApprovalsSigned
  <2>1. d = e \/ \E j \in DOMAIN log["loan"] : d = log["loan"][j]
    BY <1>3, <1>7, <1>8
  <2>2. CASE d = e
    BY <1>4, <1>6, <2>2
  <2>3. CASE \E j \in DOMAIN log["loan"] : d = log["loan"][j]
    BY <2>3 DEF DecisionInv, ApprovalsSigned
  <2>4. QED
    BY <2>1, <2>2, <2>3
<1>14. QED
  BY <1>10, <1>11, <1>12, <1>13 DEF DecisionInv

LEMMA InitDecisionInv == Init => DecisionInv
<1> SUFFICES ASSUME Init PROVE DecisionInv
  OBVIOUS
<1>1. PICK setup \in Setups :
        log = [s \in Streams |-> IF s = "loan" THEN setup[2] ELSE <<>>]
  BY DEF Init
<1>2. setup[2] \in Seeds
  BY PipelineAssumption
<1>3. \A s \in {"credit", "fraud", "compliance"} : log[s] = <<>>
  BY <1>1 DEF Streams
<1>4. JudgedOnce /\ ResultsSigned
  BY <1>3 DEF JudgedOnce, ResultsSigned
<1>5. \A r \in Run : Read(r)
  BY DEF Init, Read
<1>6. ApprovalsSigned
  <2>1. IInv
    BY InitIInv
  <2> DEFINE a == Event("ApplicationSubmitted", Nobody, "none")
             b == Event("DocumentUploaded", Nobody, "none")
  <2>2. a.type = "ApplicationSubmitted" /\ b.type = "DocumentUploaded"
    BY DEF Event
  <2>3. setup[2] = <<>> \/ setup[2] = <<a>> \/ setup[2] = <<a, b>>
    BY <1>2 DEF Seeds
  <2> HIDE DEF a, b
  <2>4. log["loan"] = setup[2]
    BY <1>1 DEF Streams
  <2>5. \A i \in DOMAIN setup[2] : setup[2][i] = a \/ setup[2][i] = b
    <3>1. DOMAIN <<a, b>> = {1, 2} /\ DOMAIN <<a>> = {1}
      OBVIOUS
    <3>2. QED
      BY <2>3, <3>1
  <2>6. QED
    BY <2>2, <2>4, <2>5 DEF ApprovalsSigned
<1>7. QED
  BY <1>4, <1>5, <1>6 DEF DecisionInv

LEMMA NextKeeps == IInv /\ IInv' /\ DecisionInv /\ [Next]_vars => DecisionInv'
<1> SUFFICES ASSUME IInv, IInv', DecisionInv, [Next]_vars PROVE DecisionInv'
  OBVIOUS
<1>1. CASE UNCHANGED vars
  <2>1. UNCHANGED <<plan, log, step, node, found, source>>
    BY <1>1 DEF vars, local
  <2>2. JudgedOnce' /\ ResultsSigned' /\ ApprovalsSigned'
    BY <2>1 DEF DecisionInv, JudgedOnce, ResultsSigned, ApprovalsSigned, Before
  <2>3. ASSUME NEW q \in Run, plan'[q].kind = "decision" PROVE Read(q)'
    <3>1. LogKept
      BY <2>1 DEF LogKept, Kept
    <3>2. VerdictRead(q) => VerdictRead(q)'
      BY <2>1 DEF VerdictRead
    <3>3. QED
      BY <2>1, <2>3, <3>1, <3>2, ReadKept DEF DecisionInv, Read
  <2>4. QED
    BY <2>2, <2>3 DEF DecisionInv
<1>2. ASSUME NEW r \in Run, RunStep(r) \/ RaiseOther(r) PROVE DecisionInv'
  <2>1. CASE Start(r)
    BY <2>1, LineKeeps DEF Start
  <2>2. CASE Recover(r)
    BY <2>2, LineKeeps DEF Recover
  <2>3. CASE ReadVersion(r)
    BY <2>3, LineKeeps DEF ReadVersion
  <2>4. CASE Conflict(r)
    BY <2>4, LineKeeps DEF Conflict, GiveUp
  <2>5. CASE RecordOutput(r)
    BY <2>5, LineKeeps DEF RecordOutput
  <2>6. CASE CompleteSession(r)
    BY <2>6, LineKeeps DEF CompleteSession
  <2>7. CASE RaiseMissing(r) \/ RaiseOther(r)
    BY <2>7, LineKeeps DEF RaiseMissing, RaiseOther, GiveUp
  <2>8. QED
    BY <1>2, <2>1, <2>2, <2>3, <2>4, <2>5, <2>6, <2>7, InvestigateKeeps, BeginWritingKeeps,
       AppendBatchKeeps, RecordNodeKeeps DEF RunStep
<1>3. QED
  BY <1>1, <1>2 DEF Next, Quiescent

LEMMA DecisionInvariance == Spec => [](IInv /\ DecisionInv)
<1>1. Init => IInv /\ DecisionInv
  BY InitIInv, InitDecisionInv
<1>2. IInv /\ DecisionInv /\ [Next]_vars => (IInv /\ DecisionInv)'
  BY NextStep, NextKeeps
<1>3. QED
  BY <1>1, <1>2, PTL DEF Spec

\* No application is approved by the orchestrator against the results its decision
\* names: there is a verdict among them and none that is BLOCKED, the fraud score is not
\* high, and a HIGH credit tier takes a high confidence.
THEOREM ApprovalsAreJustified == Spec => []ApprovalsJustified
<1>1. IInv /\ DecisionInv => ApprovalsJustified
  <2> SUFFICES ASSUME IInv, DecisionInv, NEW i \in DOMAIN log["loan"],
                      log["loan"][i].type = "ApplicationApproved",
                      NEW r, r = log["loan"][i].by
               PROVE  /\ \E j \in DOMAIN log["compliance"] :
                           LET e == log["compliance"][j]
                           IN  /\ e.type = "ComplianceCheckCompleted"
                               /\ e.by \in source[r] /\ e.value # "BLOCKED"
                      /\ ~Named(r, "ComplianceCheckCompleted", "BLOCKED")
                      /\ Named(r, "FraudScreeningCompleted", "low")
                      /\ \/ Named(r, "CreditAnalysisCompleted", "MEDIUM")
                         \/ found[r].confidence = "high"
    BY DEF ApprovalsJustified
  <2>1. /\ r \in Run /\ plan[r].kind = "decision" /\ node[r] = 7
        /\ found[r].recommendation = "APPROVE"
    BY DEF DecisionInv, ApprovalsSigned
  <2>2. /\ Acceptable(found[r]) /\ VerdictRead(r)
        /\ Named(r, "CreditAnalysisCompleted", found[r].tier)
        /\ Named(r, "FraudScreeningCompleted", found[r].score)
        /\ Named(r, "ComplianceCheckCompleted", found[r].verdict)
    BY <2>1 DEF DecisionInv, Read
  <2>3. ~Named(r, "ComplianceCheckCompleted", "BLOCKED")
    BY <2>2 DEF Named, VerdictRead, Acceptable, StreamOf, PackageEvents
  <2>4. \E j \in DOMAIN log["compliance"] :
          LET e == log["compliance"][j]
          IN  /\ e.type = "ComplianceCheckCompleted"
              /\ e.by \in source[r] /\ e.value # "BLOCKED"
    BY <2>2 DEF Named, Acceptable, StreamOf, PackageEvents
  <2>5. QED
    BY <2>2, <2>3, <2>4 DEF Acceptable
<1>2. QED
  BY <1>1, DecisionInvariance, PTL

--------------------------------------------------------------------------------
(* What a session stream says of the streams its run writes to. *)

Working == {"work", "version", "append", "output", "record"}

Size(p) == Len(Graph[plan[p].kind])

\* How many entries open a session, and where its k-th node is recorded: the last
\* node of a graph comes after the entry AgentOutputWritten.
Opening(p) == IF plan[p].prior = Nobody THEN 1 ELSE 2
EntryAt(p, k) == IF k < Size(p) THEN Opening(p) + k ELSE Opening(p) + k + 1

\* The session has an entry for each of the first n nodes, and for no other.
Entered(p, n) ==
  LET graph == Graph[plan[p].kind]
  IN  /\ \A k \in 1..n : /\ EntryAt(p, k) \in DOMAIN session[p]
                         /\ session[p][EntryAt(p, k)] = graph[k]
      /\ \A i \in DOMAIN session[p] :
           session[p][i] \in Range(graph) => \E k \in 1..n : i = EntryAt(p, k)

\* All that the first n nodes append is there.
Behind(p, n) ==
  \A i \in 1..n : \A type \in Range(WritesAt(p, Graph[plan[p].kind][i])) :
    Appended(p, type)

SessionInv(p) ==
  /\ step[p] = "idle" => session[p] = <<>> /\ node[p] = 1
  /\ step[p] # "idle" =>
       \E n \in {node[p] - 1, node[p]} :
         /\ Entered(p, n) /\ Behind(p, n)
         /\ n = node[p] => n = Size(p)
         /\ step[p] \in Working => n = node[p] - 1
         /\ step[p] \in {"complete", "done"} => n = node[p]
  /\ step[p] \in Working =>
       Len(session[p]) =
         Opening(p) + node[p] - (IF step[p] = "record" /\ node[p] = Size(p) THEN 0 ELSE 1)
  /\ step[p] = "recover" =>
       plan[p].prior # Nobody /\ node[p] = 1 /\ session[p] = <<"AgentSessionStarted">>
  /\ step[p] = "failed" =>
       session[p] # <<>> /\ session[p][Len(session[p])] = "AgentSessionFailed"

\* The appends of the node that is under way.
Progress(p) ==
  /\ step[p] \in {"version", "append"} =>
       \A j \in 1..(write[p] - 1) : Appended(p, Writes(p)[j])
  /\ step[p] \in {"output", "record"} =>
       \A type \in Range(Writes(p)) : Appended(p, type)

\* The node of an agent of this kind that appends an event of the type.
Place(kind, type) ==
  CASE type = "DocumentUploaded" -> 1
    [] type = "DocumentFormatValidated" -> 2
    [] type \in {"ExtractionCompleted", "ComplianceCheckCompleted"} -> 3
    [] type = "QualityAssessmentCompleted" -> 5
    [] OTHER -> Len(Graph[kind])

NothingAhead(p) ==
  \A s \in Streams : \A j \in DOMAIN log[s] :
    log[s][j].by = p /\ log[s][j].type \in EventName =>
      Place(plan[p].kind, log[s][j].type) <= node[p]

ContextInv ==
  \A p \in Run :
    /\ SessionInv(p) /\ Progress(p) /\ NothingAhead(p)
    /\ step[p] # "idle" /\ plan[p].prior # Nobody =>
         step[plan[p].prior] \in {"failed", "crashed"}

--------------------------------------------------------------------------------
(* Graphs again. *)

\* A node occurs once in its graph, and write_output is the last.
LEMMA GraphsAre ==
  ASSUME NEW k \in Kinds
  PROVE  /\ Len(Graph[k]) \in 1..7 /\ DOMAIN Graph[k] = 1..Len(Graph[k])
         /\ \A i, j \in DOMAIN Graph[k] : Graph[k][i] = Graph[k][j] => i = j
         /\ \A i \in DOMAIN Graph[k] : Graph[k][i] = "write_output" <=> i = Len(Graph[k])
         /\ \A i \in DOMAIN Graph[k] :
              Graph[k][i] \notin {"AgentSessionStarted", "AgentSessionRecovered",
                                  "AgentOutputWritten", "AgentSessionCompleted",
                                  "AgentSessionFailed", "AgentNodeExecuted", "unknown"}
         /\ \A i \in DOMAIN Graph[k] : Graph[k][i] = "validate_inputs" => i = 1
<1>1. Len(Graph[k]) \in 1..7 /\ DOMAIN Graph[k] = 1..Len(Graph[k])
  BY GraphLengths
<1>2. \A i \in 1..7 : i = 1 \/ i = 2 \/ i = 3 \/ i = 4 \/ i = 5 \/ i = 6 \/ i = 7
  OBVIOUS
<1>3. CASE k = "document"
  <2>1. PICK g : g = Graph[k]
    OBVIOUS
  <2>2. /\ Len(g) = 6 /\ DOMAIN g = 1..6
        /\ g[1] = "validate_inputs" /\ g[2] = "validate_document_formats"
        /\ g[3] = "extract_income_statement" /\ g[4] = "extract_balance_sheet"
        /\ g[5] = "assess_quality" /\ g[6] = "write_output"
    BY <1>3, <2>1 DEF Graph, DocumentGraph
  <2>3. QED
    BY <1>1, <1>2, <2>1, <2>2
<1>4. CASE k = "credit"
  <2>1. PICK g : g = Graph[k]
    OBVIOUS
  <2>2. /\ Len(g) = 4 /\ DOMAIN g = 1..4
        /\ g[1] = "validate_inputs" /\ g[2] = "load_applicant_registry"
        /\ g[3] = "analyze_credit_risk" /\ g[4] = "write_output"
    BY <1>4, <2>1 DEF Graph, CreditGraph
  <2>3. QED
    BY <1>1, <1>2, <2>1, <2>2
<1>5. CASE k = "fraud"
  <2>1. PICK g : g = Graph[k]
    OBVIOUS
  <2>2. /\ Len(g) = 5 /\ DOMAIN g = 1..5
        /\ g[1] = "validate_inputs" /\ g[2] = "load_document_facts"
        /\ g[3] = "cross_reference_registry" /\ g[4] = "analyze_fraud_patterns"
        /\ g[5] = "write_output"
    BY <1>5, <2>1 DEF Graph, FraudGraph
  <2>3. QED
    BY <1>1, <1>2, <2>1, <2>2
<1>6. CASE k = "compliance"
  <2>1. PICK g : g = Graph[k]
    OBVIOUS
  <2>2. /\ Len(g) = 4 /\ DOMAIN g = 1..4
        /\ g[1] = "validate_inputs" /\ g[2] = "load_company_profile"
        /\ g[3] = "evaluate_rules" /\ g[4] = "write_output"
    BY <1>6, <2>1 DEF Graph, ComplianceGraph
  <2>3. QED
    BY <1>1, <1>2, <2>1, <2>2
<1>7. CASE k = "decision"
  <2>1. PICK g : g = Graph[k]
    OBVIOUS
  <2>2. /\ Len(g) = 7 /\ DOMAIN g = 1..7
        /\ g[1] = "validate_inputs" /\ g[2] = "load_credit_result"
        /\ g[3] = "load_fraud_result" /\ g[4] = "load_compliance_result"
        /\ g[5] = "synthesize_decision" /\ g[6] = "apply_hard_constraints"
        /\ g[7] = "write_output"
    BY <1>7, <2>1 DEF Graph, DecisionGraph
  <2>3. QED
    BY <1>1, <1>2, <2>1, <2>2
<1>8. QED
  BY <1>3, <1>4, <1>5, <1>6, <1>7 DEF Kinds

\* What a node appends is the node's own affair, and settled before the last node.
LEMMA WritesPlaced ==
  ASSUME NEW r, plan[r].kind \in Kinds, NEW i \in DOMAIN Graph[plan[r].kind],
         NEW type \in Range(WritesAt(r, Graph[plan[r].kind][i]))
  PROVE  type \in EventName /\ Place(plan[r].kind, type) = i
<1> DEFINE k == plan[r].kind
<1>1. PICK g : g = Graph[k]
  OBVIOUS
<1>2. PICK s : s = WritesAt(r, g[i])
  OBVIOUS
<1>3. PICK j \in DOMAIN s : type = s[j]
  BY <1>1, <1>2 DEF Range
<1>4. \A m \in 1..7 : m = 1 \/ m = 2 \/ m = 3 \/ m = 4 \/ m = 5 \/ m = 6 \/ m = 7
  OBVIOUS
<1>5. \A t : DOMAIN <<t>> = {1}
  OBVIOUS
<1>6. \A t, u : DOMAIN <<t, u>> = {1, 2}
  OBVIOUS
<1>7. CASE k = "document"
  <2>1. /\ Len(g) = 6 /\ DOMAIN g = 1..6
        /\ g[1] = "validate_inputs" /\ g[2] = "validate_document_formats"
        /\ g[3] = "extract_income_statement" /\ g[4] = "extract_balance_sheet"
        /\ g[5] = "assess_quality" /\ g[6] = "write_output"
    BY <1>1, <1>7 DEF Graph, DocumentGraph
  <2>2. /\ s = WritesAt(r, g[i])
        /\ g[i] = "validate_inputs" => s = <<"DocumentUploaded">>
        /\ g[i] = "validate_document_formats" => s = <<"DocumentFormatValidated">>
        /\ g[i] = "extract_income_statement" => s = <<"ExtractionCompleted">>
        /\ g[i] = "extract_balance_sheet" => s = <<>>
        /\ g[i] = "assess_quality" => s = <<"QualityAssessmentCompleted">>
        /\ g[i] = "write_output" => s = <<"PackageReadyForAnalysis", "CreditAnalysisRequested">>
    BY <1>2, <1>7 DEF WritesAt, DocumentWrites, Handoff
  <2>3. i \in 1..6
    BY <1>1, <2>1
  <2>4. \/ i = 1 /\ type = "DocumentUploaded"
        \/ i = 2 /\ type = "DocumentFormatValidated"
        \/ i = 3 /\ type = "ExtractionCompleted"
        \/ i = 5 /\ type = "QualityAssessmentCompleted"
        \/ i = 6 /\ type \in {"PackageReadyForAnalysis", "CreditAnalysisRequested"}
    BY <1>3, <1>4, <1>5, <1>6, <2>1, <2>2, <2>3
  <2>5. QED
    BY <1>1, <2>1, <2>4 DEF Place, EventName
<1>8. CASE k = "credit"
  <2>1. /\ g[i] # "write_output" => s = <<>>
        /\ g[i] = "write_output" => s = <<"CreditAnalysisCompleted", "FraudScreeningRequested">>
    BY <1>2, <1>8 DEF WritesAt, CreditWrites, Handoff
  <2>2. i = Len(g) /\ type \in {"CreditAnalysisCompleted", "FraudScreeningRequested"}
    BY <1>1, <1>3, <1>6, <2>1, GraphsAre
  <2>3. QED
    BY <1>1, <2>2 DEF Place, EventName
<1>9. CASE k = "fraud"
  <2>1. /\ g[i] # "write_output" => s = <<>>
        /\ g[i] = "write_output" => s = <<"FraudScreeningCompleted", "ComplianceCheckRequested">>
    BY <1>2, <1>9 DEF WritesAt, FraudWrites, Handoff
  <2>2. i = Len(g) /\ type \in {"FraudScreeningCompleted", "ComplianceCheckRequested"}
    BY <1>1, <1>3, <1>6, <2>1, GraphsAre
  <2>3. QED
    BY <1>1, <2>2 DEF Place, EventName
<1>10. CASE k = "compliance"
  <2>1. /\ g[i] \notin {"evaluate_rules", "write_output"} => s = <<>>
        /\ g[i] = "evaluate_rules" => s = <<"ComplianceCheckCompleted">>
        /\ g[i] = "write_output" => s = <<"ApplicationDeclined">> \/ s = <<"DecisionRequested">>
    BY <1>2, <1>10 DEF WritesAt, ComplianceWrites
  <2>2. \/ i = Len(g) /\ type \in {"ApplicationDeclined", "DecisionRequested"}
        \/ i = 3 /\ type = "ComplianceCheckCompleted"
    <3>1. g[i] = "evaluate_rules" => i = 3
      BY <1>1, <1>4, <1>10, ComplianceGraphIs, GraphsAre
    <3>2. g[i] = "write_output" => i = Len(g)
      BY <1>1, GraphsAre
    <3>3. QED
      BY <1>3, <1>5, <2>1, <3>1, <3>2
  <2>3. QED
    BY <1>1, <2>2 DEF Place, EventName
<1>11. CASE k = "decision"
  <2>1. \/ s = <<>>
        \/ g[i] = "write_output" /\ \E t \in Outcomes : s = <<"DecisionGenerated", t>>
    BY <1>2, <1>11, DecisionWritesAre
  <2>2. i = Len(g) /\ type \in {"DecisionGenerated"} \cup Outcomes
    BY <1>1, <1>3, <1>6, <2>1, GraphsAre
  <2>3. QED
    BY <1>1, <2>2 DEF Place, EventName, Outcomes
<1>12. QED
  BY <1>7, <1>8, <1>9, <1>10, <1>11 DEF Kinds

\* Whatever a run finds, it does not change what earlier nodes append.
LEMMA EarlierWrites ==
  ASSUME NEW r, plan[r].kind \in Kinds, plan' = plan, NEW n, n # "write_output"
  PROVE  WritesAt(r, n)' = WritesAt(r, n)
<1>1. CASE plan[r].kind \in {"document", "credit", "fraud"}
  BY <1>1 DEF WritesAt
<1>2. CASE plan[r].kind = "compliance"
  BY <1>2 DEF WritesAt, ComplianceWrites
<1>3. CASE plan[r].kind = "decision"
  BY <1>3 DEF WritesAt, DecisionWrites
<1>4. QED
  BY <1>1, <1>2, <1>3 DEF Kinds

--------------------------------------------------------------------------------
(* What a session whose entries are known tells its reader. *)

\* Where the first m nodes of a graph are recorded, after o opening entries.
Entries(o, size, m) == {IF k < size THEN o + k ELSE o + k + 1 : k \in 1..m}

LEMMA EntriesCounted ==
  ASSUME NEW o \in Nat, NEW size \in Nat, NEW m \in 0..size
  PROVE  IsFiniteSet(Entries(o, size, m)) /\ Cardinality(Entries(o, size, m)) = m
<1> DEFINE S == Entries(o, size, m)
<1>0. \A i : i \in S <=> \E k \in 1..m : i = IF k < size THEN o + k ELSE o + k + 1
  BY DEF Entries
<1> SUFFICES IsFiniteSet(S) /\ Cardinality(S) = m
  OBVIOUS
<1> HIDE DEF S
<1>1. CASE m < size
  <2>1. S = (o + 1)..(o + m)
    <3>1. ASSUME NEW i \in S PROVE i \in (o + 1)..(o + m)
      <4>1. PICK k \in 1..m : i = IF k < size THEN o + k ELSE o + k + 1
        BY <1>0
      <4>2. QED
        BY <1>1, <4>1
    <3>2. ASSUME NEW i \in (o + 1)..(o + m) PROVE i \in S
      <4>1. i - o \in 1..m /\ i - o < size /\ i = o + (i - o)
        BY <1>1
      <4>2. QED
        BY <1>0, <4>1
    <3>3. QED
      BY <3>1, <3>2
  <2>2. QED
    BY <2>1, FS_Interval
<1>2. CASE m = size
  <2>1. CASE m = 0
    <3>1. S = {}
      BY <1>0, <2>1
    <3>2. QED
      BY <2>1, <3>1, FS_EmptySet
  <2>2. CASE m # 0
    <3> DEFINE T == (o + 1)..(o + m - 1)
    <3>1. IsFiniteSet(T) /\ Cardinality(T) = m - 1
      BY <2>2, FS_Interval
    <3>2. o + m + 1 \notin T
      OBVIOUS
    <3>3. S = T \cup {o + m + 1}
      <4>1. ASSUME NEW i \in S PROVE i \in T \cup {o + m + 1}
        <5>1. PICK k \in 1..m : i = IF k < size THEN o + k ELSE o + k + 1
          BY <1>0
        <5>2. QED
          BY <1>2, <5>1
      <4>2. ASSUME NEW i \in T PROVE i \in S
        <5>1. i - o \in 1..m /\ i - o < size /\ i = o + (i - o)
          BY <1>2
        <5>2. QED
          BY <1>0, <5>1
      <4>3. o + m + 1 \in S
        <5>1. m \in 1..m /\ ~(m < size)
          BY <1>2, <2>2
        <5>2. QED
          BY <1>0, <5>1
      <4>4. QED
        BY <4>1, <4>2, <4>3
    <3> HIDE DEF T
    <3>4. QED
      BY <3>1, <3>2, <3>3, FS_AddElement
  <2>3. QED
    BY <2>1, <2>2
<1>3. QED
  BY <1>1, <1>2

LEMMA EntriesGrow ==
  ASSUME NEW o \in Nat, NEW size \in Nat, NEW k \in Nat, NEW l \in Nat
  PROVE  LET At(j) == IF j < size THEN o + j ELSE o + j + 1
         IN  At(k) \in Nat /\ (At(k) < At(l) <=> k < l) /\ (At(k) = At(l) => k = l)
OBVIOUS

\* The n-th position, when the positions are those of n entries.
LEMMA NthEntry ==
  ASSUME NEW o \in Nat, NEW size \in Nat, NEW n \in 0..size, NEW k \in 1..n
  PROVE  Nth(Entries(o, size, n), k) = IF k < size THEN o + k ELSE o + k + 1
<1> DEFINE At(j) == IF j < size THEN o + j ELSE o + j + 1
           S == Entries(o, size, n)
           Below(i) == {j \in S : j < i}
<1>0. \A i : i \in S <=> \E j \in 1..n : i = At(j)
  BY DEF Entries
<1>1. ASSUME NEW l \in 1..n
      PROVE  At(l) \in S /\ Cardinality(Below(At(l))) = l - 1
  <2>1. At(l) \in S
    BY <1>0
  <2>2. PICK m \in 0..size : m = l - 1
    OBVIOUS
  <2>3. ASSUME NEW i \in Below(At(l)) PROVE i \in Entries(o, size, m)
    <3>1. PICK j \in 1..n : i = At(j)
      BY <1>0
    <3>2. At(j) < At(l)
      BY <3>1
    <3>3. j < l
      BY <3>2, EntriesGrow
    <3>4. j \in 1..m
      BY <2>2, <3>3
    <3>5. QED
      BY <3>1, <3>4 DEF Entries
  <2>4. ASSUME NEW i \in Entries(o, size, m) PROVE i \in Below(At(l))
    <3>1. PICK j \in 1..m : i = At(j)
      BY DEF Entries
    <3>2. j \in 1..n /\ j < l
      BY <2>2
    <3>3. At(j) < At(l)
      BY <3>2, EntriesGrow
    <3>4. At(j) \in S
      BY <1>0, <3>2
    <3>5. QED
      BY <3>1, <3>3, <3>4
  <2>5. Below(At(l)) = Entries(o, size, m)
    BY <2>3, <2>4
  <2>6. Cardinality(Entries(o, size, m)) = m
    BY EntriesCounted
  <2>7. QED
    BY <2>1, <2>2, <2>5, <2>6
<1>2. At(k) \in S /\ Cardinality(Below(At(k))) = k - 1
  BY <1>1
<1>3. ASSUME NEW i \in S, Cardinality(Below(i)) = k - 1
      PROVE  i = At(k)
  <2>1. PICK l \in 1..n : i = At(l)
    BY <1>0
  <2>2. Cardinality(Below(At(l))) = l - 1
    BY <1>1
  <2>3. l = k
    BY <1>3, <2>1, <2>2
  <2>4. QED
    BY <2>1, <2>3
<1>4. Nth(S, k) = CHOOSE i \in S : Cardinality(Below(i)) = k - 1
  BY DEF Nth
<1> HIDE DEF Below, S
<1>5. Nth(S, k) = At(k)
  BY <1>2, <1>3, <1>4
<1>6. QED
  BY <1>5 DEF S

LEMMA SizeIs ==
  ASSUME TypeOK, NEW p \in Run
  PROVE  /\ plan[p].kind \in Kinds /\ Size(p) \in 1..7 /\ node[p] \in 1..Size(p)
         /\ DOMAIN Graph[plan[p].kind] = 1..Size(p)
         /\ Opening(p) \in 1..2
         /\ session[p] \in Seq(SessionEvent)
<1>1. plan[p].kind \in Kinds /\ node[p] \in DOMAIN Graph[plan[p].kind]
  BY PlanTyped
<1>2. Size(p) \in 1..7 /\ DOMAIN Graph[plan[p].kind] = 1..Size(p)
  BY <1>1, GraphLengths DEF Size
<1>3. Opening(p) \in 1..2 /\ session[p] \in Seq(SessionEvent)
  BY DEF Opening, TypeOK
<1>4. QED
  BY <1>1, <1>2, <1>3

\* What a reader is told of a session in which the first n nodes are entered.
LEMMA ToldNodes ==
  ASSUME TypeOK, NEW p \in Run, NEW n \in 0..Size(p), Entered(p, n)
  PROVE  /\ Executed(Told(p)) = Entries(Opening(p), Size(p), n)
         /\ \A k \in 1..n : Told(p)[EntryAt(p, k)].node = Graph[plan[p].kind][k]
<1> DEFINE graph == Graph[plan[p].kind]
<1>1. /\ plan[p].kind \in Kinds /\ Size(p) \in 1..7 /\ DOMAIN graph = 1..Size(p)
      /\ session[p] \in Seq(SessionEvent)
  BY SizeIs
<1>2. DOMAIN Told(p) = DOMAIN session[p]
  BY DEF Told
<1>3. ASSUME NEW i \in DOMAIN session[p]
      PROVE  /\ Told(p)[i].node = session[p][i]
             /\ Told(p)[i].type = "AgentNodeExecuted" <=> session[p][i] \in Range(graph)
  <2>1. session[p][i] \in SessionEvent
    BY <1>1
  <2>2. "AgentNodeExecuted" \notin SessionEvent
    <3>1. \A k \in Kinds : "AgentNodeExecuted" \notin Range(Graph[k])
      BY GraphsAre DEF Range
    <3>2. QED
      BY <3>1, KindIs DEF SessionEvent
  <2>3. QED
    BY <2>1, <2>2 DEF Told
<1>4. \A i : i \in Executed(Told(p)) <=> i \in DOMAIN session[p] /\ session[p][i] \in Range(graph)
  BY <1>2, <1>3 DEF Executed
<1>5. \A k \in 1..n : /\ EntryAt(p, k) \in DOMAIN session[p]
                      /\ session[p][EntryAt(p, k)] = graph[k]
  BY DEF Entered
<1>6. \A k \in 1..n : graph[k] \in Range(graph)
  <2>1. \A k \in 1..n : k \in DOMAIN graph
    BY <1>1
  <2>2. QED
    BY <2>1 DEF Range
<1>7. \A i \in DOMAIN session[p] :
        session[p][i] \in Range(graph) => \E k \in 1..n : i = EntryAt(p, k)
  BY DEF Entered
<1>8. \A i : i \in Entries(Opening(p), Size(p), n) <=> \E k \in 1..n : i = EntryAt(p, k)
  BY DEF Entries, EntryAt
<1>9. \A i : i \in Executed(Told(p)) <=> i \in Entries(Opening(p), Size(p), n)
  <2> HIDE DEF graph
  <2>1. QED
    BY <1>4, <1>5, <1>6, <1>7, <1>8
<1>10. Executed(Told(p)) = Entries(Opening(p), Size(p), n)
  BY <1>9
<1>11. QED
  BY <1>3, <1>5, <1>10

LEMMA MaxOf ==
  ASSUME NEW n \in Nat, NEW S, S \subseteq 1..n, NEW m \in S, \A i \in S : i <= m
  PROVE  Max(S) = m
<1>1. Max(S) \in S /\ m \in Nat
  <2>1. S # {} /\ m \in Nat
    OBVIOUS
  <2>2. QED
    BY <2>1, LastPosition
<1>2. \A x \in S : x \in Nat
  OBVIOUS
<1>3. \A x \in S : (\A y \in S : x >= y) => x = m
  BY <1>1, <1>2
<1>4. \A y \in S : m >= y
  BY <1>1, <1>2
<1>5. QED
  BY <1>3, <1>4 DEF Max

\* The context a recovery is given lists the nodes entered, and names the last.
LEMMA ContextIs ==
  ASSUME TypeOK, NEW p \in Run, NEW n \in 0..Size(p), Entered(p, n)
  PROVE  /\ executed_nodes(Told(p)) = [k \in 1..n |-> Graph[plan[p].kind][k]]
         /\ last_successful_node(Told(p)) = IF n = 0 THEN "unknown" ELSE Graph[plan[p].kind][n]
<1> DEFINE graph == Graph[plan[p].kind]
<1>1. PICK o, size, S : o = Opening(p) /\ size = Size(p) /\ S = Executed(Told(p))
  OBVIOUS
<1>2. /\ o \in Nat /\ size \in 1..7 /\ n \in 0..size /\ S = Entries(o, size, n)
      /\ \A k \in 1..n : Told(p)[EntryAt(p, k)].node = graph[k]
      /\ \A k : EntryAt(p, k) = IF k < size THEN o + k ELSE o + k + 1
  BY <1>1, SizeIs, ToldNodes DEF EntryAt
<1>3. Cardinality(S) = n
  BY <1>2, EntriesCounted
<1>4. ASSUME NEW k \in 1..n PROVE Nth(S, k) = EntryAt(p, k)
  <2>1. o \in Nat /\ size \in Nat /\ n \in 0..size
    BY <1>2
  <2>2. Nth(Entries(o, size, n), k) = IF k < size THEN o + k ELSE o + k + 1
    BY <2>1, NthEntry
  <2>3. EntryAt(p, k) = IF k < size THEN o + k ELSE o + k + 1
    BY <1>2
  <2>4. QED
    BY <1>2, <2>2, <2>3
<1>5. executed_nodes(Told(p)) = [k \in 1..n |-> graph[k]]
  <2>1. executed_nodes(Told(p)) = [k \in 1..n |-> Told(p)[Nth(S, k)].node]
    BY <1>1, <1>3 DEF executed_nodes
  <2> HIDE DEF graph
  <2>2. QED
    BY <1>2, <1>4, <2>1
<1>6. CASE n = 0
  <2>1. S = {}
    BY <1>2, <1>6 DEF Entries
  <2>2. QED
    BY <1>1, <1>5, <1>6, <2>1 DEF last_successful_node
<1>7. CASE n # 0
  <2>1. n \in 1..n /\ EntryAt(p, n) \in S
    BY <1>2, <1>7 DEF Entries
  <2>2. \A i \in S : i \in 1..(o + size + 1) /\ i <= EntryAt(p, n)
    <3>1. TAKE i \in S
    <3>2. PICK k \in 1..n : i = IF k < size THEN o + k ELSE o + k + 1
      BY <1>2 DEF Entries
    <3>3. EntryAt(p, n) = IF n < size THEN o + n ELSE o + n + 1
      BY <1>2
    <3>4. QED
      BY <1>2, <3>2, <3>3
  <2>3. Max(S) = EntryAt(p, n)
    <3>1. o + size + 1 \in Nat /\ S \subseteq 1..(o + size + 1)
      BY <1>2, <2>2
    <3>2. QED
      BY <2>1, <2>2, <3>1, MaxOf
  <2>4. last_successful_node(Told(p)) = Told(p)[EntryAt(p, n)].node
    BY <1>1, <2>1, <2>3 DEF last_successful_node
  <2>5. QED
    BY <1>2, <1>5, <1>7, <2>1, <2>4
<1>8. QED
  BY <1>6, <1>7

--------------------------------------------------------------------------------
(* What a step leaves of the sessions. *)

LEMMA AppendedKept ==
  ASSUME LogKept
  PROVE  \A p, type : Appended(p, type) => Appended(p, type)'
<1> SUFFICES ASSUME NEW p, NEW type, Appended(p, type)
             PROVE  Appended(p, type)'
  OBVIOUS
<1>1. PICK e \in Range(log[StreamOf(type)]) :
        e.type = type /\ (e.by = p \/ type = "DocumentUploaded")
  BY DEF Appended
<1>2. PICK s \in Streams : s = StreamOf(type) /\ s = StreamOf(type)'
  BY StreamsAre DEF StreamOf, PackageEvents
<1>3. PICK i \in DOMAIN log[s] : e = log[s][i]
  BY <1>1, <1>2 DEF Range
<1>4. i \in DOMAIN log'[s] /\ log'[s][i] = e
  BY <1>2, <1>3 DEF LogKept, Kept
<1>5. e \in Range(log'[s])
  BY <1>4 DEF Range
<1>6. QED
  BY <1>1, <1>2, <1>5 DEF Appended

LEMMA PlaceTyped ==
  ASSUME NEW k \in Kinds, NEW type
  PROVE  Place(k, type) \in Nat
BY GraphLengths DEF Place

\* Sessions are read at places that do not depend on the step.
LEMMA SameShape ==
  ASSUME NEW q \in Run, plan' = plan
  PROVE  /\ Size(q)' = Size(q) /\ Opening(q)' = Opening(q)
         /\ \A k : EntryAt(q, k)' = EntryAt(q, k)
         /\ session'[q] = session[q] => \A n : Entered(q, n)' <=> Entered(q, n)
<1>1. Size(q)' = Size(q) /\ Opening(q)' = Opening(q)
  BY DEF Size, Opening, Graph
<1>2. \A k : EntryAt(q, k)' = EntryAt(q, k)
  BY <1>1 DEF EntryAt
<1>3. session'[q] = session[q] => \A n : Entered(q, n)' <=> Entered(q, n)
  BY <1>2 DEF Entered
<1>4. QED
  BY <1>1, <1>2, <1>3

LEMMA BehindKept ==
  ASSUME NEW q \in Run, plan' = plan, LogKept, found'[q] = found[q], NEW n, Behind(q, n)
  PROVE  Behind(q, n)'
<1>1. \A m : WritesAt(q, m)' = WritesAt(q, m)
  BY WritesSame
<1>2. \A type : Appended(q, type) => Appended(q, type)'
  BY AppendedKept
<1>3. QED
  BY <1>1, <1>2 DEF Behind

LEMMA OthersContext ==
  ASSUME ContextInv, NEW q \in Run, plan' = plan, LogKept, UNCHANGED LocalsOf(q),
         session'[q] = session[q]
  PROVE  SessionInv(q)' /\ Progress(q)'
<1>1. SessionInv(q) /\ Progress(q)
  BY DEF ContextInv
<1>2. /\ Size(q)' = Size(q) /\ Opening(q)' = Opening(q)
      /\ \A n : Entered(q, n) => Entered(q, n)'
  BY SameShape
<1>3. \A n : Behind(q, n) => Behind(q, n)'
  BY BehindKept DEF LocalsOf
<1>4. \A type : Appended(q, type) => Appended(q, type)'
  BY AppendedKept
<1>5. Writes(q)' = Writes(q)
  BY WritesSame DEF Writes, NodeOf, LocalsOf
<1>6. SessionInv(q)'
  BY <1>1, <1>2, <1>3 DEF SessionInv, Working, LocalsOf
<1>7. Progress(q)'
  BY <1>1, <1>4, <1>5 DEF Progress, LocalsOf
<1>8. QED
  BY <1>6, <1>7

\* A step of r that appends nothing to the streams of the application.
LEMMA QuietContext ==
  ASSUME IInv, ContextInv, NEW r \in Run, UNCHANGED <<plan, log>>,
         \A q \in Run \ {r} : UNCHANGED LocalsOf(q) /\ session'[q] = session[q],
         node'[r] = node[r] \/ node'[r] = node[r] + 1,
         step[r] \notin {"failed", "crashed"}, step[r] # "idle" \/ CanStart(r),
         SessionInv(r)', Progress(r)'
  PROVE  ContextInv'
<1>1. LogKept
  BY DEF LogKept, Kept
<1>2. \A q \in Run : SessionInv(q)' /\ Progress(q)'
  BY <1>1, OthersContext
<1>3. ASSUME NEW q \in Run PROVE NothingAhead(q)'
  <2>1. NothingAhead(q) /\ node[q] \in Nat /\ plan[q].kind \in Kinds
    BY PlanTyped DEF ContextInv, IInv, TypeOK
  <2>2. node'[q] = node[q] \/ node'[q] = node[q] + 1
    BY DEF LocalsOf
  <2>3. PICK m : m = node'[q]
    OBVIOUS
  <2>4. \A type : Place(plan[q].kind, type) <= node[q] => Place(plan[q].kind, type) <= m
    BY <2>1, <2>2, <2>3, PlaceTyped
  <2>5. \A type : Place(plan[q].kind, type)' = Place(plan[q].kind, type)
    BY DEF Place, Graph
  <2>6. QED
    BY <2>1, <2>3, <2>4, <2>5 DEF NothingAhead
<1>4. ASSUME NEW q \in Run, step'[q] # "idle", plan[q].prior # Nobody
      PROVE  step'[plan[q].prior] \in {"failed", "crashed"}
  <2>1. step[plan[q].prior] \in {"failed", "crashed"}
    <3>1. CASE q = r
      BY <1>4, <3>1 DEF ContextInv, CanStart
    <3>2. CASE q # r
      BY <1>4, <3>2 DEF ContextInv, LocalsOf
    <3>3. QED
      BY <3>1, <3>2
  <2>2. plan[q].prior \in Run \ {r}
    BY <1>4, <2>1, PlanTyped DEF IInv, Plan
  <2>3. QED
    BY <2>1, <2>2 DEF LocalsOf
<1>5. QED
  BY <1>2, <1>3, <1>4 DEF ContextInv

\* What is told of a session beside its nodes.
Remarks == {"AgentSessionStarted", "AgentSessionRecovered", "AgentOutputWritten",
            "AgentSessionCompleted", "AgentSessionFailed"}

LEMMA ToldSession ==
  ASSUME TypeOK, NEW r \in Run, NEW entry, Tell(r, entry)
  PROVE  /\ session[r] \in Seq(SessionEvent) /\ session'[r] = Append(session[r], entry)
         /\ Len(session'[r]) = Len(session[r]) + 1 /\ Len(session[r]) \in Nat
         /\ DOMAIN session[r] = 1..Len(session[r])
         /\ DOMAIN session'[r] = 1..(Len(session[r]) + 1)
         /\ session'[r][Len(session[r]) + 1] = entry
         /\ \A i \in DOMAIN session[r] : session'[r][i] = session[r][i]
         /\ \A q \in Run \ {r} : session'[q] = session[q]
<1>1. session \in [Run -> Seq(SessionEvent)]
  BY DEF TypeOK
<1>2. session'[r] = Append(session[r], entry) /\ \A q \in Run \ {r} : session'[q] = session[q]
  BY <1>1 DEF Tell
<1>3. PICK s : s = session[r]
  OBVIOUS
<1>4. s \in Seq(SessionEvent)
  BY <1>1, <1>3
<1>5. /\ Len(Append(s, entry)) = Len(s) + 1 /\ Len(s) \in Nat /\ DOMAIN s = 1..Len(s)
      /\ DOMAIN Append(s, entry) = 1..(Len(s) + 1)
      /\ Append(s, entry)[Len(s) + 1] = entry
      /\ \A i \in DOMAIN s : Append(s, entry)[i] = s[i]
  BY <1>4
<1>6. QED
  BY <1>2, <1>3, <1>4, <1>5

LEMMA RemarkEntered ==
  ASSUME TypeOK, NEW r \in Run, NEW entry \in Remarks, Tell(r, entry), plan' = plan,
         NEW n, Entered(r, n)
  PROVE  Entered(r, n)'
<1> DEFINE graph == Graph[plan[r].kind]
<1>1. /\ DOMAIN session[r] = 1..Len(session[r]) /\ Len(session[r]) \in Nat
      /\ DOMAIN session'[r] = 1..(Len(session[r]) + 1)
      /\ session'[r][Len(session[r]) + 1] = entry
      /\ \A i \in DOMAIN session[r] : session'[r][i] = session[r][i]
  BY ToldSession
<1>2. entry \notin Range(graph)
  BY GraphsAre, PlanTyped DEF Remarks, Range
<1>3. \A k : EntryAt(r, k)' = EntryAt(r, k)
  BY SameShape
<1>4. \A k \in 1..n : /\ EntryAt(r, k) \in DOMAIN session'[r]
                      /\ session'[r][EntryAt(r, k)] = graph[k]
  BY <1>1 DEF Entered
<1>5. ASSUME NEW i \in DOMAIN session'[r], session'[r][i] \in Range(graph)
      PROVE  \E k \in 1..n : i = EntryAt(r, k)
  <2>1. i # Len(session[r]) + 1
    BY <1>1, <1>2, <1>5
  <2>2. i \in DOMAIN session[r]
    BY <1>1, <2>1
  <2>3. QED
    BY <1>1, <1>5, <2>2 DEF Entered
<1>6. graph' = graph
  BY DEF Graph
<1>7. QED
  BY <1>3, <1>4, <1>5, <1>6 DEF Entered

LEMMA LogUnchanged == UNCHANGED log => LogKept
BY DEF LogKept, Kept

LEMMA LastNodeWrites ==
  ASSUME NEW r, plan[r].kind \in Kinds
  PROVE  WritesAt(r, "write_output") # <<>>
<1>1. \A t, u : <<t>> # <<>> /\ <<t, u>> # <<>>
  OBVIOUS
<1>2. CASE plan[r].kind \in {"document", "credit", "fraud"}
  BY <1>1, <1>2 DEF WritesAt, DocumentWrites, CreditWrites, FraudWrites, Handoff
<1>3. CASE plan[r].kind = "compliance"
  BY <1>1, <1>3 DEF WritesAt, ComplianceWrites
<1>4. CASE plan[r].kind = "decision"
  BY <1>1, <1>4 DEF WritesAt, DecisionWrites
<1>5. QED
  BY <1>2, <1>3, <1>4 DEF Kinds

\* What the nodes before the last append does not depend on what a run finds.
LEMMA BehindEarlier ==
  ASSUME TypeOK, NEW r \in Run, plan' = plan, LogKept, NEW n \in 0..(Size(r) - 1),
         Behind(r, n)
  PROVE  Behind(r, n)'
<1> DEFINE graph == Graph[plan[r].kind]
<1>1. plan[r].kind \in Kinds /\ Size(r) \in 1..7 /\ DOMAIN graph = 1..Size(r)
  BY SizeIs
<1>2. \A i \in 1..n : graph[i] # "write_output"
  <2>1. \A i \in 1..n : i \in DOMAIN graph /\ i # Size(r)
    BY <1>1
  <2>2. QED
    BY <1>1, <2>1, GraphsAre DEF Size
<1>3. \A i \in 1..n : WritesAt(r, graph[i])' = WritesAt(r, graph[i])
  <2> SUFFICES ASSUME NEW i \in 1..n PROVE WritesAt(r, graph[i])' = WritesAt(r, graph[i])
    OBVIOUS
  <2>1. PICK m : m = graph[i]
    OBVIOUS
  <2>2. WritesAt(r, m)' = WritesAt(r, m)
    BY <1>1, <1>2, <2>1, EarlierWrites
  <2>3. m = graph[i]'
    BY <2>1 DEF Graph
  <2>4. QED
    BY <2>1, <2>2, <2>3
<1>4. \A type : Appended(r, type) => Appended(r, type)'
  BY AppendedKept
<1>5. graph' = graph
  BY DEF Graph
<1>6. QED
  BY <1>3, <1>4, <1>5 DEF Behind

\* The line a run is at settles how far its session is.
LEMMA SessionTyped ==
  ASSUME IInv, ContextInv, NEW r \in Run, step[r] \in Working
  PROVE  /\ Entered(r, node[r] - 1) /\ Behind(r, node[r] - 1)
         /\ node[r] - 1 \in 0..(Size(r) - 1)
         /\ Len(session[r]) =
              Opening(r) + node[r] - (IF step[r] = "record" /\ node[r] = Size(r) THEN 0 ELSE 1)
<1>1. SessionInv(r) /\ step[r] # "idle"
  BY DEF ContextInv, Working
<1>2. node[r] \in 1..Size(r) /\ Size(r) \in 1..7
  BY SizeIs DEF IInv
<1>3. QED
  BY <1>1, <1>2 DEF SessionInv

LEMMA SessionReached ==
  ASSUME NEW r \in Run, plan' = plan, node' = node, NEW n \in {node[r] - 1, node[r]},
         Entered(r, n)', Behind(r, n)', n = node[r] => n = Size(r),
         step'[r] # "idle",
         step'[r] \in {"complete", "done"} => n = node[r],
         step'[r] \in Working =>
           /\ n = node[r] - 1
           /\ Len(session'[r]) =
                Opening(r) + node[r]
                  - (IF step'[r] = "record" /\ node[r] = Size(r) THEN 0 ELSE 1),
         step'[r] = "recover" =>
           plan[r].prior # Nobody /\ node[r] = 1 /\ session'[r] = <<"AgentSessionStarted">>,
         step'[r] = "failed" =>
           session'[r] # <<>> /\ session'[r][Len(session'[r])] = "AgentSessionFailed"
  PROVE  SessionInv(r)'
<1>1. Size(r)' = Size(r) /\ Opening(r)' = Opening(r)
  BY SameShape
<1>2. Working' = Working
  BY DEF Working
<1>3. \E m \in {node'[r] - 1, node'[r]} :
        /\ Entered(r, m)' /\ Behind(r, m)'
        /\ m = node'[r] => m = Size(r)'
        /\ step'[r] \in Working => m = node'[r] - 1
        /\ step'[r] \in {"complete", "done"} => m = node'[r]
  BY <1>1
<1>4. step'[r] \in Working =>
        Len(session'[r]) =
          Opening(r)' + node'[r]
            - (IF step'[r] = "record" /\ node'[r] = Size(r)' THEN 0 ELSE 1)
  BY <1>1
<1>5. QED
  BY <1>2, <1>3, <1>4 DEF SessionInv

LEMMA InitContext == Init => ContextInv
<1> SUFFICES ASSUME Init PROVE ContextInv
  OBVIOUS
<1>1. PICK setup \in Setups :
        log = [s \in Streams |-> IF s = "loan" THEN setup[2] ELSE <<>>]
  BY DEF Init
<1>2. setup[2] \in Seeds
  BY PipelineAssumption
<1>3. \A i \in DOMAIN setup[2] : setup[2][i].by = Nobody
  <2> DEFINE a == Event("ApplicationSubmitted", Nobody, "none")
             b == Event("DocumentUploaded", Nobody, "none")
  <2>1. a.by = Nobody /\ b.by = Nobody
    BY DEF Event
  <2>2. setup[2] = <<>> \/ setup[2] = <<a>> \/ setup[2] = <<a, b>>
    BY <1>2 DEF Seeds
  <2> HIDE DEF a, b
  <2>3. DOMAIN <<a, b>> = {1, 2} /\ DOMAIN <<a>> = {1}
    OBVIOUS
  <2>4. QED
    BY <2>1, <2>2, <2>3
<1>4. \A s \in Streams : \A j \in DOMAIN log[s] : log[s][j].by \notin Run
  BY <1>1, <1>3, PipelineAssumption
<1>5. ASSUME NEW p \in Run
      PROVE  SessionInv(p) /\ Progress(p) /\ NothingAhead(p) /\ step[p] = "idle"
  <2>1. session[p] = <<>> /\ step[p] = "idle" /\ node[p] = 1
    BY DEF Init
  <2>2. QED
    BY <1>4, <2>1 DEF SessionInv, Progress, NothingAhead, Working
<1>6. QED
  BY <1>5 DEF ContextInv

\* A session that has an opening and no node yet.
LEMMA OpenedContext ==
  ASSUME IInv, ContextInv, NEW r \in Run, UNCHANGED <<plan, log, node, write, found, written>>,
         (step[r] = "idle" /\ CanStart(r)) \/ step[r] = "recover", node[r] = 1,
         step'[r] \in {"recover", "work"}, \A q \in Run \ {r} : step'[q] = step[q],
         \A q \in Run \ {r} : session'[q] = session[q],
         \/ session'[r] = <<"AgentSessionStarted">>
         \/ session'[r] = <<"AgentSessionStarted", "AgentSessionRecovered">>,
         step'[r] = "work" => Len(session'[r]) = Opening(r),
         step'[r] = "recover" =>
           plan[r].prior # Nobody /\ session'[r] = <<"AgentSessionStarted">>
  PROVE  ContextInv'
<1>1. Size(r) \in 1..7 /\ plan[r].kind \in Kinds /\ Opening(r) \in 1..2
  BY SizeIs DEF IInv
<1>2. \A i \in DOMAIN session'[r] : session'[r][i] \notin Range(Graph[plan[r].kind])
  <2>1. "AgentSessionStarted" \notin Range(Graph[plan[r].kind])
        /\ "AgentSessionRecovered" \notin Range(Graph[plan[r].kind])
    BY <1>1, GraphsAre DEF Range
  <2>2. \A i \in DOMAIN session'[r] :
          session'[r][i] \in {"AgentSessionStarted", "AgentSessionRecovered"}
    <3>1. DOMAIN <<"AgentSessionStarted">> = {1}
          /\ DOMAIN <<"AgentSessionStarted", "AgentSessionRecovered">> = {1, 2}
      OBVIOUS
    <3>2. QED
      BY <3>1
  <2>3. QED
    BY <2>1, <2>2
<1>3. Entered(r, 0)' /\ Behind(r, 0)'
  <2>1. 1..0 = {}
    OBVIOUS
  <2>2. Graph' = Graph
    BY DEF Graph
  <2>3. \A i \in DOMAIN session'[r] : session'[r][i] \notin Range(Graph'[plan'[r].kind])
    BY <1>2, <2>2
  <2>4. QED
    BY <2>1, <2>3 DEF Entered, Behind
<1>4. SessionInv(r)'
  <2>1. 0 \in {node[r] - 1, node[r]} /\ node[r] # 0 /\ Opening(r) = Opening(r) + node[r] - 1
    BY <1>1
  <2>2. "recover" \notin Working
    BY DEF Working
  <2>3. QED
    BY <1>1, <1>3, <2>1, <2>2, SessionReached
<1>5. Progress(r)'
  BY DEF Progress
<1>6. QED
  BY <1>4, <1>5, QuietContext DEF LocalsOf

LEMMA StartContext ==
  ASSUME IInv, ContextInv, NEW r \in Run, Start(r)
  PROVE  ContextInv'
<1>1. /\ UNCHANGED <<plan, log, node, write, found, written>>
      /\ step[r] = "idle" /\ CanStart(r) /\ Tell(r, "AgentSessionStarted")
      /\ step'[r] = IF plan[r].prior = Nobody THEN "work" ELSE "recover"
      /\ \A q \in Run \ {r} : step'[q] = step[q]
  BY DEF Start, GoTo, IInv, TypeOK
<1>2. node[r] = 1 /\ session[r] = <<>>
  BY <1>1 DEF ContextInv, SessionInv
<1>3. session'[r] = <<"AgentSessionStarted">> /\ \A q \in Run \ {r} : session'[q] = session[q]
  BY <1>1, <1>2, ToldSession DEF IInv
<1>4. step'[r] = "work" => Len(session'[r]) = Opening(r)
  BY <1>1, <1>3 DEF Opening
<1>5. QED
  BY <1>1, <1>2, <1>3, <1>4, OpenedContext

LEMMA RecoverContext ==
  ASSUME IInv, ContextInv, NEW r \in Run, Recover(r)
  PROVE  ContextInv'
<1>1. /\ UNCHANGED <<plan, log, node, write, found, written>>
      /\ step[r] = "recover" /\ Tell(r, "AgentSessionRecovered")
      /\ step'[r] = "work" /\ \A q \in Run \ {r} : step'[q] = step[q]
  BY DEF Recover, GoTo, IInv, TypeOK
<1>2. node[r] = 1 /\ session[r] = <<"AgentSessionStarted">> /\ plan[r].prior # Nobody
  BY <1>1 DEF ContextInv, SessionInv
<1>3. /\ session'[r] = <<"AgentSessionStarted", "AgentSessionRecovered">>
      /\ \A q \in Run \ {r} : session'[q] = session[q]
  BY <1>1, <1>2, ToldSession DEF IInv
<1>4. Len(session'[r]) = Opening(r)
  BY <1>2, <1>3 DEF Opening
<1>5. QED
  BY <1>1, <1>2, <1>3, <1>4, OpenedContext

\* The node under way is recorded, all that it appends being there.
LEMMA RecordContext ==
  ASSUME IInv, ContextInv, NEW r \in Run, step[r] \in {"work", "record"}, Record(r),
         UNCHANGED <<plan, log>>, \A q \in Run \ {r} : found'[q] = found[q],
         NEW k, k = node[r], Behind(r, k)', step[r] = "work" => k # Size(r)
  PROVE  ContextInv'
<1> DEFINE graph == Graph[plan[r].kind]
<1>1. /\ plan[r].kind \in Kinds /\ Size(r) \in 1..7 /\ node[r] \in 1..Size(r)
      /\ DOMAIN graph = 1..Size(r) /\ Opening(r) \in 1..2
  BY SizeIs DEF IInv
<1>2. PICK o, l : k = node[r] /\ o = Opening(r) /\ l = Len(session[r])
  OBVIOUS
<1>3. /\ Entered(r, k - 1)
      /\ l = o + k - (IF step[r] = "record" /\ k = Size(r) THEN 0 ELSE 1)
  BY <1>2, SessionTyped DEF Working
<1>4. /\ DOMAIN session[r] = 1..l /\ l \in Nat
      /\ DOMAIN session'[r] = 1..(l + 1) /\ Len(session'[r]) = l + 1
      /\ session'[r][l + 1] = graph[k]
      /\ \A i \in DOMAIN session[r] : session'[r][i] = session[r][i]
      /\ \A q \in Run \ {r} : session'[q] = session[q]
  BY <1>2, ToldSession DEF Record, NodeOf, IInv
<1>5. l + 1 = EntryAt(r, k)
  BY <1>1, <1>2, <1>3 DEF EntryAt
<1>6. Entered(r, k)'
  <2>1. \A m : EntryAt(r, m)' = EntryAt(r, m)
    BY SameShape
  <2>2. graph' = graph
    BY DEF Graph
  <2>3. ASSUME NEW m \in 1..k
        PROVE  EntryAt(r, m) \in DOMAIN session'[r] /\ session'[r][EntryAt(r, m)] = graph[m]
    <3>1. CASE m = k
      BY <1>4, <1>5, <3>1
    <3>2. CASE m # k
      <4>1. m \in 1..(k - 1)
        BY <1>1, <1>2, <3>2
      <4>2. EntryAt(r, m) \in DOMAIN session[r] /\ session[r][EntryAt(r, m)] = graph[m]
        BY <1>3, <4>1 DEF Entered
      <4>3. QED
        BY <1>4, <4>2
    <3>3. QED
      BY <3>1, <3>2
  <2>4. ASSUME NEW i \in DOMAIN session'[r], session'[r][i] \in Range(graph)
        PROVE  \E m \in 1..k : i = EntryAt(r, m)
    <3>1. k \in 1..k
      BY <1>1, <1>2
    <3>2. CASE i = l + 1
      BY <1>5, <3>1, <3>2
    <3>3. CASE i # l + 1
      <4>1. i \in DOMAIN session[r] /\ session[r][i] \in Range(graph)
        BY <1>4, <2>4, <3>3
      <4>2. PICK m \in 1..(k - 1) : i = EntryAt(r, m)
        BY <1>3, <4>1 DEF Entered
      <4>3. m \in 1..k
        BY <1>1, <1>2
      <4>4. QED
        BY <4>2, <4>3
    <3>4. QED
      BY <3>2, <3>3
  <2>5. QED
    BY <2>1, <2>2, <2>3, <2>4 DEF Entered
<1>7. /\ step'[r] = IF k = Size(r) THEN "complete" ELSE "work"
      /\ node'[r] = IF k = Size(r) THEN k ELSE k + 1
      /\ \A q \in Run \ {r} : UNCHANGED LocalsOf(q)
  BY <1>2 DEF Record, GoTo, LocalsOf, IInv, TypeOK, Size
<1>8. SessionInv(r)'
  <2>1. Size(r)' = Size(r) /\ Opening(r)' = o
    BY <1>2, SameShape
  <2>2. Behind(r, k)'
    OBVIOUS
  <2>3. CASE k = Size(r)
    <3>1. step'[r] = "complete" /\ node'[r] = k /\ k \in {k - 1, k}
      BY <1>7, <2>3
    <3>2. QED
      BY <1>6, <2>1, <2>2, <2>3, <3>1 DEF SessionInv, Working
  <2>4. CASE k # Size(r)
    <3>1. step'[r] = "work" /\ node'[r] = k + 1
      BY <1>7, <2>4
    <3>2. Len(session'[r]) = o + (k + 1) - 1
      BY <1>1, <1>2, <1>3, <1>4, <2>4
    <3>3. k = (k + 1) - 1 /\ k # k + 1 /\ k \in {k + 1 - 1, k + 1}
      BY <1>1, <1>2
    <3>4. QED
      BY <1>6, <2>1, <2>2, <3>1, <3>2, <3>3 DEF SessionInv, Working
  <2>5. QED
    BY <2>3, <2>4
<1>9. Progress(r)'
  BY <1>7 DEF Progress
<1>10. node'[r] = node[r] \/ node'[r] = node[r] + 1
  BY <1>2, <1>7
<1>11. QED
  BY <1>4, <1>7, <1>8, <1>9, <1>10, QuietContext

\* One more node is behind when all that it appends is there.
LEMMA OneMoreBehind ==
  ASSUME TypeOK, NEW r \in Run, Behind(r, node[r] - 1),
         \A type \in Range(Writes(r)) : Appended(r, type)
  PROVE  Behind(r, node[r])
<1>1. node[r] \in 1..Size(r) /\ Size(r) \in 1..7
  BY SizeIs
<1>2. ASSUME NEW i \in 1..node[r], NEW type \in Range(WritesAt(r, Graph[plan[r].kind][i]))
      PROVE  Appended(r, type)
  <2>1. CASE i = node[r]
    BY <1>2, <2>1 DEF Writes, NodeOf
  <2>2. CASE i # node[r]
    <3>1. i \in 1..(node[r] - 1)
      BY <1>1, <2>2
    <3>2. QED
      BY <1>2, <3>1 DEF Behind
  <2>3. QED
    BY <2>1, <2>2
<1>3. QED
  BY <1>2 DEF Behind

LEMMA InvestigateContext ==
  ASSUME IInv, ContextInv, NEW r \in Run, Investigate(r)
  PROVE  ContextInv'
<1>1. /\ step[r] = "work" /\ Record(r) /\ UNCHANGED <<plan, log>>
      /\ Writes(r) = <<>> \/ Uploaded(r)
      /\ \A q \in Run \ {r} : found'[q] = found[q]
  BY DEF Investigate, IInv, TypeOK
<1>2. /\ plan[r].kind \in Kinds /\ node[r] \in 1..Size(r) /\ Size(r) \in 1..7
      /\ DOMAIN Graph[plan[r].kind] = 1..Size(r)
  BY SizeIs DEF IInv
<1>3. NodeOf(r) # "write_output"
  BY <1>1, <1>2, LastNodeWrites DEF Writes, Uploaded
<1>4. node[r] # Size(r)
  BY <1>2, <1>3, GraphsAre DEF NodeOf, Size
<1>5. \A type \in Range(Writes(r)) : Appended(r, type)
  <2>1. CASE Writes(r) = <<>>
    BY <2>1 DEF Range
  <2>2. CASE Uploaded(r)
    <3>1. Writes(r) = <<"DocumentUploaded">>
      BY <2>2 DEF Uploaded, Writes, WritesAt, DocumentWrites
    <3>2. PICK i \in DOMAIN log["loan"] : log["loan"][i].type = "DocumentUploaded"
      BY <2>2 DEF Uploaded, Has
    <3>3. StreamOf("DocumentUploaded") = "loan"
      BY DEF StreamOf, PackageEvents
    <3>4. Appended(r, "DocumentUploaded")
      BY <3>2, <3>3 DEF Appended, Range
    <3>5. DOMAIN <<"DocumentUploaded">> = {1}
      OBVIOUS
    <3>6. QED
      BY <3>1, <3>4, <3>5 DEF Range
  <2>3. QED
    BY <1>1, <2>1, <2>2
<1>6. Behind(r, node[r])
  BY <1>1, <1>5, SessionTyped, OneMoreBehind DEF IInv, Working
<1>7. PICK n : n = node[r]
  OBVIOUS
<1>8. Behind(r, n)'
  <2>1. n \in 0..(Size(r) - 1)
    BY <1>2, <1>4, <1>7
  <2>2. QED
    BY <1>1, <1>6, <1>7, <2>1, BehindEarlier, LogUnchanged DEF IInv
<1>9. QED
  BY <1>1, <1>4, <1>7, <1>8, RecordContext

LEMMA RecordNodeContext ==
  ASSUME IInv, ContextInv, NEW r \in Run, RecordNode(r)
  PROVE  ContextInv'
<1>1. step[r] = "record" /\ Record(r) /\ UNCHANGED <<plan, log, found>>
  BY DEF RecordNode
<1>2. \A type \in Range(Writes(r)) : Appended(r, type)
  BY <1>1 DEF ContextInv, Progress
<1>3. Behind(r, node[r])
  BY <1>1, <1>2, SessionTyped, OneMoreBehind DEF IInv, Working
<1>4. PICK n : n = node[r]
  OBVIOUS
<1>5. Behind(r, n)'
  BY <1>1, <1>3, <1>4, BehindKept, LogUnchanged
<1>6. QED
  BY <1>1, <1>4, <1>5, RecordContext

\* Steps within a node that tell the session nothing.
LEMMA WithinNode ==
  ASSUME IInv, ContextInv, NEW r \in Run, step[r] \in Working \ {"record"},
         step'[r] \in Working \ {"record"}, UNCHANGED <<plan, log, session, node>>,
         \A q \in Run \ {r} : UNCHANGED LocalsOf(q), Progress(r)'
  PROVE  ContextInv'
<1>1. PICK n : n = node[r] - 1
  OBVIOUS
<1>2. /\ Entered(r, n) /\ Behind(r, n) /\ n \in 0..(Size(r) - 1) /\ n # node[r]
      /\ Len(session[r]) = Opening(r) + node[r] - 1
  BY <1>1, SessionTyped, SizeIs DEF IInv
<1>3. Entered(r, n)'
  BY <1>2, SameShape
<1>4. Behind(r, n)'
  BY <1>2, BehindEarlier, LogUnchanged DEF IInv
<1>5. SessionInv(r)'
  BY <1>1, <1>2, <1>3, <1>4, SessionReached DEF Working
<1>6. QED
  BY <1>5, QuietContext DEF Working

LEMMA BeginWritingContext ==
  ASSUME IInv, ContextInv, NEW r \in Run, BeginWriting(r)
  PROVE  ContextInv'
<1>1. /\ step[r] = "work" /\ step'[r] = "version"
      /\ UNCHANGED <<plan, log, session, node, write, written>>
      /\ \A q \in Run \ {r} : step'[q] = step[q] /\ found'[q] = found[q]
  BY DEF BeginWriting, GoTo, IInv, TypeOK
<1>2. write'[r] = 1
  BY <1>1 DEF IInv, RunInv
<1>3. Progress(r)'
  <2>1. 1..(write'[r] - 1) = {}
    BY <1>2
  <2>2. QED
    BY <1>1, <2>1 DEF Progress
<1>4. QED
  BY <1>1, <1>3, WithinNode DEF Working, LocalsOf

LEMMA ProgressKept ==
  ASSUME NEW r \in Run, UNCHANGED <<plan, log, node, write, found>>, Progress(r),
         \/ step[r] \in {"version", "append"} /\ step'[r] \in {"version", "append"}
         \/ step[r] \in {"output", "record"} /\ step'[r] \in {"output", "record"}
  PROVE  Progress(r)'
<1>1. Writes(r)' = Writes(r)
  BY WritesSame DEF Writes, NodeOf
<1>2. \A type : Appended(r, type) => Appended(r, type)'
  BY AppendedKept, LogUnchanged
<1>3. QED
  BY <1>1, <1>2 DEF Progress

LEMMA ReadVersionContext ==
  ASSUME IInv, ContextInv, NEW r \in Run, ReadVersion(r)
  PROVE  ContextInv'
<1>1. /\ step[r] = "version" /\ step'[r] = "append"
      /\ UNCHANGED <<plan, log, session, node, write, found, written>>
      /\ \A q \in Run \ {r} : step'[q] = step[q]
  BY DEF ReadVersion, GoTo, IInv, TypeOK
<1>2. Progress(r)'
  BY <1>1, ProgressKept DEF ContextInv
<1>3. QED
  BY <1>1, <1>2, WithinNode DEF Working, LocalsOf

LEMMA GraphTyped ==
  ASSUME NEW k \in Kinds
  PROVE  Graph[k] \in Seq(Range(Graph[k]))
<1>1. PICK g : g = Graph[k]
  OBVIOUS
<1>2. \/ \E a, b, c, d : g = <<a, b, c, d>>
      \/ \E a, b, c, d, e : g = <<a, b, c, d, e>>
      \/ \E a, b, c, d, e, f : g = <<a, b, c, d, e, f>>
      \/ \E a, b, c, d, e, f, h : g = <<a, b, c, d, e, f, h>>
  BY <1>1 DEF Kinds, Graph, DocumentGraph, CreditGraph, FraudGraph, ComplianceGraph, DecisionGraph
<1>3. PICK R : R = Range(g)
  OBVIOUS
<1>4. \A i \in DOMAIN g : g[i] \in R
  BY <1>3 DEF Range
<1>5. ASSUME NEW a, NEW b, NEW c, NEW d, g = <<a, b, c, d>> PROVE g \in Seq(R)
  <2>1. a = g[1] /\ b = g[2] /\ c = g[3] /\ d = g[4] /\ DOMAIN g = 1..4
    BY <1>5
  <2>2. a \in R /\ b \in R /\ c \in R /\ d \in R
    BY <1>4, <2>1
  <2>3. QED
    BY <1>5, <2>2
<1>6. ASSUME NEW a, NEW b, NEW c, NEW d, NEW e, g = <<a, b, c, d, e>> PROVE g \in Seq(R)
  <2>1. a = g[1] /\ b = g[2] /\ c = g[3] /\ d = g[4] /\ e = g[5] /\ DOMAIN g = 1..5
    BY <1>6
  <2>2. a \in R /\ b \in R /\ c \in R /\ d \in R /\ e \in R
    BY <1>4, <2>1
  <2>3. QED
    BY <1>6, <2>2
<1>7. ASSUME NEW a, NEW b, NEW c, NEW d, NEW e, NEW f, g = <<a, b, c, d, e, f>>
      PROVE  g \in Seq(R)
  <2>1. /\ a = g[1] /\ b = g[2] /\ c = g[3] /\ d = g[4] /\ e = g[5] /\ f = g[6]
        /\ DOMAIN g = 1..6
    BY <1>7
  <2>2. a \in R /\ b \in R /\ c \in R /\ d \in R /\ e \in R /\ f \in R
    BY <1>4, <2>1
  <2>3. QED
    BY <1>7, <2>2
<1>8. ASSUME NEW a, NEW b, NEW c, NEW d, NEW e, NEW f, NEW h, g = <<a, b, c, d, e, f, h>>
      PROVE  g \in Seq(R)
  <2>1. /\ a = g[1] /\ b = g[2] /\ c = g[3] /\ d = g[4] /\ e = g[5] /\ f = g[6]
        /\ h = g[7] /\ DOMAIN g = 1..7
    BY <1>8
  <2>2. a \in R /\ b \in R /\ c \in R /\ d \in R /\ e \in R /\ f \in R /\ h \in R
    BY <1>4, <2>1
  <2>3. QED
    BY <1>8, <2>2
<1>9. QED
  BY <1>1, <1>2, <1>3, <1>5, <1>6, <1>7, <1>8

LEMMA ContextHolds ==
  ASSUME IInv, ContextInv
  PROVE  ContextSound
<1> SUFFICES ASSUME NEW r \in Run, plan[r].prior # Nobody, session[r] # <<>>
             PROVE  LET p == plan[r].prior
                        context == reconstruct_agent_context(Told(p))
                        graph == Graph[plan[p].kind]
                        reached == {i \in DOMAIN graph : graph[i] = context.last_successful_node}
                        point == IF reached = {} THEN 0 ELSE Max(reached)
                    IN  /\ IsPrefix(context.executed_nodes, graph)
                        /\ \A i \in DOMAIN graph : \A type \in Range(WritesAt(p, graph[i])) :
                             /\ i <= point => Appended(p, type)
                             /\ i > point + 1 => \A e \in Range(log[StreamOf(type)]) :
                                                   e.type = type => e.by # p
                        /\ step[p] = "failed" =>
                             context.session_health_status = "NEEDS_RECONCILIATION"
  BY DEF ContextSound
<1> DEFINE p == plan[r].prior
           context == reconstruct_agent_context(Told(p))
           graph == Graph[plan[p].kind]
           reached == {i \in DOMAIN graph : graph[i] = context.last_successful_node}
           point == IF reached = {} THEN 0 ELSE Max(reached)
<1>1. p \in Run /\ step[p] \in {"failed", "crashed"} /\ TypeOK
  <2>1. plan[r] \in Plan /\ TypeOK
    BY PlanTyped DEF IInv
  <2>2. step[r] # "idle"
    BY DEF ContextInv, SessionInv
  <2>3. QED
    BY <2>1, <2>2 DEF Plan, ContextInv
<1>2. /\ plan[p].kind \in Kinds /\ Size(p) \in 1..7 /\ node[p] \in 1..Size(p)
      /\ DOMAIN graph = 1..Size(p) /\ session[p] \in Seq(SessionEvent)
  BY <1>1, SizeIs
<1>3. PICK n \in {node[p] - 1, node[p]} : Entered(p, n) /\ Behind(p, n)
  BY <1>1 DEF ContextInv, SessionInv
<1>4. n \in 0..Size(p)
  BY <1>2, <1>3
<1>5. /\ context.executed_nodes = [k \in 1..n |-> graph[k]]
      /\ context.last_successful_node = IF n = 0 THEN "unknown" ELSE graph[n]
      /\ context.session_health_status = _determine_health(Told(p))
  <2>1. /\ context.executed_nodes = executed_nodes(Told(p))
        /\ context.last_successful_node = last_successful_node(Told(p))
        /\ context.session_health_status = _determine_health(Told(p))
    BY DEF reconstruct_agent_context
  <2>2. QED
    BY <1>1, <1>3, <1>4, <2>1, ContextIs
<1> HIDE DEF p, context, graph
<1>6. point = n
  <2>1. CASE n = 0
    <3>1. \A i \in DOMAIN graph : graph[i] # "unknown"
      BY <1>2, GraphsAre DEF graph
    <3>2. reached = {}
      BY <1>5, <2>1, <3>1
    <3>3. QED
      BY <2>1, <3>2
  <2>2. CASE n # 0
    <3>1. n \in DOMAIN graph
      BY <1>2, <1>4, <2>2
    <3>2. \A i \in DOMAIN graph : graph[i] = graph[n] <=> i = n
      BY <1>2, <3>1, GraphsAre DEF graph
    <3>3. reached = {n}
      BY <1>5, <2>2, <3>1, <3>2
    <3>4. n \in Nat /\ reached \subseteq 1..n /\ n \in reached /\ \A i \in reached : i <= n
      BY <1>4, <2>2, <3>3
    <3>5. Max(reached) = n
      BY <3>4, MaxOf
    <3>6. QED
      BY <3>3, <3>5
  <2>3. QED
    BY <2>1, <2>2
<1>7. IsPrefix(context.executed_nodes, graph)
  <2>1. PICK R : R = Range(graph) /\ graph \in Seq(R)
    BY <1>2, GraphTyped DEF graph
  <2>2. PICK s : s = [k \in 1..n |-> graph[k]]
    OBVIOUS
  <2>3. /\ Len(graph) = Size(p) /\ n \in Nat /\ n <= Len(graph)
        /\ \A k \in 1..n : graph[k] \in R
    <3>1. Len(graph) = Size(p)
      BY <1>2, <2>1 DEF Size, graph
    <3>2. n \in Nat /\ n <= Len(graph) /\ \A k \in 1..n : k \in DOMAIN graph
      BY <1>2, <1>4, <3>1
    <3>3. \A k \in 1..n : graph[k] \in R
      BY <2>1, <3>2 DEF Range
    <3>4. QED
      BY <3>1, <3>2, <3>3
  <2>4. s \in Seq(R) /\ Len(s) = n
    BY <2>2, <2>3
  <2>5. /\ SubSeq(s, 1, n) = [k \in 1..n |-> s[k]]
        /\ SubSeq(graph, 1, n) = [k \in 1..n |-> graph[k]]
    BY <2>1, <2>3, <2>4, SubSeqProperties
  <2>6. QED
    BY <1>5, <2>2, <2>3, <2>4, <2>5 DEF IsPrefix
<1>8. ASSUME NEW i \in DOMAIN graph, NEW type \in Range(WritesAt(p, graph[i]))
      PROVE  /\ i <= point => Appended(p, type)
             /\ i > point + 1 => \A e \in Range(log[StreamOf(type)]) :
                                   e.type = type => e.by # p
  <2>1. i <= n => Appended(p, type)
    <3>1. i <= n => i \in 1..n
      BY <1>2, <1>4
    <3>2. QED
      BY <1>3, <3>1 DEF Behind, graph
  <2>2. ASSUME NEW e \in Range(log[StreamOf(type)]), e.type = type, e.by = p
        PROVE  i <= n + 1
    <3>1. type \in EventName /\ Place(plan[p].kind, type) = i
      BY <1>2, WritesPlaced DEF graph
    <3>2. PICK j \in DOMAIN log[StreamOf(type)] : e = log[StreamOf(type)][j]
      BY DEF Range
    <3>3. Place(plan[p].kind, type) <= node[p]
      BY <1>1, <2>2, <3>1, <3>2, StreamsAre DEF ContextInv, NothingAhead
    <3>4. QED
      BY <1>2, <1>3, <3>1, <3>3
  <2>3. QED
    <3>1. i \in Nat /\ n \in Nat
      BY <1>2, <1>4
    <3>2. i > n + 1 => ~(i <= n + 1)
      BY <3>1
    <3>3. QED
      BY <1>6, <2>1, <2>2, <3>2
<1>9. ASSUME step[p] = "failed"
      PROVE  context.session_health_status = "NEEDS_RECONCILIATION"
  <2>1. session[p] # <<>> /\ session[p][Len(session[p])] = "AgentSessionFailed"
    BY <1>1, <1>9 DEF ContextInv, SessionInv
  <2>2. Len(Told(p)) = Len(session[p]) /\ Told(p) # <<>> /\ Len(session[p]) \in DOMAIN session[p]
    <3>1. DOMAIN Told(p) = DOMAIN session[p]
      BY DEF Told
    <3>2. Len(session[p]) \in Nat \ {0} /\ DOMAIN session[p] = 1..Len(session[p])
      BY <1>2, <2>1
    <3>3. Len(Told(p)) = Len(session[p])
      BY <3>2 DEF Told
    <3>4. QED
      BY <3>1, <3>2, <3>3
  <2>3. "AgentSessionFailed" \notin Range(graph)
    BY <1>2, GraphsAre DEF Range, graph
  <2>4. Last(Told(p)).type = "AgentSessionFailed"
    BY <2>1, <2>2, <2>3 DEF Told, Last, graph
  <2>5. QED
    BY <1>5, <2>2, <2>4 DEF _determine_health
<1>10. QED
  BY <1>7, <1>8, <1>9 DEF p, context, graph

\* A session that breaks, with a word about it or without.
LEMMA BreakContext ==
  ASSUME IInv, ContextInv, NEW r \in Run, step[r] \in Working \cup {"complete", "recover"},
         GiveUp(r) \/ (GoTo(r, "crashed") /\ UNCHANGED session),
         UNCHANGED <<plan, log, node, write, found, written>>
  PROVE  ContextInv'
<1>1. /\ \A q \in Run \ {r} : UNCHANGED LocalsOf(q) /\ session'[q] = session[q]
      /\ \/ step'[r] = "failed" /\ Tell(r, "AgentSessionFailed")
         \/ step'[r] = "crashed" /\ UNCHANGED session
  <2>1. step'[r] \in {"failed", "crashed"} /\ \A q \in Run \ {r} : step'[q] = step[q]
    BY DEF GiveUp, GoTo, IInv, TypeOK
  <2>2. \A q \in Run \ {r} : session'[q] = session[q]
    BY DEF GiveUp, Tell, IInv, TypeOK
  <2>3. \/ step'[r] = "failed" /\ Tell(r, "AgentSessionFailed")
        \/ step'[r] = "crashed" /\ UNCHANGED session
    BY DEF GiveUp, GoTo, IInv, TypeOK
  <2>4. QED
    BY <2>1, <2>2, <2>3 DEF LocalsOf
<1>2. PICK n \in {node[r] - 1, node[r]} :
        Entered(r, n) /\ Behind(r, n) /\ (n = node[r] => n = Size(r))
  BY DEF ContextInv, SessionInv, Working
<1>3. Behind(r, n)'
  BY <1>2, BehindKept, LogUnchanged
<1>4. Entered(r, n)'
  <2>1. CASE UNCHANGED session
    BY <1>2, <2>1, SameShape
  <2>2. CASE Tell(r, "AgentSessionFailed")
    BY <1>2, <2>2, RemarkEntered DEF IInv, Remarks
  <2>3. QED
    BY <1>1, <2>1, <2>2
<1>5. step'[r] = "failed" =>
        session'[r] # <<>> /\ session'[r][Len(session'[r])] = "AgentSessionFailed"
  <2> SUFFICES ASSUME step'[r] = "failed"
               PROVE  session'[r] # <<>> /\ session'[r][Len(session'[r])] = "AgentSessionFailed"
    OBVIOUS
  <2>1. Tell(r, "AgentSessionFailed")
    BY <1>1
  <2>2. /\ Len(session'[r]) = Len(session[r]) + 1 /\ Len(session[r]) \in Nat
        /\ session'[r][Len(session[r]) + 1] = "AgentSessionFailed"
    BY <2>1, ToldSession DEF IInv
  <2>3. session'[r] # <<>>
    BY <2>2
  <2>4. QED
    BY <2>2, <2>3
<1>6. SessionInv(r)'
  BY <1>1, <1>2, <1>3, <1>4, <1>5, SessionReached DEF Working
<1>7. Progress(r)'
  BY <1>1 DEF Progress
<1>8. QED
  BY <1>1, <1>6, <1>7, QuietContext DEF Working

LEMMA ConflictContext ==
  ASSUME IInv, ContextInv, NEW r \in Run, Conflict(r)
  PROVE  ContextInv'
<1>1. step[r] = "append" /\ UNCHANGED <<plan, log, node, write, found, written>>
  BY DEF Conflict
<1>2. CASE GiveUp(r)
  BY <1>1, <1>2, BreakContext DEF Working
<1>3. CASE GoTo(r, "version") /\ UNCHANGED session
  <2>1. step'[r] = "version" /\ \A q \in Run \ {r} : step'[q] = step[q]
    BY <1>3 DEF GoTo, IInv, TypeOK
  <2>2. Progress(r)'
    BY <1>1, <2>1, ProgressKept DEF ContextInv
  <2>3. QED
    BY <1>1, <1>3, <2>1, <2>2, WithinNode DEF Working, LocalsOf
<1>4. QED
  BY <1>2, <1>3 DEF Conflict

LEMMA RecordOutputContext ==
  ASSUME IInv, ContextInv, NEW r \in Run, RecordOutput(r)
  PROVE  ContextInv'
<1>1. /\ step[r] = "output" /\ step'[r] = "record" /\ Tell(r, "AgentOutputWritten")
      /\ UNCHANGED <<plan, log, node, write, found, written>>
      /\ \A q \in Run \ {r} : step'[q] = step[q]
  BY DEF RecordOutput, GoTo, IInv, TypeOK
<1>2. PICK n : n = node[r] - 1
  OBVIOUS
<1>3. /\ Entered(r, n) /\ Behind(r, n) /\ n # node[r]
      /\ Len(session[r]) = Opening(r) + node[r] - 1
      /\ Opening(r) \in Nat /\ node[r] \in Nat
  BY <1>1, <1>2, SessionTyped, SizeIs DEF IInv, Working
<1>4. node[r] = Size(r)
  <2>1. NodeOf(r) = "write_output"
    BY <1>1 DEF IInv, RunInv
  <2>2. QED
    BY <2>1, GraphsAre, PlanTyped DEF IInv, NodeOf, Size
<1>5. Len(session'[r]) = Opening(r) + node[r] - 0
  <2>1. PICK o, k, l : o = Opening(r) /\ k = node[r] /\ l = Len(session[r])
    OBVIOUS
  <2>2. Len(session'[r]) = l + 1
    BY <1>1, <2>1, ToldSession DEF IInv
  <2>3. Len(session'[r]) = o + k - 0
    BY <1>3, <2>1, <2>2
  <2>4. QED
    BY <2>1, <2>3
<1>6. Entered(r, n)' /\ Behind(r, n)'
  BY <1>1, <1>3, RemarkEntered, BehindKept, LogUnchanged DEF IInv, Remarks
<1>7. SessionInv(r)'
  BY <1>1, <1>2, <1>3, <1>4, <1>5, <1>6, SessionReached
<1>8. Progress(r)'
  BY <1>1, ProgressKept DEF ContextInv
<1>9. \A q \in Run \ {r} : session'[q] = session[q]
  BY <1>1, ToldSession DEF IInv
<1>10. QED
  BY <1>1, <1>7, <1>8, <1>9, QuietContext DEF LocalsOf

LEMMA CompleteSessionContext ==
  ASSUME IInv, ContextInv, NEW r \in Run, CompleteSession(r)
  PROVE  ContextInv'
<1>1. /\ step[r] = "complete" /\ step'[r] = "done" /\ Tell(r, "AgentSessionCompleted")
      /\ UNCHANGED <<plan, log, node, write, found, written>>
      /\ \A q \in Run \ {r} : step'[q] = step[q]
  BY DEF CompleteSession, GoTo, IInv, TypeOK
<1>2. PICK n : n = node[r]
  OBVIOUS
<1>3. Entered(r, n) /\ Behind(r, n) /\ n = Size(r)
  BY <1>1, <1>2 DEF ContextInv, SessionInv
<1>4. Entered(r, n)' /\ Behind(r, n)'
  BY <1>1, <1>3, RemarkEntered, BehindKept, LogUnchanged DEF IInv, Remarks
<1>5. SessionInv(r)'
  BY <1>1, <1>2, <1>3, <1>4, SessionReached DEF Working
<1>6. Progress(r)'
  BY <1>1 DEF Progress
<1>7. \A q \in Run \ {r} : session'[q] = session[q]
  BY <1>1, ToldSession DEF IInv
<1>8. QED
  BY <1>1, <1>5, <1>6, <1>7, QuietContext DEF LocalsOf

LEMMA RaiseContext ==
  ASSUME IInv, ContextInv, NEW r \in Run, RaiseMissing(r) \/ RaiseOther(r)
  PROVE  ContextInv'
<1>1. step[r] \in Working \cup {"complete", "recover"}
  <2>1. step[r] \in Step
    BY DEF IInv, TypeOK
  <2>2. QED
    BY <2>1 DEF RaiseMissing, RaiseOther, Step, Ended, Working
<1>2. QED
  BY <1>1, BreakContext DEF RaiseMissing, RaiseOther

LEMMA AppendBatchContext ==
  ASSUME IInv, ContextInv, NEW r \in Run, AppendBatch(r)
  PROVE  ContextInv'
<1>1. PICK s, w, type : s = Writes(r) /\ w = write[r] /\ type = s[w]
  OBVIOUS
<1>2. PICK e : e = Event(type, r, ValueOf(r, type))
  OBVIOUS
<1>3. /\ type \in EventName /\ LogKept
      /\ \E i \in DOMAIN log'[StreamOf(type)] : log'[StreamOf(type)][i] = e
      /\ \A t \in Streams : \A i \in DOMAIN log'[t] :
           \/ i \in DOMAIN log[t] /\ log'[t][i] = log[t][i]
           \/ log'[t][i] = e
           \/ log'[t][i].type \in OpeningName /\ log'[t][i].by = r
  <2>1. type = Writes(r)[write[r]]
    BY <1>1
  <2>2. /\ type \in EventName /\ LogKept
        /\ NewVersion(r, type) \in DOMAIN log'[StreamOf(type)]
        /\ log'[StreamOf(type)][NewVersion(r, type)] = e
    BY <1>2, <2>1, AppendedLog
  <2>3. \A t \in Streams : \A i \in DOMAIN log'[t] :
          \/ i \in DOMAIN log[t] /\ log'[t][i] = log[t][i]
          \/ log'[t][i] = e
          \/ log'[t][i].type \in OpeningName /\ log'[t][i].by = r
    BY <1>2, <2>1, AppendedLog
  <2>4. QED
    BY <2>2, <2>3
<1>4. e.type = type /\ e.by = r
  BY <1>2 DEF Event
<1>5. /\ step[r] = "append" /\ UNCHANGED <<plan, session, node, found>>
      /\ w < Len(s) => step'[r] \in {"append", "version"} /\ write'[r] = w + 1
      /\ ~(w < Len(s)) =>
           step'[r] = IF NodeOf(r) = "write_output" THEN "output" ELSE "record"
      /\ \A q \in Run \ {r} : UNCHANGED LocalsOf(q)
  BY <1>1 DEF AppendBatch, GoTo, LocalsOf, IInv, TypeOK
<1>6. w \in 1..Len(s) /\ Len(s) \in 0..2 /\ DOMAIN s = 1..Len(s)
  BY <1>1, <1>5, WritesTyped DEF IInv, RunInv
<1>7. \A j \in 1..w : Appended(r, s[j])'
  <2>1. Appended(r, type)'
    <3>1. StreamOf(type)' = StreamOf(type)
      BY DEF StreamOf, PackageEvents
    <3>2. e \in Range(log'[StreamOf(type)])
      BY <1>3 DEF Range
    <3>3. QED
      BY <1>4, <3>1, <3>2 DEF Appended
  <2>2. \A j \in 1..(w - 1) : Appended(r, s[j])
    BY <1>1, <1>5 DEF ContextInv, Progress
  <2>3. \A j \in 1..(w - 1) : Appended(r, s[j])'
    BY <1>3, <2>2, AppendedKept
  <2>4. \A j \in 1..w : j = w \/ j \in 1..(w - 1)
    BY <1>6
  <2>5. QED
    BY <1>1, <2>1, <2>3, <2>4
<1>8. Writes(r)' = s
  BY <1>1, <1>5, WritesSame DEF Writes, NodeOf
<1>9. Progress(r)'
  <2>1. CASE w < Len(s)
    <3>1. \A j \in 1..(write'[r] - 1) : j \in 1..w
      BY <1>5, <1>6, <2>1
    <3>2. QED
      BY <1>5, <1>7, <1>8, <2>1, <3>1 DEF Progress
  <2>2. CASE ~(w < Len(s))
    <3>1. DOMAIN s = 1..w
      <4>1. PICK l : l = Len(s)
        OBVIOUS
      <4>2. w \in 1..l /\ l \in 0..2 /\ ~(w < l) /\ DOMAIN s = 1..l
        BY <1>6, <2>2, <4>1
      <4>3. w = l
        BY <4>2
      <4>4. QED
        BY <4>2, <4>3
    <3>2. \A t \in Range(s) : Appended(r, t)'
      BY <1>7, <3>1 DEF Range
    <3>3. step'[r] \in {"output", "record"}
      BY <1>5, <2>2
    <3>4. QED
      BY <1>8, <3>2, <3>3 DEF Progress
  <2>3. QED
    BY <2>1, <2>2
<1>10. PICK n : n = node[r] - 1
  OBVIOUS
<1>11. /\ Entered(r, n) /\ Behind(r, n) /\ n # node[r]
       /\ Len(session[r]) = Opening(r) + node[r] - 1
  BY <1>5, <1>10, SessionTyped, SizeIs DEF IInv, Working
<1>12. Entered(r, n)' /\ Behind(r, n)'
  BY <1>3, <1>5, <1>11, SameShape, BehindKept
<1>13. step'[r] \in Working /\ ~(step'[r] = "record" /\ node[r] = Size(r))
  <2>1. node[r] = Size(r) => NodeOf(r) = "write_output"
    BY GraphsAre, PlanTyped DEF IInv, NodeOf, Size
  <2>2. QED
    BY <1>5, <2>1 DEF Working
<1>14. SessionInv(r)'
  BY <1>5, <1>10, <1>11, <1>12, <1>13, SessionReached DEF Working
<1>15. \A q \in Run : SessionInv(q)' /\ Progress(q)'
  BY <1>3, <1>5, <1>9, <1>14, OthersContext
<1>16. ASSUME NEW q \in Run PROVE NothingAhead(q)'
  <2> SUFFICES ASSUME NEW t \in Streams, NEW j \in DOMAIN log'[t], NEW d,
                      d = log'[t][j], d.by = q, d.type \in EventName
               PROVE  Place(plan[q].kind, d.type) <= node[q]
    <3>1. \A x : Place(plan[q].kind, x)' = Place(plan[q].kind, x)
      BY <1>5 DEF Place, Graph
    <3>2. Streams' = Streams /\ EventName' = EventName
      BY DEF Streams, EventName
    <3>3. QED
      BY <1>5, <3>1, <3>2 DEF NothingAhead
  <2>1. d.type \notin OpeningName
    BY DEF EventName, OpeningName
  <2>2. CASE j \in DOMAIN log[t] /\ d = log[t][j]
    BY <2>2 DEF ContextInv, NothingAhead
  <2>3. CASE d = e
    <3>1. type \in Range(WritesAt(r, Graph[plan[r].kind][node[r]]))
      BY <1>1, <1>6 DEF Writes, NodeOf, Range
    <3>2. Place(plan[r].kind, type) = node[r] /\ node[r] \in Nat
      BY <3>1, WritesPlaced, PlanTyped DEF IInv, TypeOK
    <3>3. QED
      BY <1>4, <2>3, <3>2
  <2>4. QED
    BY <1>3, <2>1, <2>2, <2>3
<1>17. ASSUME NEW q \in Run, step'[q] # "idle", plan[q].prior # Nobody
       PROVE  step'[plan[q].prior] \in {"failed", "crashed"}
  <2>1. step[q] # "idle"
    BY <1>5, <1>17 DEF LocalsOf
  <2>2. step[plan[q].prior] \in {"failed", "crashed"}
    BY <1>17, <2>1 DEF ContextInv
  <2>3. plan[q].prior \in Run \ {r}
    BY <1>5, <1>17, <2>2, PlanTyped DEF IInv, Plan
  <2>4. QED
    BY <1>5, <2>2, <2>3 DEF LocalsOf
<1>18. QED
  BY <1>5, <1>15, <1>16, <1>17 DEF ContextInv

LEMMA NextContext == IInv /\ ContextInv /\ [Next]_vars => ContextInv'
<1> SUFFICES ASSUME IInv, ContextInv, [Next]_vars PROVE ContextInv'
  OBVIOUS
<1>1. CASE UNCHANGED vars
  <2>1. UNCHANGED <<plan, log, session, step, node, write, found, written>>
    BY <1>1 DEF vars, local
  <2>2. \A q \in Run : SessionInv(q)' /\ Progress(q)'
    BY <2>1, OthersContext, LogUnchanged DEF LocalsOf
  <2>3. ASSUME NEW q \in Run PROVE NothingAhead(q)'
    <3>1. \A x : Place(plan[q].kind, x)' = Place(plan[q].kind, x)
      BY <2>1 DEF Place, Graph
    <3>2. QED
      BY <2>1, <3>1 DEF ContextInv, NothingAhead
  <2>4. QED
    BY <2>1, <2>2, <2>3 DEF ContextInv
<1>2. ASSUME NEW r \in Run, RunStep(r) \/ RaiseOther(r) PROVE ContextInv'
  BY <1>2, StartContext, RecoverContext, InvestigateContext, BeginWritingContext, ReadVersionContext,
     AppendBatchContext, ConflictContext, RecordOutputContext, RecordNodeContext,
     CompleteSessionContext, RaiseContext DEF RunStep
<1>3. QED
  BY <1>1, <1>2 DEF Next, Quiescent

LEMMA ContextInvariance == Spec => [](IInv /\ ContextInv)
<1>1. Init => IInv /\ ContextInv
  BY InitIInv, InitContext
<1>2. IInv /\ ContextInv /\ [Next]_vars => (IInv /\ ContextInv)'
  BY NextStep, NextContext
<1>3. QED
  BY <1>1, <1>2, PTL DEF Spec

\* Whatever a run was doing when its session broke, a recovery is told the truth: the
\* nodes named are a beginning of the graph, all that they append is on the streams,
\* nothing is there of the nodes behind the one that was under way, and a session
\* that recorded its failure is reported as one to reconcile.
THEOREM ContextIsSound == Spec => []ContextSound
<1>1. IInv /\ ContextInv => ContextSound
  BY ContextHolds
<1>2. QED
  BY <1>1, ContextInvariance, PTL

================================================================================
