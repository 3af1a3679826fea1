------------------------------ MODULE SeedingProofs ------------------------------
(***************************************************************************)
(* Proofs about Seeding, for every set of scenarios and any number of      *)
(* starts, stops and appends.                                              *)
(***************************************************************************)
EXTENDS Seeding, FiniteSetTheorems, FunctionTheorems, SequenceTheorems,
        WellFoundedInduction, TLAPS

--------------------------------------------------------------------------------
(* What the simulator writes. *)

TypeName ==
  {"AgentNodeExecuted", "AgentSessionStarted", "AgentInputValidated",
   "AgentOutputWritten", "AgentSessionCompleted", "ApplicationSubmitted",
   "DocumentUploadRequested", "PackageCreated", "DocumentUploaded", "DocumentAdded",
   "DocumentFormatValidated", "ExtractionStarted", "AgentToolCalled",
   "ExtractionCompleted", "QualityAssessmentCompleted", "PackageReadyForAnalysis",
   "CreditAnalysisRequested", "FraudScreeningCompleted", "ComplianceCheckRequested",
   "CreditRecordOpened", "HistoricalProfileConsumed", "ExtractedFactsConsumed",
   "CreditAnalysisCompleted", "FraudScreeningRequested", "FraudScreeningInitiated",
   "ComplianceRuleFailed", "ComplianceRuleNoted", "ComplianceRulePassed",
   "ComplianceCheckInitiated", "ComplianceCheckCompleted", "DecisionRequested",
   "ApplicationDeclined", "DecisionGenerated", "ApplicationApproved"}

Claim == [stream : Data \cup {"none"}, type : TypeName \cup {"none"}, position : Nat]

Line == [stream : Data \cup Sessions, type : TypeName, claim : Claim]

LEMMA EmitTyped ==
  ASSUME NEW stream \in Data \cup Sessions, NEW type \in TypeName
  PROVE  _emit(stream, type) \in Line /\ <<_emit(stream, type)>> \in Seq(Line)
<1>1. _emit(stream, type) \in Line
  BY DEF _emit, Line, Claim, NoClaim
<1>2. QED
  BY <1>1

LEMMA EmittedTyped ==
  ASSUME NEW stream \in Data \cup Sessions, NEW types \in Seq(TypeName)
  PROVE  Emitted(stream, types) \in Seq(Line)
<1>1. \A i \in 1..Len(types) : _emit(stream, types[i]) \in Line
  BY EmitTyped
<1>2. Emitted(stream, types) = [i \in 1..Len(types) |-> _emit(stream, types[i])]
  BY DEF Emitted
<1>3. QED
  BY <1>1, <1>2

LEMMA NodesTyped ==
  ASSUME NEW agent \in Sessions, NEW count \in Nat
  PROVE  _nodes(agent, count) \in Seq(Line)
<1>1. _emit(agent, "AgentNodeExecuted") \in Line
  BY EmitTyped DEF TypeName
<1>2. QED
  BY <1>1 DEF _nodes

LEMMA CatTyped ==
  \A a, b \in Seq(Line) : a \o b \in Seq(Line)
OBVIOUS

LEMMA SessionTyped ==
  ASSUME NEW agent \in Sessions, NEW stream \in Data, NEW type \in TypeName,
         NEW position \in Nat
  PROVE  /\ Opened(agent) \in Seq(Line)
         /\ Closed(agent, stream, type, position) \in Seq(Line)
<1>1. Opened(agent) \in Seq(Line)
  <2>1. <<"AgentSessionStarted", "AgentInputValidated">> \in Seq(TypeName)
    BY DEF TypeName
  <2>2. QED
    BY <2>1, EmittedTyped DEF Opened
<1>2. [stream |-> agent, type |-> "AgentOutputWritten",
       claim |-> [stream |-> stream, type |-> type, position |-> position]] \in Line
  BY DEF Line, Claim, TypeName
<1>3. _emit(agent, "AgentSessionCompleted") \in Line
  BY EmitTyped DEF TypeName
<1>4. QED
  BY <1>1, <1>2, <1>3 DEF Closed

LEMMA CountTyped ==
  ASSUME NEW lines \in Seq(Line), NEW stream
  PROVE  CountOf(lines, stream) \in Nat
<1>1. DOMAIN lines = 1..Len(lines) /\ Len(lines) \in Nat
  OBVIOUS
<1>2. IsFiniteSet(1..Len(lines))
  BY <1>1, FS_Interval
<1>3. IsFiniteSet({i \in DOMAIN lines : lines[i].stream = stream})
  BY <1>1, <1>2, FS_Subset
<1>4. QED
  BY <1>3, FS_CardinalityType DEF CountOf

LEMMA StreamsNamed ==
  /\ {"loan", "docpkg", "credit", "fraud", "compliance"} \subseteq Data
  /\ Data \subseteq Data \cup Sessions
  /\ {"document-agent", "credit-agent", "fraud-agent", "compliance-agent",
      "decision-agent"} \subseteq Sessions
  /\ Sessions \subseteq Data \cup Sessions
BY DEF Data, Sessions

LEMMA SubmitTyped == _step_submit \in Seq(Line)
<1>1. <<"ApplicationSubmitted", "DocumentUploadRequested">> \in Seq(TypeName)
  BY DEF TypeName
<1>2. Emitted("loan", <<"ApplicationSubmitted", "DocumentUploadRequested">>) \in Seq(Line)
  BY <1>1, StreamsNamed, EmittedTyped
<1>3. <<_emit("docpkg", "PackageCreated")>> \in Seq(Line)
  BY StreamsNamed, EmitTyped DEF TypeName
<1>4. QED
  BY <1>2, <1>3, CatTyped DEF _step_submit

LEMMA UploadTyped == _step_upload \in Seq(Line)
<1>1. _emit("loan", "DocumentUploaded") \in Line /\ _emit("docpkg", "DocumentAdded") \in Line
  BY StreamsNamed, EmitTyped DEF TypeName
<1>2. QED
  BY <1>1 DEF _step_upload

LEMMA DocProcessingTyped ==
  ASSUME NEW before \in Seq(Line)
  PROVE  _step_doc_processing(before) \in Seq(Line)
<1> DEFINE document == Emitted("docpkg", <<"DocumentFormatValidated", "ExtractionStarted">>)
                       \o <<_emit("document-agent", "AgentToolCalled"),
                            _emit("docpkg", "ExtractionCompleted")>>
           assessed == Emitted("docpkg", <<"QualityAssessmentCompleted",
                                           "PackageReadyForAnalysis">>)
           work == Opened("document-agent") \o _nodes("document-agent", 1) \o document
                   \o document \o _nodes("document-agent", 2) \o assessed
           count == CountOf(before \o work, "docpkg")
<1>1. document \in Seq(Line)
  <2>1. <<"DocumentFormatValidated", "ExtractionStarted">> \in Seq(TypeName)
    BY DEF TypeName
  <2>2. Emitted("docpkg", <<"DocumentFormatValidated", "ExtractionStarted">>) \in Seq(Line)
    BY <2>1, StreamsNamed, EmittedTyped
  <2>3. _emit("document-agent", "AgentToolCalled") \in Line
        /\ _emit("docpkg", "ExtractionCompleted") \in Line
    BY StreamsNamed, EmitTyped DEF TypeName
  <2>4. <<_emit("document-agent", "AgentToolCalled"),
          _emit("docpkg", "ExtractionCompleted")>> \in Seq(Line)
    BY <2>3
  <2>5. QED
    BY <2>2, <2>4, CatTyped
<1>2. assessed \in Seq(Line)
  <2>1. <<"QualityAssessmentCompleted", "PackageReadyForAnalysis">> \in Seq(TypeName)
    BY DEF TypeName
  <2>2. QED
    BY <2>1, StreamsNamed, EmittedTyped
<1>3. /\ Opened("document-agent") \in Seq(Line)
      /\ _nodes("document-agent", 1) \in Seq(Line)
      /\ _nodes("document-agent", 2) \in Seq(Line)
  BY StreamsNamed, SessionTyped, NodesTyped DEF TypeName
<1>4. work \in Seq(Line)
  <2> HIDE DEF document, assessed
  <2>1. QED
    BY <1>1, <1>2, <1>3, CatTyped
<1>5. count \in Nat
  <2> HIDE DEF work
  <2>1. before \o work \in Seq(Line)
    BY <1>4, CatTyped
  <2>2. QED
    BY <2>1, CountTyped
<1>6. Closed("document-agent", "docpkg", "PackageReadyForAnalysis", count) \in Seq(Line)
  <2> HIDE DEF count
  <2>1. QED
    BY <1>5, StreamsNamed, SessionTyped DEF TypeName
<1>7. <<_emit("loan", "CreditAnalysisRequested")>> \in Seq(Line)
  BY StreamsNamed, EmitTyped DEF TypeName
<1>8. _step_doc_processing(before) =
        work \o Closed("document-agent", "docpkg", "PackageReadyForAnalysis", count)
        \o <<_emit("loan", "CreditAnalysisRequested")>>
  BY DEF _step_doc_processing
<1> HIDE DEF work, count
<1>9. QED
  BY <1>4, <1>6, <1>7, <1>8, CatTyped

LEMMA CreditTyped == _step_credit \in Seq(Line)
<1>1. /\ Opened("credit-agent") \in Seq(Line)
      /\ Closed("credit-agent", "credit", "CreditAnalysisCompleted", 4) \in Seq(Line)
      /\ _nodes("credit-agent", 1) \in Seq(Line) /\ _nodes("credit-agent", 2) \in Seq(Line)
      /\ _nodes("credit-agent", 4) \in Seq(Line)
  BY StreamsNamed, SessionTyped, NodesTyped DEF TypeName
<1>2. /\ <<_emit("credit", "CreditRecordOpened")>> \in Seq(Line)
      /\ <<_emit("credit", "ExtractedFactsConsumed")>> \in Seq(Line)
      /\ <<_emit("credit", "CreditAnalysisCompleted")>> \in Seq(Line)
      /\ <<_emit("loan", "FraudScreeningRequested")>> \in Seq(Line)
  BY StreamsNamed, EmitTyped DEF TypeName
<1>3. <<_emit("credit-agent", "AgentToolCalled"),
        _emit("credit", "HistoricalProfileConsumed")>> \in Seq(Line)
  <2>1. _emit("credit-agent", "AgentToolCalled") \in Line
        /\ _emit("credit", "HistoricalProfileConsumed") \in Line
    BY StreamsNamed, EmitTyped DEF TypeName
  <2>2. QED
    BY <2>1
<1>4. QED
  BY <1>1, <1>2, <1>3, CatTyped DEF _step_credit

LEMMA FraudTyped == _step_fraud \in Seq(Line)
<1>1. /\ Opened("fraud-agent") \in Seq(Line) /\ _nodes("fraud-agent", 5) \in Seq(Line)
      /\ Closed("fraud-agent", "fraud", "FraudScreeningCompleted", 2) \in Seq(Line)
  BY StreamsNamed, SessionTyped, NodesTyped DEF TypeName
<1>2. /\ <<_emit("fraud", "FraudScreeningInitiated")>> \in Seq(Line)
      /\ <<_emit("fraud", "FraudScreeningCompleted")>> \in Seq(Line)
      /\ <<_emit("loan", "ComplianceCheckRequested")>> \in Seq(Line)
  BY StreamsNamed, EmitTyped DEF TypeName
<1>3. QED
  BY <1>1, <1>2, CatTyped DEF _step_fraud

LEMMA ComplianceTyped ==
  ASSUME NEW failing, failing \subseteq DOMAIN RULES
  PROVE  _step_compliance(failing) \in Seq(Line)
<1> DEFINE hard == {i \in failing : RULES[i]}
           last == IF hard = {} THEN Len(RULES)
                   ELSE CHOOSE i \in hard : \A j \in hard : i <= j
           Result(i) == IF i \in failing THEN "ComplianceRuleFailed"
                        ELSE IF i = Len(RULES) THEN "ComplianceRuleNoted"
                        ELSE "ComplianceRulePassed"
           checks == [i \in 1..(2 * last) |->
                        IF i % 2 = 1 THEN _emit("compliance-agent", "AgentNodeExecuted")
                        ELSE _emit("compliance", Result(i \div 2))]
           next == <<_emit("loan", IF hard = {} THEN "DecisionRequested"
                                   ELSE "ApplicationDeclined")>>
<1>1. last \in Nat
  <2>1. DOMAIN RULES = 1..6 /\ Len(RULES) = 6 /\ hard \subseteq 1..6
    <3>1. DOMAIN RULES = 1..6 /\ Len(RULES) = 6
      BY DEF RULES
    <3>2. hard \subseteq failing
      OBVIOUS
    <3>3. QED
      BY <3>1, <3>2
  <2>2. CASE hard = {}
    BY <2>1, <2>2
  <2>3. CASE hard # {}
    <3> HIDE DEF hard
    <3>1. \E i \in hard : \A j \in hard : i <= j
      <4>1. \A i \in hard : i = 1 \/ i = 2 \/ i = 3 \/ i = 4 \/ i = 5 \/ i = 6
        BY <2>1
      <4>2. QED
        BY <2>3, <4>1
    <3>2. PICK m : m = CHOOSE i \in hard : \A j \in hard : i <= j
      OBVIOUS
    <3>3. m \in hard
      BY <3>1, <3>2
    <3>4. last = m
      BY <2>3, <3>2
    <3>5. m \in Nat
      BY <2>1, <3>3
    <3>6. QED
      BY <3>4, <3>5
  <2>4. QED
    BY <2>2, <2>3
<1>2. checks \in Seq(Line)
  <2>1. _emit("compliance-agent", "AgentNodeExecuted") \in Line
    BY StreamsNamed, EmitTyped DEF TypeName
  <2>2. \A i : _emit("compliance", Result(i)) \in Line
    <3>1. \A i : Result(i) \in TypeName
      BY DEF TypeName
    <3> HIDE DEF Result
    <3>2. QED
      BY <3>1, StreamsNamed, EmitTyped
  <2> HIDE DEF last, Result
  <2>3. 2 * last \in Nat
    BY <1>1
  <2>4. QED
    BY <2>1, <2>2, <2>3
<1>3. next \in Seq(Line)
  <2>1. (IF hard = {} THEN "DecisionRequested" ELSE "ApplicationDeclined") \in TypeName
    BY DEF TypeName
  <2> HIDE DEF hard
  <2>2. QED
    BY <2>1, StreamsNamed, EmitTyped
<1>4. /\ Opened("compliance-agent") \in Seq(Line)
      /\ Closed("compliance-agent", "compliance", "ComplianceCheckCompleted", last + 1) \in Seq(Line)
  <2> HIDE DEF last
  <2>1. QED
    BY <1>1, StreamsNamed, SessionTyped DEF TypeName
<1>5. /\ <<_emit("compliance", "ComplianceCheckInitiated")>> \in Seq(Line)
      /\ <<_emit("compliance", "ComplianceCheckCompleted")>> \in Seq(Line)
  BY StreamsNamed, EmitTyped DEF TypeName
<1>6. _step_compliance(failing) =
        Opened("compliance-agent") \o <<_emit("compliance", "ComplianceCheckInitiated")>>
        \o checks \o <<_emit("compliance", "ComplianceCheckCompleted")>>
        \o Closed("compliance-agent", "compliance", "ComplianceCheckCompleted", last + 1)
        \o next
  BY DEF _step_compliance
<1> HIDE DEF last, checks, next
<1>7. QED
  BY <1>2, <1>3, <1>4, <1>5, <1>6, CatTyped

LEMMA DecisionTyped ==
  ASSUME NEW target
  PROVE  _step_decision(target) \in Seq(Line)
<1> DEFINE outcome == CASE target = "APPROVED" -> <<_emit("loan", "ApplicationApproved")>>
                        [] target = "DECLINED" -> <<_emit("loan", "ApplicationDeclined")>>
                        [] OTHER -> <<>>
<1>1. outcome \in Seq(Line)
  <2>1. /\ <<_emit("loan", "ApplicationApproved")>> \in Seq(Line)
        /\ <<_emit("loan", "ApplicationDeclined")>> \in Seq(Line)
        /\ <<>> \in Seq(Line)
    BY StreamsNamed, EmitTyped DEF TypeName
  <2>2. QED
    BY <2>1
<1>2. /\ Opened("decision-agent") \in Seq(Line) /\ _nodes("decision-agent", 5) \in Seq(Line)
      /\ Closed("decision-agent", "loan", "DecisionGenerated", 10) \in Seq(Line)
  BY StreamsNamed, SessionTyped, NodesTyped DEF TypeName
<1>3. <<_emit("loan", "DecisionGenerated")>> \in Seq(Line)
  BY StreamsNamed, EmitTyped DEF TypeName
<1>4. _step_decision(target) =
        Opened("decision-agent") \o _nodes("decision-agent", 5)
        \o <<_emit("loan", "DecisionGenerated")>> \o outcome
        \o Closed("decision-agent", "loan", "DecisionGenerated", 10)
  BY DEF _step_decision
<1> HIDE DEF outcome
<1>5. QED
  BY <1>1, <1>2, <1>3, <1>4, CatTyped

\* The simulator writes lines on streams that exist.
LEMMA RunTyped ==
  ASSUME NEW target, NEW failing, failing \subseteq DOMAIN RULES
  PROVE  run(target, failing) \in Seq(Line)
<1>1. /\ _step_submit \in Seq(Line) /\ _step_upload \in Seq(Line)
      /\ _step_doc_processing(_step_submit \o _step_upload) \in Seq(Line)
      /\ _step_credit \in Seq(Line) /\ _step_fraud \in Seq(Line)
      /\ _step_compliance(failing) \in Seq(Line) /\ _step_decision(target) \in Seq(Line)
      /\ <<>> \in Seq(Line)
  <2>1. _step_submit \o _step_upload \in Seq(Line)
    BY SubmitTyped, UploadTyped, CatTyped
  <2>2. _step_doc_processing(_step_submit \o _step_upload) \in Seq(Line)
    BY <2>1, DocProcessingTyped
  <2>3. QED
    BY <2>2, SubmitTyped, UploadTyped, CreditTyped, FraudTyped, ComplianceTyped, DecisionTyped
<1>2. \A c : \A s \in Seq(Line) : (IF c THEN s ELSE <<>>) \in Seq(Line)
  BY <1>1
<1>3. PICK idx : idx = CHOOSE i \in DOMAIN STATES : STATES[i] = target
  OBVIOUS
<1>4. PICK d \in BOOLEAN :
        d <=> (idx > 6 /\ target # "DECLINED_COMPLIANCE" /\ ~_hard_block(failing))
  OBVIOUS
<1>5. run(target, failing) =
        _step_submit
        \o (IF idx > 1 THEN _step_upload ELSE <<>>)
        \o (IF idx > 2 THEN _step_doc_processing(_step_submit \o _step_upload) ELSE <<>>)
        \o (IF idx > 3 THEN _step_credit ELSE <<>>)
        \o (IF idx > 4 THEN _step_fraud ELSE <<>>)
        \o (IF idx > 5 THEN _step_compliance(failing) ELSE <<>>)
        \o (IF d THEN _step_decision(target) ELSE <<>>)
  BY <1>3, <1>4 DEF run
<1>6. QED
  BY <1>1, <1>5, CatTyped

--------------------------------------------------------------------------------
(* Lines and positions. *)

LEMMA FileTyped ==
  ASSUME scenario \in Scenarios
  PROVE  file \in Seq(Line) /\ Len(file) \in Nat /\ DOMAIN file = 1..Len(file)
<1>1. file = run(scenario.target, scenario.failing)
  BY DEF file, Files
<1>2. scenario.failing \subseteq DOMAIN RULES
  BY SeedingAssumption
<1>3. file \in Seq(Line)
  BY <1>1, <1>2, RunTyped
<1>4. QED
  BY <1>3

\* A position is the number of lines of the stream up to the line.
LEMMA PositionIs ==
  ASSUME scenario \in Scenarios, NEW line \in 1..Len(file)
  PROVE  PositionAt(line) =
           Cardinality({i \in 1..line : file[i].stream = file[line].stream})
<1>1. PICK f : f = file
  OBVIOUS
<1>2. f \in Seq(Line) /\ Len(f) \in Nat /\ DOMAIN f = 1..Len(f) /\ line \in 1..Len(f)
  BY <1>1, FileTyped
<1>3. PositionAt(line) = CountOf(SubSeq(f, 1, line), f[line].stream)
  BY <1>1, <1>2 DEF PositionAt, Positions, file
<1>4. PICK p : p = SubSeq(f, 1, line)
  OBVIOUS
<1>5. DOMAIN p = 1..line /\ \A i \in 1..line : p[i] = f[i]
  <2>1. \A i \in 1..line : f[i] \in Line
    BY <1>2
  <2>2. p \in Seq(Line) /\ Len(p) = line /\ \A i \in 1..line : p[i] = f[i]
    BY <1>2, <1>4, <2>1, SubSeqProperties
  <2>3. QED
    BY <2>2
<1>6. {i \in DOMAIN p : p[i].stream = f[line].stream}
        = {i \in 1..line : f[i].stream = f[line].stream}
  BY <1>5
<1>7. QED
  BY <1>1, <1>3, <1>4, <1>6 DEF CountOf

\* A set of positions that is not empty has a last one.
LEMMA LastOf ==
  ASSUME NEW n \in Nat, NEW S, S \subseteq 1..n, S # {}
  PROVE  \E m \in S : \A i \in S : i <= m
<1> DEFINE T == {n - i : i \in S}
           R == OpToRel(<, Nat)
<1>1. T \subseteq Nat
  <2>1. \A i \in S : i \in 1..n /\ n - i \in Nat
    OBVIOUS
  <2>2. QED
    BY <2>1
<1>2. T # {}
  OBVIOUS
<1>3. PICK m \in T : \A k \in T : ~ (<<k, m>> \in R)
  <2> HIDE DEF T
  <2>1. IsWellFoundedOn(R, Nat)
    BY NatLessThanWellFounded
  <2> HIDE DEF R
  <2>2. QED
    BY <1>1, <1>2, <2>1, WFMin
<1>4. \A k, l \in Nat : <<k, l>> \in R <=> k < l
  BY DEF OpToRel
<1>5. \A k \in T : m <= k
  <2> HIDE DEF R, T
  <2>1. TAKE k \in T
  <2>2. k \in Nat /\ m \in Nat /\ ~(k < m)
    BY <1>1, <1>3, <1>4
  <2>3. QED
    BY <2>2
<1>6. PICK i \in S : m = n - i
  OBVIOUS
<1>7. \A j \in S : j <= i
  BY <1>5, <1>6
<1>8. QED
  BY <1>7

\* The positions of a stream follow each other in the file.
LEMMA PositionFollows ==
  ASSUME scenario \in Scenarios, NEW line \in 1..Len(file)
  PROVE  /\ PositionAt(line) \in Nat \ {0}
         /\ \/ PositionAt(line) = 1
            \/ \E l \in 1..(line - 1) : /\ StreamAt(l) = StreamAt(line)
                                        /\ PositionAt(l) = PositionAt(line) - 1
<1> DEFINE name == file[line].stream
           Upto(l) == {i \in 1..l : file[i].stream = name}
<1>1. Len(file) \in Nat
  BY FileTyped
<1>2. \A l \in Nat : IsFiniteSet(Upto(l))
  <2>1. TAKE l \in Nat
  <2>2. IsFiniteSet(1..l)
    BY FS_Interval
  <2>3. QED
    BY <2>2, FS_Subset
<1>3. PICK before : before = Upto(line - 1)
  OBVIOUS
<1>4. IsFiniteSet(before) /\ Cardinality(before) \in Nat
  <2>1. line - 1 \in Nat
    BY <1>1
  <2>2. IsFiniteSet(before)
    BY <1>2, <1>3, <2>1
  <2>3. QED
    BY <2>2, FS_CardinalityType
<1>5. PositionAt(line) = Cardinality(before) + 1
  <2>1. Upto(line) = before \cup {line} /\ line \notin before
    BY <1>1, <1>3
  <2>2. PositionAt(line) = Cardinality(Upto(line))
    BY PositionIs
  <2>3. QED
    BY <1>4, <2>1, <2>2, FS_AddElement
<1>6. CASE before = {}
  BY <1>4, <1>5, <1>6, FS_EmptySet
<1>7. CASE before # {}
  <2>1. line - 1 \in Nat /\ before \subseteq 1..(line - 1)
    BY <1>1, <1>3
  <2>2. PICK l \in before : \A i \in before : i <= l
    BY <1>7, <2>1, LastOf
  <2>3. l \in 1..(line - 1) /\ l \in 1..Len(file) /\ file[l].stream = name
    BY <1>1, <1>3, <2>1, <2>2
  <2>4. Upto(l) = before
    BY <1>1, <1>3, <2>2, <2>3
  <2>5. PositionAt(l) = Cardinality(before)
    BY <2>3, <2>4, PositionIs
  <2>6. StreamAt(l) = StreamAt(line)
    BY <2>3 DEF StreamAt
  <2>7. QED
    BY <1>4, <1>5, <2>3, <2>5, <2>6
<1>8. QED
  BY <1>6, <1>7

--------------------------------------------------------------------------------
(* What the scripts and the application leave. *)

Jobs == [script : {"none", "write_to_db", "seed_from_jsonl"}, line : Nat \ {0},
         row : BOOLEAN]

SeedingType ==
  /\ scenario \in Scenarios /\ generation \in 0..MaxRuns
  /\ job \in Jobs
  /\ job.line <= Len(file) + 1
  /\ job.row => AtLine("write_to_db")
  /\ version \in [Stream -> Nat]
  /\ events = [s \in Stream |-> events[s]]

\* Every line behind the one a script is at is in the database, its own or another.
LinesWritten ==
  \A l \in 1..(job.line - 1) : PositionAt(l) \in DOMAIN events[StreamAt(l)]

\* Between the two statements of write_to_db the row is one ahead of the events, or
\* the position is taken.
RowAhead ==
  job.row =>
    LET s == StreamAt(job.line)
        position == PositionAt(job.line)
    IN  s \notin careless =>
          /\ version[s] = position
          /\ position \in DOMAIN events[s] \/ DOMAIN events[s] = 1..(position - 1)

SeedingInv == SeedingType /\ LinesWritten /\ RowAhead /\ RowsCountEvents

LEMMA LineTyped ==
  ASSUME SeedingType, NEW l \in 1..Len(file)
  PROVE  StreamAt(l) \in Stream
<1>1. file[l] \in Line
  BY FileTyped DEF SeedingType
<1>2. file[l].stream \in Data \cup Sessions
  BY <1>1 DEF Line
<1>3. generation \in 0..MaxRuns /\ 0 \in 0..MaxRuns
  BY SeedingAssumption DEF SeedingType
<1>4. QED
  BY <1>2, <1>3 DEF StreamAt, Stream

LEMMA LineSame ==
  ASSUME UNCHANGED <<scenario, generation>>
  PROVE  /\ file' = file
         /\ \A l : StreamAt(l)' = StreamAt(l) /\ PositionAt(l)' = PositionAt(l)
BY DEF file, StreamAt, PositionAt

\* The next position of a stream that is counted by its row.
LEMMA NextPosition ==
  ASSUME SeedingInv, NEW l, l = job.line, l <= Len(file),
         DOMAIN events[StreamAt(l)] = 1..version[StreamAt(l)]
  PROVE  /\ PositionAt(l) \in Nat \ {0} /\ StreamAt(l) \in Stream
         /\ \/ PositionAt(l) \in DOMAIN events[StreamAt(l)]
            \/ version[StreamAt(l)] = PositionAt(l) - 1
<1>1. scenario \in Scenarios /\ l \in Nat \ {0} /\ Len(file) \in Nat
  BY FileTyped DEF SeedingInv, SeedingType, Jobs
<1>2. l \in 1..Len(file)
  BY <1>1
<1>3. StreamAt(l) \in Stream
  BY <1>2, LineTyped DEF SeedingInv
<1>4. PICK s, p, v : s = StreamAt(l) /\ p = PositionAt(l) /\ v = version[s]
  OBVIOUS
<1>5. v \in Nat
  BY <1>3, <1>4 DEF SeedingInv, SeedingType
<1>6. p \in Nat \ {0} /\ (p = 1 \/ p - 1 \in DOMAIN events[s])
  <2>1. /\ p \in Nat \ {0}
        /\ \/ p = 1
           \/ \E k \in 1..(l - 1) : StreamAt(k) = s /\ PositionAt(k) = p - 1
    BY <1>1, <1>2, <1>4, PositionFollows
  <2>2. \A k \in 1..(l - 1) : PositionAt(k) \in DOMAIN events[StreamAt(k)]
    BY DEF SeedingInv, LinesWritten
  <2>3. QED
    BY <2>1, <2>2
<1>7. p \in 1..v \/ v = p - 1
  BY <1>4, <1>5, <1>6
<1>8. QED
  BY <1>3, <1>4, <1>6, <1>7

LEMMA InitSeedingInv == Init => SeedingInv
<1> SUFFICES ASSUME Init PROVE SeedingInv
  OBVIOUS
<1>1. scenario \in Scenarios /\ job = Idle
  BY DEF Init
<1>2. Len(file) \in Nat
  BY <1>1, FileTyped
<1>3. SeedingType
  <2>1. generation \in 0..MaxRuns
    BY SeedingAssumption DEF Init
  <2>2. job.line <= Len(file) + 1
    BY <1>1, <1>2 DEF Idle
  <2>3. QED
    BY <1>1, <2>1, <2>2 DEF Init, SeedingType, Idle, Jobs
<1>4. LinesWritten /\ RowAhead
  BY <1>1 DEF LinesWritten, RowAhead, Idle
<1>5. RowsCountEvents
  <2> SUFFICES ASSUME NEW s \in Stream PROVE DOMAIN events[s] = 1..version[s]
    BY DEF RowsCountEvents
  <2>1. events[s] = <<>> /\ version[s] = 0
    BY DEF Init
  <2>2. QED
    BY <2>1
<1>6. QED
  BY <1>3, <1>4, <1>5 DEF SeedingInv

\* A script starts or ends, and what it leaves half written is known to be careless.
LEMMA JobReset ==
  ASSUME SeedingInv, UNCHANGED <<scenario, db>>, generation' \in 0..MaxRuns,
         NEW script \in {"none", "write_to_db", "seed_from_jsonl"},
         job' = [Idle EXCEPT !.script = script],
         careless \cup HalfWritten \subseteq careless'
  PROVE  SeedingInv'
<1>1. UNCHANGED <<scenario, version, events>> /\ file' = file
  BY DEF db, file
<1>2. job'.script = script /\ job'.line = 1 /\ job'.row = FALSE
      /\ job' \in Jobs
  <2>1. Idle \in Jobs /\ Idle.line = 1 /\ Idle.row = FALSE
    BY DEF Idle, Jobs
  <2>2. QED
    BY <2>1 DEF Jobs
<1>3. Len(file) \in Nat
  BY FileTyped DEF SeedingInv, SeedingType, Jobs
<1>4. SeedingType'
  BY <1>1, <1>2, <1>3 DEF SeedingInv, SeedingType
<1>5. LinesWritten' /\ RowAhead'
  BY <1>2 DEF LinesWritten, RowAhead
<1>6. RowsCountEvents'
  BY <1>1 DEF SeedingInv, RowsCountEvents, Stream
<1>7. QED
  BY <1>4, <1>5, <1>6 DEF SeedingInv

\* What an event adds to the tables.
LEMMA EventAdded ==
  ASSUME SeedingType, NEW s \in Stream, NEW position, NEW line,
         events' = WithEvent(s, position, line)
  PROVE  /\ events' = [t \in Stream |-> events'[t]]
         /\ DOMAIN events'[s] = DOMAIN events[s] \cup {position}
         /\ \A t \in Stream \ {s} : events'[t] = events[t]
<1>1. events = [t \in Stream |-> events[t]]
  BY DEF SeedingType
<1>2. /\ events' = [t \in Stream |-> events'[t]]
      /\ events'[s] = [p \in DOMAIN events[s] \cup {position} |->
                        IF p = position THEN line ELSE events[s][p]]
      /\ \A t \in Stream \ {s} : events'[t] = events[t]
  BY <1>1 DEF WithEvent
<1>3. QED
  BY <1>2

LEMMA LinesStay ==
  ASSUME SeedingInv, UNCHANGED <<scenario, generation>>, job' = job,
         \A t \in Stream : DOMAIN events[t] \subseteq DOMAIN events'[t]
  PROVE  LinesWritten'
<1>1. \A l : StreamAt(l)' = StreamAt(l) /\ PositionAt(l)' = PositionAt(l)
  BY LineSame
<1>2. job.line \in Nat \ {0} /\ job.line <= Len(file) + 1 /\ Len(file) \in Nat
  BY FileTyped DEF SeedingInv, SeedingType, Jobs
<1>3. \A l \in 1..(job.line - 1) : l \in 1..Len(file)
  BY <1>2
<1>4. \A l \in 1..(job.line - 1) : StreamAt(l) \in Stream
  BY <1>3, LineTyped DEF SeedingInv
<1>5. QED
  BY <1>1, <1>4 DEF SeedingInv, LinesWritten

\* The script goes on to the next line, its line being written.
LEMMA NextLine ==
  ASSUME SeedingInv, UNCHANGED <<scenario, generation>>, NEW l, l = job.line,
         l <= Len(file), job' = [job EXCEPT !.row = FALSE, !.line = l + 1],
         \A t \in Stream : DOMAIN events[t] \subseteq DOMAIN events'[t],
         PositionAt(l) \in DOMAIN events'[StreamAt(l)],
         version' \in [Stream -> Nat], events' = [t \in Stream |-> events'[t]]
  PROVE  SeedingType' /\ LinesWritten' /\ RowAhead'
<1>1. file' = file /\ \A k : StreamAt(k)' = StreamAt(k) /\ PositionAt(k)' = PositionAt(k)
  BY LineSame
<1>2. /\ l \in Nat \ {0} /\ Len(file) \in Nat
      /\ job \in Jobs
  BY FileTyped DEF SeedingInv, SeedingType, Jobs
<1>3. /\ job'.line = l + 1 /\ job'.row = FALSE
      /\ job' \in Jobs
  <2>1. l + 1 \in Nat \ {0}
    BY <1>2
  <2>2. QED
    BY <1>2, <2>1 DEF Jobs
<1>4. SeedingType'
  <2>1. l + 1 <= Len(file) + 1
    BY <1>2
  <2>2. QED
    BY <1>1, <1>3, <2>1 DEF SeedingInv, SeedingType
<1>5. ASSUME NEW k \in 1..l PROVE PositionAt(k) \in DOMAIN events'[StreamAt(k)]
  <2>1. CASE k = l
    BY <2>1
  <2>2. CASE k # l
    <3>1. k \in 1..(l - 1) /\ k \in 1..Len(file)
      BY <1>2, <2>2
    <3>2. StreamAt(k) \in Stream /\ PositionAt(k) \in DOMAIN events[StreamAt(k)]
      BY <3>1, LineTyped DEF SeedingInv, LinesWritten
    <3>3. QED
      BY <3>2
  <2>3. QED
    BY <2>1, <2>2
<1>6. LinesWritten'
  <2>1. 1..(job'.line - 1) = 1..l
    BY <1>2, <1>3
  <2>2. QED
    BY <1>1, <1>5, <2>1 DEF LinesWritten
<1>7. RowAhead'
  BY <1>3 DEF RowAhead
<1>8. QED
  BY <1>4, <1>6, <1>7

LEMMA UpsertStreamStep ==
  ASSUME SeedingInv, UpsertStream
  PROVE  SeedingInv'
<1>1. PICK l, s, p : l = job.line /\ s = StreamAt(l) /\ p = PositionAt(l)
  OBVIOUS
<1>2. /\ job.script = "write_to_db" /\ l <= Len(file) /\ job.row = FALSE
      /\ version' = [version EXCEPT ![s] = p] /\ job' = [job EXCEPT !.row = TRUE]
      /\ UNCHANGED <<scenario, generation, events, careless>>
      /\ job \in Jobs
  BY <1>1 DEF UpsertStream, AtLine, SeedingInv, SeedingType, Jobs
<1>3. file' = file /\ \A k : StreamAt(k)' = StreamAt(k) /\ PositionAt(k)' = PositionAt(k)
  BY <1>2, LineSame
<1>4. /\ job'.script = "write_to_db" /\ job'.line = l /\ job'.row = TRUE
      /\ job' \in Jobs
  BY <1>1, <1>2 DEF Jobs
<1>5. l \in 1..Len(file) /\ s \in Stream /\ p \in Nat \ {0}
  <2>1. l \in 1..Len(file)
    BY <1>1, <1>2, FileTyped DEF SeedingInv, SeedingType, Jobs
  <2>2. QED
    BY <1>1, <2>1, LineTyped, PositionFollows DEF SeedingInv, SeedingType
<1>6. SeedingType'
  BY <1>1, <1>2, <1>3, <1>4, <1>5 DEF SeedingInv, SeedingType, AtLine
<1>7. LinesWritten'
  BY <1>1, <1>2, <1>3, <1>4 DEF SeedingInv, LinesWritten
<1>8. version'[s] = p /\ \A t \in Stream \ {s} : version'[t] = version[t]
  BY <1>2, <1>5 DEF SeedingInv, SeedingType
<1>9. HalfWritten = {} /\ HalfWritten' = {s}
  BY <1>1, <1>2, <1>3, <1>4 DEF HalfWritten
<1>10. RowAhead'
  <2>1. ASSUME s \notin careless
        PROVE  p \in DOMAIN events[s] \/ DOMAIN events[s] = 1..(p - 1)
    <3>1. DOMAIN events[s] = 1..version[s]
      BY <1>5, <1>9, <2>1 DEF SeedingInv, RowsCountEvents
    <3>2. p \in DOMAIN events[s] \/ version[s] = p - 1
      BY <1>1, <1>2, <3>1, NextPosition
    <3>3. QED
      BY <3>1, <3>2
  <2>2. QED
    BY <1>1, <1>2, <1>3, <1>4, <1>8, <2>1 DEF RowAhead
<1>11. RowsCountEvents'
  BY <1>2, <1>8, <1>9 DEF SeedingInv, RowsCountEvents, Stream
<1>12. QED
  BY <1>6, <1>7, <1>10, <1>11 DEF SeedingInv

LEMMA InsertEventStep ==
  ASSUME SeedingInv, InsertEvent
  PROVE  SeedingInv'
<1>1. PICK l, s, p : l = job.line /\ s = StreamAt(l) /\ p = PositionAt(l)
  OBVIOUS
<1>2. /\ l <= Len(file) /\ job.row = TRUE
      /\ events' = IF p \in DOMAIN events[s] THEN events ELSE WithEvent(s, p, l)
      /\ job' = [job EXCEPT !.row = FALSE, !.line = l + 1]
      /\ careless' = IF p \in DOMAIN events[s] THEN careless \cup {s} ELSE careless
      /\ UNCHANGED <<scenario, generation, version>>
      /\ job \in Jobs
  BY <1>1 DEF InsertEvent, AtLine, SeedingInv, SeedingType, Jobs
<1>3. l \in 1..Len(file) /\ s \in Stream /\ p \in Nat \ {0}
  <2>1. l \in 1..Len(file)
    BY <1>1, <1>2, FileTyped DEF SeedingInv, SeedingType, Jobs
  <2>2. QED
    BY <1>1, <2>1, LineTyped, PositionFollows DEF SeedingInv, SeedingType
<1>4. HalfWritten = {s} /\ HalfWritten' = {}
  <2>1. job'.row = FALSE
    BY <1>2 DEF Jobs
  <2>2. QED
    BY <1>1, <1>2, <2>1 DEF HalfWritten
<1>5. /\ events' = [t \in Stream |-> events'[t]]
      /\ DOMAIN events'[s] = DOMAIN events[s] \cup {p}
      /\ \A t \in Stream \ {s} : events'[t] = events[t]
  <2>1. CASE p \in DOMAIN events[s]
    BY <1>2, <2>1 DEF SeedingInv, SeedingType
  <2>2. CASE p \notin DOMAIN events[s]
    <3>1. events' = WithEvent(s, p, l)
      BY <1>2, <2>2
    <3>2. QED
      BY <1>3, <3>1, EventAdded DEF SeedingInv
  <2>3. QED
    BY <2>1, <2>2
<1>6. SeedingType' /\ LinesWritten' /\ RowAhead'
  <2>1. version' \in [Stream -> Nat]
    BY <1>2 DEF SeedingInv, SeedingType
  <2>2. \A t \in Stream : DOMAIN events[t] \subseteq DOMAIN events'[t]
    BY <1>5
  <2>3. p \in DOMAIN events'[s]
    BY <1>5
  <2>4. QED
    BY <1>1, <1>2, <1>5, <2>1, <2>2, <2>3, NextLine
<1>7. ASSUME NEW t \in Stream, t \notin careless'
      PROVE  DOMAIN events'[t] = 1..version[t]
  <2>1. CASE t = s
    <3>1. p \notin DOMAIN events[s] /\ s \notin careless
      BY <1>2, <1>7, <2>1
    <3>2. version[s] = p /\ DOMAIN events[s] = 1..(p - 1)
      BY <1>1, <1>2, <3>1 DEF SeedingInv, RowAhead
    <3>3. 1..(p - 1) \cup {p} = 1..p
      BY <1>3
    <3>4. QED
      BY <1>5, <2>1, <3>2, <3>3
  <2>2. CASE t # s
    <3>1. t \notin careless \cup HalfWritten
      BY <1>2, <1>4, <1>7, <2>2
    <3>2. QED
      BY <1>5, <2>2, <3>1 DEF SeedingInv, RowsCountEvents
  <2>3. QED
    BY <2>1, <2>2
<1>8. RowsCountEvents'
  BY <1>2, <1>4, <1>7 DEF RowsCountEvents, Stream
<1>9. QED
  BY <1>6, <1>8 DEF SeedingInv

LEMMA SeedLineStep ==
  ASSUME SeedingInv, SeedLine
  PROVE  SeedingInv'
<1>1. PICK l, s, p : l = job.line /\ s = StreamAt(l) /\ p = PositionAt(l)
  OBVIOUS
<1>2. /\ job.script = "seed_from_jsonl" /\ l <= Len(file)
      /\ p \notin DOMAIN events[s]
      /\ events' = WithEvent(s, p, l)
      /\ version' = [version EXCEPT ![s] = p]
      /\ job' = [job EXCEPT !.line = l + 1]
      /\ UNCHANGED <<scenario, generation, careless>>
      /\ job \in Jobs
  BY <1>1 DEF SeedLine, AtLine, SeedingInv, SeedingType
<1>3. job.row = FALSE
  BY <1>2 DEF SeedingInv, SeedingType, AtLine, Jobs
<1>4. job' = [job EXCEPT !.row = FALSE, !.line = l + 1] /\ job'.row = FALSE
  BY <1>2, <1>3 DEF Jobs
<1>5. HalfWritten = {} /\ HalfWritten' = {}
  BY <1>3, <1>4 DEF HalfWritten
<1>6. l \in 1..Len(file) /\ s \in Stream /\ p \in Nat \ {0}
  <2>1. l \in 1..Len(file)
    BY <1>1, <1>2, FileTyped DEF SeedingInv, SeedingType, Jobs
  <2>2. QED
    BY <1>1, <2>1, LineTyped, PositionFollows DEF SeedingInv, SeedingType
<1>7. /\ events' = [t \in Stream |-> events'[t]]
      /\ DOMAIN events'[s] = DOMAIN events[s] \cup {p}
      /\ \A t \in Stream \ {s} : events'[t] = events[t]
  BY <1>2, <1>6, EventAdded DEF SeedingInv
<1>8. /\ version' \in [Stream -> Nat] /\ version'[s] = p
      /\ \A t \in Stream \ {s} : version'[t] = version[t]
  BY <1>2, <1>6 DEF SeedingInv, SeedingType
<1>9. SeedingType' /\ LinesWritten' /\ RowAhead'
  <2>1. \A t \in Stream : DOMAIN events[t] \subseteq DOMAIN events'[t]
    BY <1>7
  <2>2. p \in DOMAIN events'[s]
    BY <1>7
  <2>3. QED
    BY <1>1, <1>2, <1>4, <1>7, <1>8, <2>1, <2>2, NextLine
<1>10. ASSUME NEW t \in Stream, t \notin careless
       PROVE  DOMAIN events'[t] = 1..(version'[t])
  <2>1. DOMAIN events[t] = 1..version[t]
    BY <1>5, <1>10 DEF SeedingInv, RowsCountEvents
  <2>2. CASE t = s
    <3>1. version[s] = p - 1
      BY <1>1, <1>2, <2>1, <2>2, NextPosition
    <3>2. 1..(p - 1) \cup {p} = 1..p
      BY <1>6
    <3>3. DOMAIN events[s] = 1..(p - 1)
      BY <2>1, <2>2, <3>1
    <3>4. QED
      BY <1>7, <1>8, <2>2, <3>2, <3>3
  <2>3. CASE t # s
    BY <1>7, <1>8, <2>1, <2>3
  <2>4. QED
    BY <2>2, <2>3
<1>11. RowsCountEvents'
  BY <1>2, <1>5, <1>10 DEF RowsCountEvents, Stream
<1>12. QED
  BY <1>9, <1>11 DEF SeedingInv

LEMMA AppendEventStep ==
  ASSUME SeedingInv, NEW s \in Touched, AppendEvent(s)
  PROVE  SeedingInv'
<1>1. PICK v : v = version[s]
  OBVIOUS
<1>2. s \in Stream /\ v \in Nat
  BY <1>1, SeedingAssumption DEF SeedingInv, SeedingType
<1>3. /\ UNCHANGED <<scenario, generation, job>>
      /\ careless' = careless \cup (HalfWritten \cap {s})
      /\ \/ UNCHANGED <<events, version>>
         \/ /\ events' = WithEvent(s, v + 1, 0)
            /\ version' = [version EXCEPT ![s] = v + 1]
  BY <1>1 DEF AppendEvent, db
<1>4. file' = file /\ \A k : StreamAt(k)' = StreamAt(k) /\ PositionAt(k)' = PositionAt(k)
  BY <1>3, LineSame
<1>5. HalfWritten' = HalfWritten
  BY <1>3, <1>4 DEF HalfWritten
<1>6. /\ version' \in [Stream -> Nat]
      /\ events' = [t \in Stream |-> events'[t]]
      /\ \A t \in Stream : DOMAIN events[t] \subseteq DOMAIN events'[t]
      /\ \A t \in Stream \ {s} : events'[t] = events[t] /\ version'[t] = version[t]
      /\ DOMAIN events[s] = 1..v => DOMAIN events'[s] = 1..(version'[s])
  <2>1. CASE UNCHANGED <<events, version>>
    BY <1>1, <2>1 DEF SeedingInv, SeedingType
  <2>2. CASE /\ events' = WithEvent(s, v + 1, 0)
             /\ version' = [version EXCEPT ![s] = v + 1]
    <3>1. /\ events' = [t \in Stream |-> events'[t]]
          /\ DOMAIN events'[s] = DOMAIN events[s] \cup {v + 1}
          /\ \A t \in Stream \ {s} : events'[t] = events[t]
      BY <1>2, <2>2, EventAdded DEF SeedingInv
    <3>2. /\ version' \in [Stream -> Nat] /\ version'[s] = v + 1
          /\ \A t \in Stream \ {s} : version'[t] = version[t]
      BY <1>2, <2>2 DEF SeedingInv, SeedingType
    <3>3. 1..v \cup {v + 1} = 1..(v + 1)
      BY <1>2
    <3>4. QED
      BY <3>1, <3>2, <3>3
  <2>3. QED
    BY <1>3, <2>1, <2>2
<1>7. SeedingType'
  BY <1>3, <1>4, <1>6 DEF SeedingInv, SeedingType, AtLine
<1>8. LinesWritten'
  BY <1>3, <1>6, LinesStay
<1>9. RowAhead'
  <2> SUFFICES ASSUME job.row, StreamAt(job.line) \notin careless'
               PROVE  LET h == StreamAt(job.line)
                          p == PositionAt(job.line)
                      IN  /\ version'[h] = p
                          /\ p \in DOMAIN events'[h] \/ DOMAIN events'[h] = 1..(p - 1)
    BY <1>3, <1>4 DEF RowAhead
  <2>1. PICK h, p : h = StreamAt(job.line) /\ p = PositionAt(job.line)
    OBVIOUS
  <2>2. HalfWritten = {h} /\ h \notin careless
    BY <1>3, <2>1 DEF HalfWritten
  <2>3. h # s
    BY <1>3, <2>1, <2>2
  <2>4. h \in Stream
    <3>1. job.line \in 1..Len(file)
      BY FileTyped DEF SeedingInv, SeedingType, AtLine, Jobs
    <3>2. QED
      BY <2>1, <3>1, LineTyped DEF SeedingInv
  <2>5. /\ version[h] = p
        /\ p \in DOMAIN events[h] \/ DOMAIN events[h] = 1..(p - 1)
    BY <2>1, <2>2 DEF SeedingInv, RowAhead
  <2>6. QED
    BY <1>6, <2>1, <2>3, <2>4, <2>5
<1>10. ASSUME NEW t \in Stream, t \notin careless' \cup HalfWritten
       PROVE  DOMAIN events'[t] = 1..(version'[t])
  <2>1. DOMAIN events[t] = 1..version[t]
    BY <1>3, <1>10 DEF SeedingInv, RowsCountEvents
  <2>2. QED
    BY <1>1, <1>6, <2>1
<1>11. RowsCountEvents'
  BY <1>5, <1>10 DEF RowsCountEvents, Stream
<1>12. QED
  BY <1>7, <1>8, <1>9, <1>11 DEF SeedingInv

LEMMA NextSeeding == SeedingInv /\ [Next]_vars => SeedingInv'
<1> SUFFICES ASSUME SeedingInv, [Next]_vars PROVE SeedingInv'
  OBVIOUS
<1>1. job.script # "write_to_db" => HalfWritten = {}
  BY DEF SeedingInv, SeedingType, AtLine, HalfWritten
<1>2. CASE GenerateAll
  <2>1. generation' \in 0..MaxRuns
    BY <1>2, SeedingAssumption DEF GenerateAll, SeedingInv, SeedingType
  <2>2. UNCHANGED <<scenario, db>> /\ job' = [Idle EXCEPT !.script = "write_to_db"]
    BY <1>2 DEF GenerateAll
  <2>3. careless \cup HalfWritten \subseteq careless'
    BY <1>1, <1>2 DEF GenerateAll
  <2>4. QED
    BY <2>1, <2>2, <2>3, JobReset
<1>3. CASE SeedFromJsonl
  <2>1. generation' \in 0..MaxRuns
    BY <1>3 DEF SeedFromJsonl, SeedingInv, SeedingType
  <2>2. UNCHANGED <<scenario, db>> /\ job' = [Idle EXCEPT !.script = "seed_from_jsonl"]
    BY <1>3 DEF SeedFromJsonl
  <2>3. careless \cup HalfWritten \subseteq careless'
    BY <1>1, <1>3 DEF SeedFromJsonl
  <2>4. QED
    BY <2>1, <2>2, <2>3, JobReset
<1>4. CASE UpsertStream
  BY <1>4, UpsertStreamStep
<1>5. CASE InsertEvent
  BY <1>5, InsertEventStep
<1>6. CASE SeedLine
  BY <1>6, SeedLineStep
<1>7. Idle = [Idle EXCEPT !.script = "none"]
  BY DEF Idle
<1>8. CASE SeedConflict
  <2>1. generation' \in 0..MaxRuns
    BY <1>8 DEF SeedConflict, SeedingInv, SeedingType
  <2>2. UNCHANGED <<scenario, db>> /\ job' = [Idle EXCEPT !.script = "none"]
    BY <1>7, <1>8 DEF SeedConflict
  <2>3. careless \cup HalfWritten \subseteq careless'
    BY <1>1, <1>8 DEF SeedConflict, AtLine
  <2>4. QED
    BY <2>1, <2>2, <2>3, JobReset
<1>9. CASE Stop
  <2>1. generation' \in 0..MaxRuns
    BY <1>9 DEF Stop, SeedingInv, SeedingType
  <2>2. UNCHANGED <<scenario, db>> /\ job' = [Idle EXCEPT !.script = "none"]
    BY <1>7, <1>9 DEF Stop
  <2>3. careless \cup HalfWritten \subseteq careless'
    BY <1>9 DEF Stop
  <2>4. QED
    BY <2>1, <2>2, <2>3, JobReset
<1>10. CASE \E s \in Touched : AppendEvent(s)
  BY <1>10, AppendEventStep
<1>11. CASE Quiescent \/ UNCHANGED vars
  <2>1. UNCHANGED vars
    BY <1>11 DEF Quiescent
  <2>2. UNCHANGED <<scenario, generation, job, version, events, careless>>
    BY <2>1 DEF vars, db
  <2>3. file' = file
        /\ \A k : StreamAt(k)' = StreamAt(k) /\ PositionAt(k)' = PositionAt(k)
    BY <2>2, LineSame
  <2>4. SeedingType'
    BY <2>2, <2>3 DEF SeedingInv, SeedingType, AtLine
  <2>5. LinesWritten'
    BY <2>2, LinesStay DEF SeedingInv
  <2>6. RowAhead'
    BY <2>2, <2>3 DEF SeedingInv, RowAhead
  <2>7. RowsCountEvents'
    BY <2>2, <2>3 DEF SeedingInv, RowsCountEvents, HalfWritten, Stream
  <2>8. QED
    BY <2>4, <2>5, <2>6, <2>7 DEF SeedingInv
<1>12. QED
  BY <1>2, <1>3, <1>4, <1>5, <1>6, <1>8, <1>9, <1>10, <1>11 DEF Next

\* The lines behind the one a script is at are in the database, and rows count the events
\* of every stream that was not written to carelessly, wherever a script is.
THEOREM SeedingInvariance == Spec => []SeedingInv
BY InitSeedingInv, NextSeeding, PTL DEF Spec

\* However often the two scripts are started, wherever they stop and whatever the
\* application appends in between, a stream's current_version counts its events without
\* a gap, unless write_to_db broke off between its two statements for a line of that
\* stream, found the position taken, or was overtaken there (generate_all.py and
\* seed_from_jsonl.py, which write positions counted from the file alone).
THEOREM RowsAreCounted == Spec => []RowsCountEvents
<1>1. SeedingInv => RowsCountEvents
  BY DEF SeedingInv
<1>2. QED
  BY <1>1, SeedingInvariance, PTL

--------------------------------------------------------------------------------
(* How many lines are on a stream. *)

\* A set is as large as the other when one is counted off against the other.
LEMMA CountedOff ==
  ASSUME NEW S, NEW T, IsFiniteSet(S), NEW F \in [S -> T],
         \A x, y \in S : F[x] = F[y] => x = y,
         \A t \in T : \E x \in S : F[x] = t
  PROVE  IsFiniteSet(T) /\ Cardinality(T) = Cardinality(S)
<1>1. F \in Bijection(S, T)
  BY Fun_IsBij
<1>2. ExistsBijection(S, T)
  BY <1>1 DEF ExistsBijection
<1>3. QED
  BY <1>2, FS_Bijection

LEMMA CountCat ==
  ASSUME NEW a \in Seq(Line), NEW b \in Seq(Line), NEW s
  PROVE  CountOf(a \o b, s) = CountOf(a, s) + CountOf(b, s)
<1>1. PICK n, m, c : n = Len(a) /\ m = Len(b) /\ c = a \o b
  OBVIOUS
<1>2. /\ n \in Nat /\ m \in Nat /\ DOMAIN a = 1..n /\ DOMAIN b = 1..m
      /\ c \in Seq(Line) /\ DOMAIN c = 1..(n + m)
      /\ \A i \in 1..(n + m) : c[i] = IF i <= n THEN a[i] ELSE b[i - n]
  BY <1>1, ConcatProperties
<1>3. PICK A, B, C : /\ A = {i \in 1..n : a[i].stream = s}
                     /\ B = {i \in 1..m : b[i].stream = s}
                     /\ C = {i \in 1..(n + m) : c[i].stream = s}
  OBVIOUS
<1>4. PICK D : D = {i \in (n + 1)..(n + m) : b[i - n].stream = s}
  OBVIOUS
<1>5. C = A \cup D /\ A \cap D = {}
  <2>1. \A i \in 1..(n + m) : i \in C <=> i \in A \/ i \in D
    <3>1. TAKE i \in 1..(n + m)
    <3>2. CASE i <= n
      <4>1. i \in 1..n /\ i \notin (n + 1)..(n + m)
        BY <1>2, <3>2
      <4>2. c[i] = a[i]
        BY <1>2, <3>2
      <4>3. QED
        BY <1>3, <1>4, <4>1, <4>2
    <3>3. CASE ~(i <= n)
      <4>1. i \notin 1..n /\ i \in (n + 1)..(n + m)
        BY <1>2, <3>3
      <4>2. c[i] = b[i - n]
        BY <1>2, <3>3
      <4>3. QED
        BY <1>3, <1>4, <4>1, <4>2
    <3>4. QED
      BY <3>2, <3>3
  <2>2. A \subseteq 1..(n + m) /\ D \subseteq 1..(n + m) /\ C \subseteq 1..(n + m)
    BY <1>2, <1>3, <1>4
  <2>3. A \cap D = {}
    BY <1>2, <1>3, <1>4
  <2>4. QED
    BY <2>1, <2>2, <2>3
<1>6. IsFiniteSet(A) /\ IsFiniteSet(B)
  <2>1. IsFiniteSet(1..n)
    BY <1>2, FS_Interval
  <2>2. IsFiniteSet(1..m)
    BY <1>2, FS_Interval
  <2>3. A \subseteq 1..n /\ B \subseteq 1..m
    BY <1>3
  <2>4. IsFiniteSet(A)
    BY <2>1, <2>3, FS_Subset
  <2>5. IsFiniteSet(B)
    BY <2>2, <2>3, FS_Subset
  <2>6. QED
    BY <2>4, <2>5
<1>7. IsFiniteSet(D) /\ Cardinality(D) = Cardinality(B)
  <2>1. PICK F : F = [i \in B |-> n + i]
    OBVIOUS
  <2>2. F \in [B -> D]
    <3>1. \A i \in B : n + i \in (n + 1)..(n + m) /\ (n + i) - n = i /\ b[i].stream = s
      BY <1>2, <1>3
    <3>2. \A i \in B : n + i \in D
      BY <1>4, <3>1
    <3>3. QED
      BY <2>1, <3>2
  <2>3. \A x, y \in B : F[x] = F[y] => x = y
    BY <1>2, <1>3, <2>1
  <2>4. \A t \in D : \E x \in B : F[x] = t
    <3>1. TAKE t \in D
    <3>2. PICK x : x = t - n
      OBVIOUS
    <3>3. x \in 1..m /\ n + x = t /\ b[x].stream = s
      BY <1>2, <1>4, <3>2
    <3>4. x \in B
      BY <1>3, <3>3
    <3>5. QED
      BY <2>1, <3>3, <3>4
  <2>5. QED
    BY <1>6, <2>2, <2>3, <2>4, CountedOff
<1>8. Cardinality(C) = Cardinality(A) + Cardinality(B)
  <2>1. Cardinality(A \cup D) = Cardinality(A) + Cardinality(D) - Cardinality(A \cap D)
    BY <1>6, <1>7, FS_Union
  <2>2. Cardinality(A \cap D) = 0
    BY <1>5, FS_EmptySet
  <2>3. Cardinality(A) \in Nat
    BY <1>6, FS_CardinalityType
  <2>4. Cardinality(B) \in Nat
    BY <1>6, FS_CardinalityType
  <2>5. QED
    BY <1>5, <1>7, <2>1, <2>2, <2>3, <2>4
<1>9. CountOf(a \o b, s) = Cardinality(C)
  BY <1>1, <1>2, <1>3 DEF CountOf
<1>10. CountOf(a, s) = Cardinality(A) /\ CountOf(b, s) = Cardinality(B)
  BY <1>2, <1>3 DEF CountOf
<1>11. QED
  BY <1>8, <1>9, <1>10

\* Lines that claim nothing, on some streams.
Piece(lines, S) ==
  /\ lines \in Seq(Line)
  /\ \A i \in 1..Len(lines) : lines[i].stream \in S /\ lines[i].claim = NoClaim

LEMMA PieceCat ==
  ASSUME NEW S, NEW a, NEW b, Piece(a, S), Piece(b, S)
  PROVE  Piece(a \o b, S)
<1>1. a \in Seq(Line) /\ b \in Seq(Line)
  BY DEF Piece
<1>2. PICK n, m, c : n = Len(a) /\ m = Len(b) /\ c = a \o b
  OBVIOUS
<1>3. /\ n \in Nat /\ m \in Nat /\ c \in Seq(Line) /\ Len(c) = n + m
      /\ \A i \in 1..(n + m) : c[i] = IF i <= n THEN a[i] ELSE b[i - n]
  BY <1>1, <1>2, ConcatProperties
<1>4. \A i \in 1..(n + m) : IF i <= n THEN i \in 1..n ELSE i - n \in 1..m
  BY <1>3
<1>5. \A i \in 1..(n + m) : c[i].stream \in S /\ c[i].claim = NoClaim
  BY <1>2, <1>3, <1>4 DEF Piece
<1>6. QED
  BY <1>2, <1>3, <1>5 DEF Piece

\* No line of a piece is on another stream.
LEMMA CountNone ==
  ASSUME NEW S, NEW lines, Piece(lines, S), NEW s, s \notin S
  PROVE  CountOf(lines, s) = 0
<1>1. DOMAIN lines = 1..Len(lines)
  BY DEF Piece
<1>2. {i \in DOMAIN lines : lines[i].stream = s} = {}
  BY <1>1 DEF Piece
<1>3. QED
  BY <1>2, FS_EmptySet DEF CountOf

LEMMA EmitPiece ==
  ASSUME NEW stream \in Data \cup Sessions, NEW type \in TypeName, NEW S, stream \in S
  PROVE  /\ Piece(<<_emit(stream, type)>>, S)
         /\ CountOf(<<_emit(stream, type)>>, stream) = 1
<1>1. PICK x : x = _emit(stream, type)
  OBVIOUS
<1>2. x \in Line /\ x.stream = stream /\ x.claim = NoClaim
  BY <1>1, EmitTyped DEF _emit
<1>3. Piece(<<x>>, S)
  BY <1>2 DEF Piece
<1>4. {i \in DOMAIN <<x>> : <<x>>[i].stream = stream} = {1}
  BY <1>2
<1>5. CountOf(<<x>>, stream) = 1
  BY <1>4, FS_Singleton DEF CountOf
<1>6. QED
  BY <1>1, <1>3, <1>5

LEMMA SessionPiece ==
  ASSUME NEW agent \in Sessions, NEW S, agent \in S, NEW count \in Nat
  PROVE  Piece(Opened(agent), S) /\ Piece(_nodes(agent, count), S)
<1>1. agent \in Data \cup Sessions
  OBVIOUS
<1>2. Piece(Opened(agent), S)
  <2>1. PICK x, y : /\ x = _emit(agent, "AgentSessionStarted")
                    /\ y = _emit(agent, "AgentInputValidated")
    OBVIOUS
  <2>2. Opened(agent) = <<x, y>>
    BY <2>1 DEF Opened, Emitted
  <2>3. x \in Line /\ x.stream = agent /\ x.claim = NoClaim
    BY <1>1, <2>1, EmitTyped DEF _emit, TypeName
  <2>4. y \in Line /\ y.stream = agent /\ y.claim = NoClaim
    BY <1>1, <2>1, EmitTyped DEF _emit, TypeName
  <2>5. Piece(<<x, y>>, S)
    BY <2>3, <2>4 DEF Piece
  <2>6. QED
    BY <2>2, <2>5
<1>3. Piece(_nodes(agent, count), S)
  <2>1. PICK x : x = _emit(agent, "AgentNodeExecuted")
    OBVIOUS
  <2>2. x \in Line /\ x.stream = agent /\ x.claim = NoClaim
    BY <1>1, <2>1, EmitTyped DEF _emit, TypeName
  <2>3. _nodes(agent, count) = [i \in 1..count |-> x]
    BY <2>1 DEF _nodes
  <2>4. Piece([i \in 1..count |-> x], S)
    BY <2>2 DEF Piece
  <2>5. QED
    BY <2>3, <2>4
<1>4. QED
  BY <1>2, <1>3

LEMMA PairIs ==
  ASSUME NEW x, NEW y
  PROVE  <<x, y>> = <<x>> \o <<y>>
<1>1. PICK T : T = {x, y}
  OBVIOUS
<1>2. PICK a, b, c, d : a = <<x>> /\ b = <<y>> /\ c = a \o b /\ d = <<x, y>>
  OBVIOUS
<1>3. a \in Seq(T) /\ b \in Seq(T) /\ Len(a) = 1 /\ Len(b) = 1 /\ a[1] = x /\ b[1] = y
  BY <1>1, <1>2
<1>4. c \in Seq(T) /\ Len(c) = 2 /\ c[1] = x /\ c[2] = y
  <2>1. /\ c \in Seq(T) /\ Len(c) = 1 + 1
        /\ \A i \in 1..1 + 1 : c[i] = IF i <= 1 THEN a[i] ELSE b[i - 1]
    BY <1>2, <1>3, ConcatProperties
  <2>2. 1 \in 1..1 + 1 /\ 2 \in 1..1 + 1 /\ 2 - 1 = 1
    OBVIOUS
  <2>3. c[1] = a[1] /\ c[2] = b[1]
    BY <2>1, <2>2
  <2>4. QED
    BY <1>3, <2>1, <2>3
<1>5. d \in Seq(T) /\ Len(d) = 2 /\ d[1] = x /\ d[2] = y
  BY <1>1, <1>2
<1>6. \A i \in 1..2 : c[i] = d[i]
  <2>1. \A i \in 1..2 : i = 1 \/ i = 2
    OBVIOUS
  <2>2. QED
    BY <1>4, <1>5, <2>1
<1>7. c = d
  BY <1>4, <1>5, <1>6
<1>8. QED
  BY <1>2, <1>7

LEMMA PairPiece ==
  ASSUME NEW s \in Data \cup Sessions, NEW t \in Data \cup Sessions,
         NEW p \in TypeName, NEW q \in TypeName, NEW S, s \in S, t \in S
  PROVE  /\ Piece(<<_emit(s, p), _emit(t, q)>>, S)
         /\ t = s => CountOf(<<_emit(s, p), _emit(t, q)>>, s) = 2
         /\ t # s => CountOf(<<_emit(s, p), _emit(t, q)>>, t) = 1
<1>1. PICK a, b : a = <<_emit(s, p)>> /\ b = <<_emit(t, q)>>
  OBVIOUS
<1>2. Piece(a, S) /\ Piece(a, {s}) /\ CountOf(a, s) = 1
  BY <1>1, EmitPiece
<1>3. Piece(b, S) /\ Piece(b, {t}) /\ CountOf(b, t) = 1
  BY <1>1, EmitPiece
<1>4. <<_emit(s, p), _emit(t, q)>> = a \o b
  BY <1>1, PairIs
<1>5. Piece(a \o b, S)
  BY <1>2, <1>3, PieceCat
<1>6. a \in Seq(Line) /\ b \in Seq(Line)
  BY <1>2, <1>3 DEF Piece
<1>7. CountOf(a \o b, s) = CountOf(a, s) + CountOf(b, s)
  BY <1>6, CountCat
<1>8. CountOf(a \o b, t) = CountOf(a, t) + CountOf(b, t)
  BY <1>6, CountCat
<1>9. t # s => CountOf(a, t) = 0
  BY <1>2, CountNone
<1>10. t = s => CountOf(a \o b, s) = 2
  BY <1>2, <1>3, <1>7
<1>11. t # s => CountOf(a \o b, t) = 1
  BY <1>2, <1>3, <1>8, <1>9
<1>12. QED
  BY <1>4, <1>5, <1>10, <1>11, Zenon

LEMMA EmittedIs ==
  ASSUME NEW s, NEW p, NEW q
  PROVE  Emitted(s, <<p, q>>) = <<_emit(s, p)>> \o <<_emit(s, q)>>
<1>1. PICK types : types = <<p, q>>
  OBVIOUS
<1>2. DOMAIN types = 1..2 /\ types[1] = p /\ types[2] = q
  BY <1>1
<1>3. \A i \in 1..2 : i = 1 \/ i = 2
  OBVIOUS
<1>4. PICK x, y : x = _emit(s, p) /\ y = _emit(s, q)
  OBVIOUS
<1>5. Emitted(s, types) = [i \in 1..2 |-> _emit(s, types[i])]
  BY <1>2 DEF Emitted
<1>6. \A i \in 1..2 : _emit(s, types[i]) = <<x, y>>[i]
  BY <1>2, <1>3, <1>4
<1>7. [i \in 1..2 |-> _emit(s, types[i])] = <<x, y>>
  BY <1>6
<1>8. <<x, y>> = <<x>> \o <<y>>
  BY PairIs
<1>9. QED
  BY <1>1, <1>4, <1>5, <1>7, <1>8, Zenon

LEMMA EmittedPiece ==
  ASSUME NEW s \in Data \cup Sessions,
         NEW p \in TypeName, NEW q \in TypeName, NEW S, s \in S
  PROVE  /\ Piece(Emitted(s, <<p, q>>), S)
         /\ CountOf(Emitted(s, <<p, q>>), s) = 2
<1>1. Emitted(s, <<p, q>>) = <<_emit(s, p), _emit(s, q)>>
  <2>1. PICK x, y : x = _emit(s, p) /\ y = _emit(s, q)
    OBVIOUS
  <2>2. <<x, y>> = <<x>> \o <<y>>
    BY PairIs
  <2>3. QED
    BY <2>1, <2>2, EmittedIs, Zenon
<1>2. QED
  BY <1>1, PairPiece

--------------------------------------------------------------------------------
(* What a session claims is there. *)

\* The compliance and decision sessions name the position before the one they mean.
Actual(stream, position) ==
  IF stream \in {"compliance-agent", "decision-agent"} THEN position + 1 ELSE position

\* One line means another.
Meant(f, i, j) ==
  /\ f[j].stream = f[i].claim.stream /\ f[j].type = f[i].claim.type
  /\ CountOf(SubSeq(f, 1, j), f[i].claim.stream) = Actual(f[i].stream, f[i].claim.position)

\* Every line that claims something means an earlier one.
Backed(f) ==
  /\ f \in Seq(Line)
  /\ \A i \in 1..Len(f) : f[i].claim # NoClaim => \E j \in 1..(i - 1) : Meant(f, i, j)

LEMMA MeantKept ==
  ASSUME NEW a \in Seq(Line), NEW b \in Seq(Line), NEW i \in 1..Len(a), NEW j \in 1..Len(a),
         Meant(a, i, j)
  PROVE  Meant(a \o b, i, j)
<1>1. PICK c : c = a \o b
  OBVIOUS
<1>2. c[i] = a[i] /\ c[j] = a[j]
  <2>1. Len(a) \in Nat /\ Len(b) \in Nat
    OBVIOUS
  <2>2. \A k \in 1..Len(a) + Len(b) : c[k] = IF k <= Len(a) THEN a[k] ELSE b[k - Len(a)]
    BY <1>1, ConcatProperties
  <2>3. i \in 1..Len(a) + Len(b) /\ i <= Len(a) /\ j \in 1..Len(a) + Len(b) /\ j <= Len(a)
    BY <2>1
  <2>4. QED
    BY <2>2, <2>3
<1>3. SubSeq(c, 1, j) = SubSeq(a, 1, j)
  <2>1. 1 \in 1..Len(a)
    OBVIOUS
  <2>2. QED
    BY <1>1, <2>1, SubSeqOfConcat1
<1>4. Meant(c, i, j)
  BY <1>2, <1>3 DEF Meant
<1>5. QED
  BY <1>1, <1>4

LEMMA BackedPiece ==
  ASSUME NEW a, Backed(a), NEW S, NEW b, Piece(b, S)
  PROVE  Backed(a \o b)
<1>1. a \in Seq(Line) /\ b \in Seq(Line)
  BY DEF Backed, Piece
<1>2. PICK n, m, c : n = Len(a) /\ m = Len(b) /\ c = a \o b
  OBVIOUS
<1>3. /\ n \in Nat /\ m \in Nat /\ c \in Seq(Line) /\ Len(c) = n + m
      /\ \A i \in 1..(n + m) : c[i] = IF i <= n THEN a[i] ELSE b[i - n]
  BY <1>1, <1>2, ConcatProperties
<1>4. ASSUME NEW i \in 1..(n + m), c[i].claim # NoClaim
      PROVE  \E j \in 1..(i - 1) : Meant(c, i, j)
  <2>1. i <= n
    <3>1. SUFFICES ASSUME ~(i <= n) PROVE FALSE
      OBVIOUS
    <3>2. i - n \in 1..m /\ c[i] = b[i - n]
      BY <1>3, <3>1
    <3>3. b[i - n].claim = NoClaim
      BY <1>2, <3>2 DEF Piece
    <3>4. QED
      BY <1>4, <3>2, <3>3
  <2>2. i \in 1..n /\ c[i] = a[i]
    BY <1>3, <2>1
  <2>3. PICK j \in 1..(i - 1) : Meant(a, i, j)
    BY <1>2, <1>4, <2>2 DEF Backed
  <2>4. j \in 1..n
    BY <1>3, <2>2
  <2>5. Meant(c, i, j)
    BY <1>1, <1>2, <2>2, <2>3, <2>4, MeantKept
  <2>6. QED
    BY <2>5
<1>5. QED
  BY <1>2, <1>3, <1>4 DEF Backed

\* One claim more.
LEMMA BackedClaim ==
  ASSUME NEW a, Backed(a), NEW agent \in Sessions, NEW stream \in Data,
         NEW type \in TypeName, NEW position \in Nat, NEW j \in 1..Len(a),
         a[j].stream = stream, a[j].type = type,
         CountOf(SubSeq(a, 1, j), stream) = Actual(agent, position)
  PROVE  Backed(a \o <<[stream |-> agent, type |-> "AgentOutputWritten",
                        claim |-> [stream |-> stream, type |-> type, position |-> position]]>>)
<1>1. PICK claim : claim = [stream |-> stream, type |-> type, position |-> position]
  OBVIOUS
<1>2. PICK x : x = [stream |-> agent, type |-> "AgentOutputWritten", claim |-> claim]
  OBVIOUS
<1>3. claim \in Claim /\ claim.stream = stream /\ claim.type = type /\ claim.position = position
  BY <1>1 DEF Claim
<1>4. x \in Line /\ x.stream = agent /\ x.claim = claim
  BY <1>2, <1>3 DEF Line, TypeName
<1>5. PICK b : b = <<x>>
  OBVIOUS
<1>6. a \in Seq(Line) /\ b \in Seq(Line) /\ Len(b) = 1 /\ b[1] = x
  BY <1>4, <1>5 DEF Backed
<1>7. PICK n, c : n = Len(a) /\ c = a \o b
  OBVIOUS
<1>8. /\ n \in Nat /\ c \in Seq(Line) /\ Len(c) = n + 1
      /\ \A i \in 1..(n + 1) : c[i] = IF i <= n THEN a[i] ELSE b[i - n]
  <2>1. PICK m : m = Len(b)
    OBVIOUS
  <2>2. /\ n \in Nat /\ c \in Seq(Line) /\ Len(c) = n + m
        /\ \A i \in 1..(n + m) : c[i] = IF i <= n THEN a[i] ELSE b[i - n]
    <3>1. a \in Seq(Line) /\ b \in Seq(Line)
      BY <1>6
    <3>2. QED
      BY <1>7, <2>1, <3>1, ConcatProperties
  <2>3. m = 1
    BY <1>6, <2>1
  <2>4. QED
    BY <2>2, <2>3
<1>9. j \in 1..n
  BY <1>7
<1>10. ASSUME NEW i \in 1..(n + 1), c[i].claim # NoClaim
       PROVE  \E k \in 1..(i - 1) : Meant(c, i, k)
  <2>1. CASE i <= n
    <3>1. i \in 1..n /\ c[i] = a[i]
      BY <1>8, <2>1
    <3>2. PICK k \in 1..(i - 1) : Meant(a, i, k)
      BY <1>7, <1>10, <3>1 DEF Backed
    <3>3. k \in 1..n
      BY <1>8, <3>1
    <3>4. Meant(c, i, k)
      BY <1>6, <1>7, <3>1, <3>2, <3>3, MeantKept
    <3>5. QED
      BY <3>4
  <2>2. CASE ~(i <= n)
    <3>1. i = n + 1 /\ i - n = 1 /\ j \in 1..(i - 1)
      BY <1>8, <1>9, <2>2
    <3>2. c[i] = x
      BY <1>6, <1>8, <2>2, <3>1
    <3>3. c[j] = a[j]
      <4>1. j \in 1..(n + 1) /\ j <= n
        BY <1>8, <1>9
      <4>2. QED
        BY <1>8, <4>1
    <3>4. SubSeq(c, 1, j) = SubSeq(a, 1, j)
      <4>1. 1 \in 1..Len(a)
        BY <1>6
      <4>2. QED
        BY <1>6, <1>7, <4>1, SubSeqOfConcat1
    <3>5. Meant(c, i, j)
      BY <1>3, <1>4, <3>2, <3>3, <3>4 DEF Meant
    <3>6. QED
      BY <3>1, <3>5
  <2>3. QED
    BY <2>1, <2>2
<1>11. Backed(c)
  BY <1>7, <1>8, <1>10 DEF Backed
<1>12. QED
  BY <1>1, <1>2, <1>5, <1>7, <1>11

\* The beginning of a list that reaches into the second of its parts.
LEMMA SubSeqCat ==
  ASSUME NEW a \in Seq(Line), NEW b \in Seq(Line), NEW j \in 1..Len(b)
  PROVE  SubSeq(a \o b, 1, Len(a) + j) = a \o SubSeq(b, 1, j)
<1>1. PICK n, m, c, d, e, k : /\ n = Len(a) /\ m = Len(b) /\ c = a \o b
                              /\ d = SubSeq(b, 1, j) /\ e = a \o d /\ k = n + j
  OBVIOUS
<1>2. /\ n \in Nat /\ m \in Nat /\ c \in Seq(Line) /\ Len(c) = n + m
      /\ \A i \in 1..(n + m) : c[i] = IF i <= n THEN a[i] ELSE b[i - n]
  BY <1>1, ConcatProperties
<1>3. j \in 1..m /\ k \in Nat /\ k <= n + m
  BY <1>1, <1>2
<1>4. d \in Seq(Line) /\ Len(d) = j /\ \A i \in 1..j : d[i] = b[i]
  <2>1. \A i \in 1..j : b[i] \in Line
    BY <1>1, <1>3
  <2>2. /\ d \in Seq(Line)
        /\ Len(d) = IF 1 <= j THEN j - 1 + 1 ELSE 0
        /\ \A i \in 1..j - 1 + 1 : d[i] = b[1 + i - 1]
    BY <1>1, <2>1, SubSeqProperties
  <2>3. Len(d) = j
    BY <1>3, <2>2
  <2>4. \A i \in 1..j : i \in 1..j - 1 + 1 /\ 1 + i - 1 = i
    OBVIOUS
  <2>5. QED
    BY <2>2, <2>3, <2>4
<1>5. /\ e \in Seq(Line) /\ Len(e) = k
      /\ \A i \in 1..k : e[i] = IF i <= n THEN a[i] ELSE d[i - n]
  BY <1>1, <1>4, ConcatProperties
<1>6. PICK f : f = SubSeq(c, 1, k)
  OBVIOUS
<1>7. f \in Seq(Line) /\ Len(f) = k /\ \A i \in 1..k : f[i] = c[i]
  <2>1. \A i \in 1..k : c[i] \in Line
    BY <1>2, <1>3
  <2>2. /\ f \in Seq(Line)
        /\ Len(f) = IF 1 <= k THEN k - 1 + 1 ELSE 0
        /\ \A i \in 1..k - 1 + 1 : f[i] = c[1 + i - 1]
    BY <1>3, <1>6, <2>1, SubSeqProperties
  <2>3. Len(f) = k
    BY <1>1, <1>2, <1>3, <2>2
  <2>4. \A i \in 1..k : i \in 1..k - 1 + 1 /\ 1 + i - 1 = i
    BY <1>3
  <2>5. QED
    BY <2>2, <2>3, <2>4
<1>8. \A i \in 1..k : f[i] = e[i]
  <2>1. TAKE i \in 1..k
  <2>2. i \in 1..(n + m)
    BY <1>2, <1>3
  <2>3. CASE i <= n
    BY <1>2, <1>5, <1>7, <2>2, <2>3
  <2>4. CASE ~(i <= n)
    <3>1. i - n \in 1..j
      BY <1>1, <1>2, <1>3, <2>4
    <3>2. f[i] = b[i - n] /\ e[i] = d[i - n]
      BY <1>2, <1>5, <1>7, <2>2, <2>4
    <3>3. QED
      BY <1>4, <3>1, <3>2
  <2>5. QED
    BY <2>3, <2>4
<1>9. f = e
  BY <1>5, <1>7, <1>8
<1>10. QED
  BY <1>1, <1>6, <1>9

LEMMA CatAssociates ==
  \A a, b, c \in Seq(Line) : (a \o b) \o c = a \o (b \o c)
BY ConcatAssociative

\* A step of the simulator: what a session does, what it says of it, and the
\* next trigger.
LEMMA StepBacked ==
  ASSUME NEW before, Backed(before), NEW S, NEW lead, Piece(lead, S),
         NEW U, NEW tail, Piece(tail, U), NEW agent \in Sessions, NEW stream \in Data,
         NEW type \in TypeName, NEW position \in Nat, NEW j \in 1..Len(lead),
         lead[j].stream = stream, lead[j].type = type,
         CountOf(before \o SubSeq(lead, 1, j), stream) = Actual(agent, position)
  PROVE  Backed(before \o (lead \o Closed(agent, stream, type, position) \o tail))
<1>1. PICK x, y : /\ x = [stream |-> agent, type |-> "AgentOutputWritten",
                          claim |-> [stream |-> stream, type |-> type, position |-> position]]
                  /\ y = _emit(agent, "AgentSessionCompleted")
  OBVIOUS
<1>2. PICK c : c = Closed(agent, stream, type, position)
  OBVIOUS
<1>3. c = <<x>> \o <<y>>
  <2>1. c = <<x, y>>
    BY <1>1, <1>2 DEF Closed
  <2>2. QED
    BY <2>1, PairIs
<1>4. /\ before \in Seq(Line) /\ lead \in Seq(Line) /\ tail \in Seq(Line)
      /\ c \in Seq(Line)
  BY <1>2, SessionTyped DEF Backed, Piece
<1>5. PICK a : a = before \o lead
  OBVIOUS
<1>6. a \in Seq(Line) /\ Backed(a)
  BY <1>4, <1>5, BackedPiece, ConcatProperties
<1>7. PICK n, k : n = Len(before) /\ k = n + j
  OBVIOUS
<1>8. k \in 1..Len(a) /\ a[k] = lead[j]
  <2>1. PICK l : l = Len(lead)
    OBVIOUS
  <2>2. n \in Nat /\ l \in Nat /\ j \in 1..l
    BY <1>4, <1>7, <2>1
  <2>3. /\ Len(a) = n + l
        /\ \A i \in 1..(n + l) : a[i] = IF i <= n THEN before[i] ELSE lead[i - n]
    BY <1>4, <1>5, <1>7, <2>1, ConcatProperties
  <2>4. k \in 1..(n + l) /\ ~(k <= n) /\ k - n = j
    BY <1>7, <2>2
  <2>5. QED
    BY <2>3, <2>4
<1>9. SubSeq(a, 1, k) = before \o SubSeq(lead, 1, j)
  BY <1>4, <1>5, <1>7, SubSeqCat
<1>10. Backed(a \o <<x>>)
  BY <1>1, <1>6, <1>8, <1>9, BackedClaim
<1>11. Backed((a \o <<x>>) \o <<y>>)
  <2>1. Piece(<<y>>, {agent})
    BY <1>1, EmitPiece DEF TypeName
  <2>2. QED
    BY <1>10, <2>1, BackedPiece
<1>12. Backed(((a \o <<x>>) \o <<y>>) \o tail)
  BY <1>11, BackedPiece
<1>13. ((a \o <<x>>) \o <<y>>) \o tail = before \o (lead \o c \o tail)
  <2>1. <<x>> \in Seq(Line) /\ <<y>> \in Seq(Line)
    <3>1. y \in Line
      BY <1>1, EmitTyped DEF TypeName
    <3>2. x \in Line
      BY <1>1 DEF Line, Claim, TypeName
    <3>3. QED
      BY <3>1, <3>2
  <2>2. (a \o <<x>>) \o <<y>> = a \o c
    BY <1>3, <1>6, <2>1, CatAssociates
  <2>3. a \o c = before \o (lead \o c)
    <3>1. before \in Seq(Line) /\ lead \in Seq(Line) /\ c \in Seq(Line)
      BY <1>4
    <3>2. QED
      BY <1>5, <3>1, CatAssociates
  <2>4. lead \o c \in Seq(Line)
    BY <1>4, ConcatProperties
  <2>5. PICK p : p = lead \o c
    OBVIOUS
  <2>6. p \in Seq(Line) /\ a \o c = before \o p
    BY <2>3, <2>4, <2>5
  <2>7. (before \o p) \o tail = before \o (p \o tail)
    <3>1. before \in Seq(Line) /\ p \in Seq(Line) /\ tail \in Seq(Line)
      BY <1>4, <2>6
    <3>2. QED
      BY <3>1, CatAssociates
  <2>8. QED
    BY <2>2, <2>5, <2>6, <2>7
<1>14. QED
  BY <1>2, <1>12, <1>13

\* A step that is told of by a session: its line that is meant is between head and mid.
Told(head, stream, type, mid, agent, position, tail) ==
  head \o <<_emit(stream, type)>> \o mid \o Closed(agent, stream, type, position) \o tail

\* The position the session gives is the one of that line.
Fits(before, head, stream, agent, position) ==
  CountOf(before, stream) + CountOf(head, stream) + 1 = Actual(agent, position)

\* The lines of a step on each stream.
Adds(step, head, mid, tail, stream) ==
  \A d \in Data : CountOf(step, d) = CountOf(head, d) + CountOf(mid, d) + CountOf(tail, d)
                                     + (IF d = stream THEN 1 ELSE 0)

LEMMA StepNamed ==
  ASSUME NEW before, Backed(before), NEW S, NEW head, Piece(head, S), NEW mid, Piece(mid, S),
         NEW U, NEW tail, Piece(tail, U), NEW agent \in Sessions, NEW stream \in Data,
         stream \in S, NEW type \in TypeName, NEW position \in Nat,
         Fits(before, head, stream, agent, position)
  PROVE  /\ Backed(before \o Told(head, stream, type, mid, agent, position, tail))
         /\ Adds(Told(head, stream, type, mid, agent, position, tail), head, mid, tail, stream)
<1>0. PICK step : step = Told(head, stream, type, mid, agent, position, tail)
  OBVIOUS
<1>1. PICK x, one, c : /\ x = _emit(stream, type) /\ one = <<x>>
                       /\ c = Closed(agent, stream, type, position)
  OBVIOUS
<1>2. x \in Line /\ x.stream = stream /\ x.type = type
  BY <1>1, EmitTyped DEF _emit
<1>3. Piece(one, S) /\ Piece(one, {stream}) /\ CountOf(one, stream) = 1
  BY <1>1, EmitPiece
<1>4. /\ before \in Seq(Line) /\ head \in Seq(Line) /\ mid \in Seq(Line)
      /\ tail \in Seq(Line) /\ one \in Seq(Line)
  BY <1>3 DEF Backed, Piece
<1>5. c \in Seq(Line)
  BY <1>1, SessionTyped
<1>6. PICK to, lead : to = head \o one /\ lead = to \o mid
  OBVIOUS
<1>7. to \in Seq(Line) /\ Piece(to, S)
  <2>1. Piece(to, S)
    BY <1>3, <1>6, PieceCat
  <2>2. QED
    BY <2>1 DEF Piece
<1>8. lead \in Seq(Line) /\ Piece(lead, S)
  <2>1. Piece(lead, S)
    BY <1>6, <1>7, PieceCat
  <2>2. QED
    BY <2>1 DEF Piece
<1>9. step = lead \o c \o tail
  BY <1>0, <1>1, <1>6 DEF Told
<1>10. PICK n, j : n = Len(head) /\ j = n + 1
  OBVIOUS
<1>11. /\ n \in Nat /\ Len(to) = j /\ to[j] = x
  <2>1. n \in Nat /\ Len(one) = 1 /\ one[1] = x
    BY <1>1, <1>4, <1>10
  <2>2. PICK m : m = Len(one)
    OBVIOUS
  <2>3. /\ Len(to) = n + m
        /\ \A i \in 1..(n + m) : to[i] = IF i <= n THEN head[i] ELSE one[i - n]
    BY <1>4, <1>6, <1>10, <2>2, ConcatProperties
  <2>4. j \in 1..(n + m) /\ ~(j <= n) /\ j - n = 1 /\ n + m = j
    BY <1>10, <2>1, <2>2
  <2>5. QED
    BY <2>1, <2>3, <2>4
<1>12. j \in 1..Len(lead) /\ lead[j] = x /\ j \in 1..Len(to)
  <2>1. PICK m : m = Len(mid)
    OBVIOUS
  <2>2. /\ Len(lead) = j + m
        /\ \A i \in 1..(j + m) : lead[i] = IF i <= j THEN to[i] ELSE mid[i - j]
    <3>1. to \in Seq(Line) /\ mid \in Seq(Line) /\ lead = to \o mid /\ Len(to) = j
      BY <1>4, <1>6, <1>7, <1>11
    <3>2. QED
      BY <2>1, <3>1, ConcatProperties
  <2>3. m \in Nat
    BY <1>4, <2>1
  <2>4. j \in 1..(j + m) /\ j <= j /\ j \in 1..j
    BY <1>10, <1>11, <2>3
  <2>5. QED
    BY <1>11, <2>2, <2>4
<1>13. SubSeq(lead, 1, j) = to
  <2>1. 1 \in 1..Len(to)
    BY <1>12
  <2>2. SubSeq(to \o mid, 1, j) = SubSeq(to, 1, j)
    BY <1>4, <1>7, <1>12, <2>1, SubSeqOfConcat1
  <2>3. SubSeq(to, 1, Len(to)) = to
    BY <1>7, SubSeqFull
  <2>4. QED
    BY <1>6, <1>11, <2>2, <2>3
<1>14. CountOf(before \o to, stream) = Actual(agent, position)
  <2>1. CountOf(before \o to, stream) = CountOf(before, stream) + CountOf(to, stream)
    BY <1>4, <1>7, CountCat
  <2>2. CountOf(to, stream) = CountOf(head, stream) + CountOf(one, stream)
    BY <1>4, <1>6, CountCat
  <2>3. PICK p, q : p = CountOf(before, stream) /\ q = CountOf(head, stream)
    OBVIOUS
  <2>4. p \in Nat /\ q \in Nat
    BY <1>4, <2>3, CountTyped
  <2>5. p + (q + 1) = p + q + 1
    BY <2>4
  <2>6. QED
    BY <1>3, <2>1, <2>2, <2>3, <2>5 DEF Fits
<1>15. Backed(before \o (lead \o c \o tail))
  BY <1>1, <1>2, <1>8, <1>12, <1>13, <1>14, StepBacked
<1>16. ASSUME NEW d \in Data
       PROVE  CountOf(step, d) = CountOf(head, d) + CountOf(mid, d)
                                 + CountOf(tail, d) + (IF d = stream THEN 1 ELSE 0)
  <2>1. CountOf(c, d) = 0
    <3>1. PICK y, z : /\ y = [stream |-> agent, type |-> "AgentOutputWritten",
                              claim |-> [stream |-> stream, type |-> type,
                                         position |-> position]]
                      /\ z = _emit(agent, "AgentSessionCompleted")
      OBVIOUS
    <3>2. c = <<y, z>> /\ y.stream = agent /\ z.stream = agent
      BY <1>1, <3>1 DEF Closed, _emit
    <3>3. agent # d
      BY DEF Data, Sessions
    <3>4. {i \in DOMAIN c : c[i].stream = d} = {}
      <4>1. DOMAIN c = 1..2 /\ c[1] = y /\ c[2] = z
        BY <3>2
      <4>2. \A i \in 1..2 : i = 1 \/ i = 2
        OBVIOUS
      <4>3. QED
        BY <3>2, <3>3, <4>1, <4>2
    <3>5. QED
      BY <3>4, FS_EmptySet DEF CountOf
  <2>2. PICK k : k = CountOf(one, d)
    OBVIOUS
  <2>3. k = IF d = stream THEN 1 ELSE 0
    BY <1>3, <2>2, CountNone
  <2>4. CountOf(to, d) = CountOf(head, d) + k
    BY <1>4, <1>6, <2>2, CountCat
  <2>5. CountOf(lead, d) = CountOf(to, d) + CountOf(mid, d)
    <3>1. to \in Seq(Line) /\ mid \in Seq(Line) /\ lead = to \o mid
      BY <1>4, <1>6, <1>7
    <3>2. QED
      BY <3>1, CountCat
  <2>6. PICK ended : ended = lead \o c
    OBVIOUS
  <2>7. ended \in Seq(Line) /\ CountOf(ended, d) = CountOf(lead, d) + CountOf(c, d)
    BY <1>5, <1>8, <2>6, CountCat, ConcatProperties
  <2>8. CountOf(ended \o tail, d) = CountOf(ended, d) + CountOf(tail, d)
    BY <1>4, <2>7, CountCat
  <2>9. PICK p, q, t : /\ p = CountOf(head, d) /\ q = CountOf(mid, d) /\ t = CountOf(tail, d)
    OBVIOUS
  <2>10. p \in Nat /\ q \in Nat /\ t \in Nat
    BY <1>4, <2>9, CountTyped
  <2>11. k \in Nat
    BY <2>3
  <2>12. CountOf(step, d) = p + k + q + 0 + t
    BY <1>9, <2>1, <2>4, <2>5, <2>6, <2>7, <2>8, <2>9
  <2>13. CountOf(step, d) = p + q + t + k
    BY <2>10, <2>11, <2>12
  <2>14. QED
    BY <2>3, <2>9, <2>13
<1>17. QED
  BY <1>0, <1>9, <1>15, <1>16 DEF Adds

LEMMA SubmitPiece == Piece(_step_submit, {"loan", "docpkg"}) /\ CountOf(_step_submit, "loan") = 2
<1>1. PICK S, a, b : /\ S = {"loan", "docpkg"}
                     /\ a = Emitted("loan", <<"ApplicationSubmitted", "DocumentUploadRequested">>)
                     /\ b = <<_emit("docpkg", "PackageCreated")>>
  OBVIOUS
<1>2. Piece(a, S) /\ CountOf(a, "loan") = 2
  <2>1. "loan" \in Data \cup Sessions /\ "loan" \in S
    BY <1>1, StreamsNamed
  <2>2. "ApplicationSubmitted" \in TypeName /\ "DocumentUploadRequested" \in TypeName
    BY DEF TypeName
  <2>3. QED
    BY <1>1, <2>1, <2>2, EmittedPiece
<1>3. Piece(b, S) /\ Piece(b, {"docpkg"})
  BY <1>1, StreamsNamed, EmitPiece DEF TypeName
<1>4. CountOf(b, "loan") = 0
  BY <1>3, CountNone
<1>5. Piece(a \o b, S)
  BY <1>2, <1>3, PieceCat
<1>6. CountOf(a \o b, "loan") = CountOf(a, "loan") + CountOf(b, "loan")
  BY <1>2, <1>3, CountCat DEF Piece
<1>7. _step_submit = a \o b
  BY <1>1 DEF _step_submit
<1>8. CountOf(a \o b, "loan") = 2
  BY <1>2, <1>4, <1>6
<1>9. QED
  BY <1>1, <1>5, <1>7, <1>8, Zenon

LEMMA UploadPiece == Piece(_step_upload, {"loan", "docpkg"}) /\ CountOf(_step_upload, "loan") = 4
<1>1. PICK x, y, c : /\ x = _emit("loan", "DocumentUploaded")
                     /\ y = _emit("docpkg", "DocumentAdded")
                     /\ c = [i \in 1..8 |-> IF i % 2 = 1 THEN x ELSE y]
  OBVIOUS
<1>2. x \in Line /\ x.stream = "loan" /\ x.claim = NoClaim
  BY <1>1, StreamsNamed, EmitTyped DEF _emit, TypeName
<1>3. y \in Line /\ y.stream = "docpkg" /\ y.claim = NoClaim
  BY <1>1, StreamsNamed, EmitTyped DEF _emit, TypeName
<1>4. _step_upload = c
  BY <1>1 DEF _step_upload
<1>5. Piece(c, {"loan", "docpkg"})
  <2>1. c \in Seq(Line) /\ Len(c) = 8
    BY <1>1, <1>2, <1>3
  <2>2. \A i \in 1..8 : c[i] = x \/ c[i] = y
    BY <1>1
  <2>3. QED
    BY <1>2, <1>3, <2>1, <2>2 DEF Piece
<1>6. {i \in DOMAIN c : c[i].stream = "loan"} = {1, 3, 5, 7}
  <2>1. DOMAIN c = 1..8
    BY <1>1
  <2>2. \A i \in 1..8 : c[i].stream = "loan" <=> i % 2 = 1
    BY <1>1, <1>2, <1>3
  <2>3. \A i \in 1..8 : i % 2 = 1 <=> i \in {1, 3, 5, 7}
    BY SMTT(30)
  <2>4. {1, 3, 5, 7} \subseteq 1..8
    OBVIOUS
  <2>5. QED
    BY <2>1, <2>2, <2>3, <2>4
<1>7. Cardinality({1, 3, 5, 7}) = 4
  <2>1. IsFiniteSet({1}) /\ Cardinality({1}) = 1
    BY FS_Singleton
  <2>2. IsFiniteSet({1} \cup {3}) /\ Cardinality({1} \cup {3}) = 2
    <3>1. 3 \notin {1}
      OBVIOUS
    <3>2. QED
      BY <2>1, <3>1, FS_AddElement
  <2>3. {1} \cup {3} = {1, 3} /\ 5 \notin {1, 3}
    OBVIOUS
  <2>4. IsFiniteSet({1, 3} \cup {5}) /\ Cardinality({1, 3} \cup {5}) = 3
    BY <2>2, <2>3, FS_AddElement
  <2>5. {1, 3} \cup {5} = {1, 3, 5} /\ 7 \notin {1, 3, 5}
    OBVIOUS
  <2>6. Cardinality({1, 3, 5} \cup {7}) = 4
    BY <2>4, <2>5, FS_AddElement
  <2>7. {1, 3, 5} \cup {7} = {1, 3, 5, 7}
    OBVIOUS
  <2>8. QED
    BY <2>6, <2>7
<1>8. CountOf(c, "loan") = 4
  BY <1>6, <1>7 DEF CountOf
<1>9. QED
  BY <1>4, <1>5, <1>8, Zenon

LEMMA EmptyPiece ==
  ASSUME NEW S
  PROVE  Piece(<<>>, S) /\ \A d : CountOf(<<>>, d) = 0
<1>1. Piece(<<>>, S)
  BY DEF Piece
<1>2. QED
  BY <1>1, FS_EmptySet DEF CountOf

LEMMA SessionsApart == Sessions \cap Data = {}
BY DEF Sessions, Data

LEMMA DocProcessingBacked ==
  ASSUME NEW before, Backed(before)
  PROVE  /\ Backed(before \o _step_doc_processing(before))
         /\ \A d \in Data \ {"docpkg"} :
              CountOf(_step_doc_processing(before), d) = IF d = "loan" THEN 1 ELSE 0
<1>1. PICK agent, S : agent = "document-agent" /\ S = {"document-agent", "docpkg"}
  OBVIOUS
<1>2. agent \in Sessions /\ agent \in S /\ "docpkg" \in S /\ "docpkg" \in Data
  BY <1>1 DEF Sessions, Data
<1>3. PICK a, b, p, q, r, y, x :
        /\ a = Opened(agent) /\ b = _nodes(agent, 1)
        /\ p = Emitted("docpkg", <<"DocumentFormatValidated", "ExtractionStarted">>)
        /\ q = <<_emit(agent, "AgentToolCalled"), _emit("docpkg", "ExtractionCompleted")>>
        /\ r = _nodes(agent, 2)
        /\ y = <<_emit("docpkg", "QualityAssessmentCompleted")>>
        /\ x = <<_emit("docpkg", "PackageReadyForAnalysis")>>
  OBVIOUS
<1>4. Piece(a, S) /\ Piece(b, S) /\ Piece(r, S)
  BY <1>2, <1>3, SessionPiece
<1>5. Piece(p, S)
  <2>1. "DocumentFormatValidated" \in TypeName /\ "ExtractionStarted" \in TypeName
    BY DEF TypeName
  <2>2. "docpkg" \in Data \cup Sessions
    BY <1>2
  <2>3. QED
    BY <1>2, <1>3, <2>1, <2>2, EmittedPiece
<1>6. Piece(q, S)
  <2>1. "AgentToolCalled" \in TypeName /\ "ExtractionCompleted" \in TypeName
    BY DEF TypeName
  <2>2. "docpkg" \in Data \cup Sessions /\ agent \in Data \cup Sessions
    BY <1>2
  <2>3. QED
    BY <1>2, <1>3, <2>1, <2>2, PairPiece
<1>7. Piece(y, S) /\ Piece(x, S)
  BY <1>2, <1>3, EmitPiece DEF TypeName
<1>8. PICK head, work : head = a \o b \o (p \o q) \o (p \o q) \o r \o y /\ work = head \o x
  OBVIOUS
<1>9. Piece(head, S)
  BY <1>4, <1>5, <1>6, <1>7, <1>8, PieceCat
<1>10. work = a \o b \o (p \o q) \o (p \o q) \o r
              \o Emitted("docpkg", <<"QualityAssessmentCompleted", "PackageReadyForAnalysis">>)
  <2>1. Emitted("docpkg", <<"QualityAssessmentCompleted", "PackageReadyForAnalysis">>) = y \o x
    <3>1. PICK s, t, u : /\ s = "docpkg" /\ t = "QualityAssessmentCompleted"
                         /\ u = "PackageReadyForAnalysis"
      OBVIOUS
    <3>2. Emitted(s, <<t, u>>) = <<_emit(s, t)>> \o <<_emit(s, u)>>
      BY EmittedIs
    <3>3. QED
      BY <1>3, <3>1, <3>2, Zenon
  <2>2. PICK w : w = a \o b \o (p \o q) \o (p \o q) \o r
    OBVIOUS
  <2>3. Piece(w, S)
    BY <1>4, <1>5, <1>6, <2>2, PieceCat
  <2>4. w \in Seq(Line) /\ y \in Seq(Line) /\ x \in Seq(Line)
    BY <1>7, <2>3 DEF Piece
  <2>5. (w \o y) \o x = w \o (y \o x)
    BY <2>4, CatAssociates
  <2>6. QED
    BY <1>8, <2>1, <2>2, <2>5, Zenon
<1>11. PICK position, tail : /\ position = CountOf(before \o work, "docpkg")
                             /\ tail = <<_emit("loan", "CreditAnalysisRequested")>>
  OBVIOUS
<1>12. PICK step : step = Told(head, "docpkg", "PackageReadyForAnalysis", <<>>, agent,
                               position, tail)
  OBVIOUS
<1>13. before \in Seq(Line) /\ head \in Seq(Line) /\ x \in Seq(Line) /\ work \in Seq(Line)
  <2>1. Piece(work, S)
    BY <1>7, <1>8, <1>9, PieceCat
  <2>2. QED
    BY <1>7, <1>9, <2>1 DEF Backed, Piece
<1>14. _step_doc_processing(before) = step
  <2>1. work \o <<>> = work
    BY <1>13, ConcatEmptySeq
  <2>2. _step_doc_processing(before)
          = work \o Closed(agent, "docpkg", "PackageReadyForAnalysis", position) \o tail
    BY <1>1, <1>3, <1>10, <1>11, Zenon DEF _step_doc_processing
  <2>3. step = work \o <<>> \o Closed(agent, "docpkg", "PackageReadyForAnalysis", position)
               \o tail
    BY <1>3, <1>8, <1>12 DEF Told
  <2>4. QED
    BY <2>1, <2>2, <2>3
<1>15. /\ position \in Nat
       /\ Fits(before, head, "docpkg", agent, position)
  <2>1. position = CountOf(before, "docpkg") + CountOf(work, "docpkg")
    BY <1>11, <1>13, CountCat
  <2>2. CountOf(work, "docpkg") = CountOf(head, "docpkg") + CountOf(x, "docpkg")
    <3>1. head \in Seq(Line) /\ x \in Seq(Line)
      BY <1>13
    <3>2. QED
      BY <1>8, <3>1, CountCat
  <2>3. CountOf(x, "docpkg") = 1
    BY <1>2, <1>3, EmitPiece DEF TypeName
  <2>4. PICK k, l : k = CountOf(before, "docpkg") /\ l = CountOf(head, "docpkg")
    OBVIOUS
  <2>5. k \in Nat /\ l \in Nat
    BY <1>13, <2>4, CountTyped
  <2>6. position = k + (l + 1)
    BY <2>1, <2>2, <2>3, <2>4
  <2>7. position \in Nat /\ k + l + 1 = position
    BY <2>5, <2>6
  <2>8. QED
    BY <1>1, <2>4, <2>7 DEF Actual, Fits
<1>16. Piece(tail, {"loan"}) /\ CountOf(tail, "loan") = 1
  BY <1>11, StreamsNamed, EmitPiece DEF TypeName
<1>17. Piece(<<>>, S) /\ \A d : CountOf(<<>>, d) = 0
  BY EmptyPiece
<1>18. /\ Backed(before \o step)
       /\ Adds(step, head, <<>>, tail, "docpkg")
  <2>1. "PackageReadyForAnalysis" \in TypeName
    BY DEF TypeName
  <2>2. QED
    BY <1>2, <1>9, <1>12, <1>15, <1>16, <1>17, <2>1, StepNamed
<1>19. ASSUME NEW d \in Data \ {"docpkg"}
       PROVE  CountOf(step, d) = IF d = "loan" THEN 1 ELSE 0
  <2>1. d \notin S
    BY <1>1, <1>19 DEF Data
  <2>2. CountOf(head, d) = 0
    BY <1>9, <2>1, CountNone
  <2>3. d # "loan" => CountOf(tail, d) = 0
    BY <1>16, CountNone
  <2>4. CountOf(step, d) = 0 + 0 + CountOf(tail, d) + 0
    BY <1>17, <1>18, <1>19, <2>2 DEF Adds
  <2>5. QED
    BY <1>16, <2>3, <2>4
<1>20. QED
  BY <1>14, <1>18, <1>19, Zenon

LEMMA CreditBacked ==
  ASSUME NEW before, Backed(before), CountOf(before, "credit") = 0
  PROVE  /\ Backed(before \o _step_credit)
         /\ \A d \in Data \ {"credit"} : CountOf(_step_credit, d) = IF d = "loan" THEN 1 ELSE 0
<1>1. PICK agent, S : agent = "credit-agent" /\ S = {"credit-agent", "credit"}
  OBVIOUS
<1>2. agent \in Sessions /\ agent \in S /\ "credit" \in S /\ "credit" \in Data
      /\ "credit" \in Data \cup Sessions /\ agent \in Data \cup Sessions
      /\ S \subseteq Data \cup Sessions
  BY <1>1 DEF Sessions, Data
<1>3. PICK a, b, p, q, r, t, u :
        /\ a = Opened(agent) /\ b = <<_emit("credit", "CreditRecordOpened")>>
        /\ p = _nodes(agent, 2)
        /\ q = <<_emit(agent, "AgentToolCalled"), _emit("credit", "HistoricalProfileConsumed")>>
        /\ r = _nodes(agent, 1) /\ t = <<_emit("credit", "ExtractedFactsConsumed")>>
        /\ u = _nodes(agent, 4)
  OBVIOUS
<1>4. /\ Piece(a, S) /\ Piece(p, S) /\ Piece(r, S) /\ Piece(u, S)
      /\ CountOf(a, "credit") = 0 /\ CountOf(p, "credit") = 0
      /\ CountOf(r, "credit") = 0 /\ CountOf(u, "credit") = 0
  <2>1. Piece(a, S) /\ Piece(p, S) /\ Piece(r, S) /\ Piece(u, S)
    BY <1>2, <1>3, SessionPiece
  <2>2. PICK T : T = {agent}
    OBVIOUS
  <2>3. agent \in T /\ "credit" \notin T
    BY <1>1, <2>2
  <2>4. Piece(a, T) /\ Piece(p, T) /\ Piece(r, T) /\ Piece(u, T)
    BY <1>2, <1>3, <2>3, SessionPiece
  <2>5. QED
    BY <2>1, <2>3, <2>4, CountNone
<1>5. Piece(b, S) /\ CountOf(b, "credit") = 1 /\ Piece(t, S) /\ CountOf(t, "credit") = 1
  BY <1>2, <1>3, EmitPiece DEF TypeName
<1>6. Piece(q, S) /\ CountOf(q, "credit") = 1
  <2>1. "AgentToolCalled" \in TypeName /\ "HistoricalProfileConsumed" \in TypeName
    BY DEF TypeName
  <2>2. agent # "credit"
    BY <1>1
  <2>3. QED
    BY <1>2, <1>3, <2>1, <2>2, PairPiece
<1>7. PICK head : head = a \o b \o p \o q \o r \o t \o u
  OBVIOUS
<1>8. Piece(head, S)
  BY <1>4, <1>5, <1>6, <1>7, PieceCat
<1>9. CountOf(head, "credit") = 3
  <2>1. /\ a \in Seq(Line) /\ b \in Seq(Line) /\ p \in Seq(Line) /\ q \in Seq(Line)
        /\ r \in Seq(Line) /\ t \in Seq(Line) /\ u \in Seq(Line)
    BY <1>4, <1>5, <1>6 DEF Piece
  <2>2. PICK c, d, e, f, g : /\ c = a \o b /\ d = c \o p /\ e = d \o q
                             /\ f = e \o r /\ g = f \o t
    OBVIOUS
  <2>3. c \in Seq(Line) /\ CountOf(c, "credit") = CountOf(a, "credit") + CountOf(b, "credit")
    BY <2>1, <2>2, CatTyped, CountCat
  <2>4. d \in Seq(Line) /\ CountOf(d, "credit") = CountOf(c, "credit") + CountOf(p, "credit")
    <3>1. c \in Seq(Line) /\ p \in Seq(Line) /\ d = c \o p
      BY <2>1, <2>2, <2>3
    <3>2. QED
      BY <3>1, CatTyped, CountCat
  <2>5. e \in Seq(Line) /\ CountOf(e, "credit") = CountOf(d, "credit") + CountOf(q, "credit")
    <3>1. d \in Seq(Line) /\ q \in Seq(Line) /\ e = d \o q
      BY <2>1, <2>2, <2>4
    <3>2. QED
      BY <3>1, CatTyped, CountCat
  <2>6. f \in Seq(Line) /\ CountOf(f, "credit") = CountOf(e, "credit") + CountOf(r, "credit")
    <3>1. e \in Seq(Line) /\ r \in Seq(Line) /\ f = e \o r
      BY <2>1, <2>2, <2>5
    <3>2. QED
      BY <3>1, CatTyped, CountCat
  <2>7. g \in Seq(Line) /\ CountOf(g, "credit") = CountOf(f, "credit") + CountOf(t, "credit")
    <3>1. f \in Seq(Line) /\ t \in Seq(Line) /\ g = f \o t
      BY <2>1, <2>2, <2>6
    <3>2. QED
      BY <3>1, CatTyped, CountCat
  <2>8. CountOf(g \o u, "credit") = CountOf(g, "credit") + CountOf(u, "credit")
    BY <2>1, <2>7, CountCat
  <2>9. head = g \o u
    BY <1>7, <2>2
  <2>10. CountOf(a, "credit") = 0 /\ CountOf(p, "credit") = 0 /\ CountOf(r, "credit") = 0
         /\ CountOf(u, "credit") = 0 /\ CountOf(b, "credit") = 1 /\ CountOf(t, "credit") = 1
         /\ CountOf(q, "credit") = 1
    BY <1>4, <1>5, <1>6
  <2>11. QED
    BY <2>3, <2>4, <2>5, <2>6, <2>7, <2>8, <2>9, <2>10
<1>10. PICK tail : tail = <<_emit("loan", "FraudScreeningRequested")>>
  OBVIOUS
<1>11. Piece(tail, {"loan"}) /\ CountOf(tail, "loan") = 1
  BY <1>10, StreamsNamed, EmitPiece DEF TypeName
<1>12. PICK step : step = Told(head, "credit", "CreditAnalysisCompleted", <<>>, agent, 4, tail)
  OBVIOUS
<1>13. _step_credit = step
  <2>1. PICK x, lead : x = <<_emit("credit", "CreditAnalysisCompleted")>> /\ lead = head \o x
    OBVIOUS
  <2>2. Piece(x, S)
    BY <1>2, <2>1, EmitPiece DEF TypeName
  <2>3. Piece(lead, S)
    BY <1>8, <2>1, <2>2, PieceCat
  <2>4. lead \o <<>> = lead
    BY <2>3, ConcatEmptySeq DEF Piece
  <2>5. step = lead \o <<>> \o Closed(agent, "credit", "CreditAnalysisCompleted", 4) \o tail
    BY <1>12, <2>1 DEF Told
  <2>6. _step_credit = lead \o Closed(agent, "credit", "CreditAnalysisCompleted", 4) \o tail
    BY <1>1, <1>3, <1>7, <1>10, <2>1, Zenon DEF _step_credit
  <2>7. QED
    BY <2>4, <2>5, <2>6
<1>14. Fits(before, head, "credit", agent, 4)
  BY <1>1, <1>9 DEF Fits, Actual
<1>15. Piece(<<>>, S) /\ \A d : CountOf(<<>>, d) = 0
  BY EmptyPiece
<1>16. Backed(before \o step) /\ Adds(step, head, <<>>, tail, "credit")
  <2>1. "CreditAnalysisCompleted" \in TypeName /\ 4 \in Nat
    BY DEF TypeName
  <2>2. QED
    BY <1>2, <1>8, <1>11, <1>12, <1>14, <1>15, <2>1, StepNamed
<1>17. ASSUME NEW d \in Data \ {"credit"}
       PROVE  CountOf(step, d) = IF d = "loan" THEN 1 ELSE 0
  <2>1. d \notin S
    BY <1>1, <1>17 DEF Data
  <2>2. CountOf(head, d) = 0
    BY <1>8, <2>1, CountNone
  <2>3. d # "loan" => CountOf(tail, d) = 0
    BY <1>11, CountNone
  <2>4. CountOf(step, d) = 0 + 0 + CountOf(tail, d) + 0
    BY <1>15, <1>16, <1>17, <2>2 DEF Adds
  <2>5. QED
    BY <1>11, <2>3, <2>4
<1>18. QED
  BY <1>13, <1>16, <1>17, Zenon

LEMMA FraudBacked ==
  ASSUME NEW before, Backed(before), CountOf(before, "fraud") = 0
  PROVE  /\ Backed(before \o _step_fraud)
         /\ \A d \in Data \ {"fraud"} : CountOf(_step_fraud, d) = IF d = "loan" THEN 1 ELSE 0
<1>1. PICK agent, S : agent = "fraud-agent" /\ S = {"fraud-agent", "fraud"}
  OBVIOUS
<1>2. agent \in Sessions /\ agent \in S /\ "fraud" \in S /\ "fraud" \in Data
      /\ "fraud" \in Data \cup Sessions
  BY <1>1 DEF Sessions, Data
<1>3. PICK a, b, p : /\ a = Opened(agent) /\ b = <<_emit("fraud", "FraudScreeningInitiated")>>
                     /\ p = _nodes(agent, 5)
  OBVIOUS
<1>4. /\ Piece(a, S) /\ Piece(p, S) /\ CountOf(a, "fraud") = 0 /\ CountOf(p, "fraud") = 0
  <2>1. Piece(a, S) /\ Piece(p, S)
    BY <1>2, <1>3, SessionPiece
  <2>2. PICK T : T = {agent}
    OBVIOUS
  <2>3. agent \in T /\ "fraud" \notin T
    BY <1>1, <2>2
  <2>4. Piece(a, T) /\ Piece(p, T)
    BY <1>2, <1>3, <2>3, SessionPiece
  <2>5. QED
    BY <2>1, <2>3, <2>4, CountNone
<1>5. Piece(b, S) /\ CountOf(b, "fraud") = 1
  BY <1>2, <1>3, EmitPiece DEF TypeName
<1>6. PICK head : head = a \o b \o p
  OBVIOUS
<1>7. Piece(head, S)
  BY <1>4, <1>5, <1>6, PieceCat
<1>8. CountOf(head, "fraud") = 1
  <2>1. a \in Seq(Line) /\ b \in Seq(Line) /\ p \in Seq(Line)
    BY <1>4, <1>5 DEF Piece
  <2>2. PICK c : c = a \o b
    OBVIOUS
  <2>3. c \in Seq(Line) /\ CountOf(c, "fraud") = 1
    BY <1>4, <1>5, <2>1, <2>2, CatTyped, CountCat
  <2>4. CountOf(c \o p, "fraud") = 1
    BY <1>4, <2>1, <2>3, CountCat
  <2>5. QED
    BY <1>6, <2>2, <2>4
<1>9. PICK tail : tail = <<_emit("loan", "ComplianceCheckRequested")>>
  OBVIOUS
<1>10. Piece(tail, {"loan"}) /\ CountOf(tail, "loan") = 1
  BY <1>9, StreamsNamed, EmitPiece DEF TypeName
<1>11. PICK step : step = Told(head, "fraud", "FraudScreeningCompleted", <<>>, agent, 2, tail)
  OBVIOUS
<1>12. _step_fraud = step
  <2>1. PICK x, lead : x = <<_emit("fraud", "FraudScreeningCompleted")>> /\ lead = head \o x
    OBVIOUS
  <2>2. Piece(x, S)
    BY <1>2, <2>1, EmitPiece DEF TypeName
  <2>3. Piece(lead, S)
    BY <1>7, <2>1, <2>2, PieceCat
  <2>4. lead \o <<>> = lead
    BY <2>3, ConcatEmptySeq DEF Piece
  <2>5. step = lead \o <<>> \o Closed(agent, "fraud", "FraudScreeningCompleted", 2) \o tail
    BY <1>11, <2>1 DEF Told
  <2>6. _step_fraud = lead \o Closed(agent, "fraud", "FraudScreeningCompleted", 2) \o tail
    BY <1>1, <1>3, <1>6, <1>9, <2>1, Zenon DEF _step_fraud
  <2>7. QED
    BY <2>4, <2>5, <2>6
<1>13. Fits(before, head, "fraud", agent, 2)
  BY <1>1, <1>8 DEF Fits, Actual
<1>14. Piece(<<>>, S) /\ \A d : CountOf(<<>>, d) = 0
  BY EmptyPiece
<1>15. Backed(before \o step) /\ Adds(step, head, <<>>, tail, "fraud")
  <2>1. "FraudScreeningCompleted" \in TypeName /\ 2 \in Nat
    BY DEF TypeName
  <2>2. QED
    BY <1>2, <1>7, <1>10, <1>11, <1>13, <1>14, <2>1, StepNamed
<1>16. ASSUME NEW d \in Data \ {"fraud"}
       PROVE  CountOf(step, d) = IF d = "loan" THEN 1 ELSE 0
  <2>1. d \notin S
    BY <1>1, <1>16 DEF Data
  <2>2. CountOf(head, d) = 0
    BY <1>7, <2>1, CountNone
  <2>3. d # "loan" => CountOf(tail, d) = 0
    BY <1>10, CountNone
  <2>4. CountOf(step, d) = 0 + 0 + CountOf(tail, d) + 0
    BY <1>14, <1>15, <1>16, <2>2 DEF Adds
  <2>5. QED
    BY <1>10, <2>3, <2>4
<1>17. QED
  BY <1>12, <1>15, <1>16, Zenon

\* The rule that ends the evaluation.
LEMMA LastRule ==
  ASSUME NEW failing, failing \subseteq DOMAIN RULES, NEW hard, hard = {i \in failing : RULES[i]}
  PROVE  (IF hard = {} THEN Len(RULES) ELSE CHOOSE i \in hard : \A j \in hard : i <= j) \in Nat
<1>1. DOMAIN RULES = 1..6 /\ Len(RULES) = 6
  BY DEF RULES
<1>2. hard \subseteq 1..6
  BY <1>1
<1>3. CASE hard = {}
  BY <1>1, <1>3
<1>4. CASE hard # {}
  <2>1. \E i \in hard : \A j \in hard : i <= j
    <3>1. \A i \in hard : i = 1 \/ i = 2 \/ i = 3 \/ i = 4 \/ i = 5 \/ i = 6
      BY <1>2
    <3>2. QED
      BY <1>4, <3>1
  <2>2. PICK m : m = CHOOSE i \in hard : \A j \in hard : i <= j
    OBVIOUS
  <2>3. m \in hard
    BY <2>1, <2>2
  <2>4. m \in Nat
    BY <1>2, <2>3
  <2>5. QED
    BY <1>4, <2>2, <2>4
<1>5. QED
  BY <1>3, <1>4

\* Every second line is on the stream.
LEMMA CountHalf ==
  ASSUME NEW n \in Nat, NEW c, DOMAIN c = 1..(2 * n), NEW s,
         \A i \in 1..(2 * n) : c[i].stream = s <=> i % 2 # 1
  PROVE  CountOf(c, s) = n
<1>1. PICK C : C = {i \in 1..(2 * n) : i % 2 # 1}
  OBVIOUS
<1>2. {i \in DOMAIN c : c[i].stream = s} = C
  BY <1>1
<1>3. PICK F : F = [k \in 1..n |-> 2 * k]
  OBVIOUS
<1>4. F \in [1..n -> C]
  <2>1. \A k \in 1..n : 2 * k \in 1..(2 * n) /\ (2 * k) % 2 # 1
    BY SMTT(30)
  <2>2. QED
    BY <1>1, <1>3, <2>1
<1>5. \A k, l \in 1..n : F[k] = F[l] => k = l
  BY <1>3
<1>6. \A i \in C : \E k \in 1..n : F[k] = i
  <2>1. TAKE i \in C
  <2>2. i \in 1..(2 * n) /\ i % 2 # 1
    BY <1>1
  <2>3. i \div 2 \in 1..n /\ 2 * (i \div 2) = i
    BY <2>2, SMTT(30)
  <2>4. QED
    BY <1>3, <2>3
<1>7. IsFiniteSet(1..n) /\ Cardinality(1..n) = n
  <2>1. PICK m : m = Cardinality(1..n)
    OBVIOUS
  <2>2. IsFiniteSet(1..n) /\ m = IF 1 > n THEN 0 ELSE n - 1 + 1
    BY <2>1, FS_Interval
  <2>3. m = n
    BY <2>2
  <2>4. QED
    BY <2>1, <2>2, <2>3
<1>8. Cardinality(C) = n
  BY <1>4, <1>5, <1>6, <1>7, CountedOff
<1>9. QED
  BY <1>2, <1>8 DEF CountOf

LEMMA ComplianceBacked ==
  ASSUME NEW failing, failing \subseteq DOMAIN RULES,
         NEW before, Backed(before), CountOf(before, "compliance") = 0
  PROVE  /\ Backed(before \o _step_compliance(failing))
         /\ \A d \in Data \ {"compliance"} :
              CountOf(_step_compliance(failing), d) = IF d = "loan" THEN 1 ELSE 0
<1>1. PICK agent, S : agent = "compliance-agent" /\ S = {"compliance-agent", "compliance"}
  OBVIOUS
<1>2. agent \in Sessions /\ agent \in S /\ "compliance" \in S /\ "compliance" \in Data
      /\ "compliance" \in Data \cup Sessions /\ agent \in Data \cup Sessions
  BY <1>1 DEF Sessions, Data
<1> DEFINE hard == {i \in failing : RULES[i]}
           last == IF hard = {} THEN Len(RULES)
                   ELSE CHOOSE i \in hard : \A j \in hard : i <= j
           Result(i) == IF i \in failing THEN "ComplianceRuleFailed"
                        ELSE IF i = Len(RULES) THEN "ComplianceRuleNoted"
                        ELSE "ComplianceRulePassed"
           y(i) == _emit("compliance", Result(i \div 2))
           checks == [i \in 1..(2 * last) |->
                        IF i % 2 = 1 THEN _emit("compliance-agent", "AgentNodeExecuted")
                        ELSE y(i)]
           trigger == IF hard = {} THEN "DecisionRequested" ELSE "ApplicationDeclined"
<1>3. _step_compliance(failing)
        = Opened("compliance-agent") \o <<_emit("compliance", "ComplianceCheckInitiated")>>
          \o checks \o <<_emit("compliance", "ComplianceCheckCompleted")>>
          \o Closed("compliance-agent", "compliance", "ComplianceCheckCompleted", last + 1)
          \o <<_emit("loan", trigger)>>
  BY DEF _step_compliance
<1>4. last \in Nat
  <2> HIDE DEF Result, y, checks, trigger
  <2>1. PICK h : h = hard
    OBVIOUS
  <2>2. QED
    BY <2>1, LastRule
<1>t. trigger \in TypeName
  BY DEF TypeName
<1> HIDE DEF hard, last, trigger
<1>5. PICK a, b, x, c :
        /\ a = Opened(agent) /\ b = <<_emit("compliance", "ComplianceCheckInitiated")>>
        /\ x = _emit(agent, "AgentNodeExecuted") /\ c = checks
  OBVIOUS
<1>c. c = [i \in 1..(2 * last) |-> IF i % 2 = 1 THEN x ELSE y(i)]
  BY <1>1, <1>5, Zenon
<1>6. Piece(a, S) /\ CountOf(a, "compliance") = 0
  <2>1. Piece(a, S)
    BY <1>2, <1>5, SessionPiece
  <2>2. PICK T : T = {agent}
    OBVIOUS
  <2>3. agent \in T /\ "compliance" \notin T
    BY <1>1, <2>2
  <2>4. Piece(a, T)
    BY <1>2, <1>5, <2>3, SessionPiece
  <2>5. QED
    BY <2>1, <2>3, <2>4, CountNone
<1>7. Piece(b, S) /\ CountOf(b, "compliance") = 1
  BY <1>2, <1>5, EmitPiece DEF TypeName
<1>8. x \in Line /\ x.stream = agent /\ x.claim = NoClaim
  BY <1>2, <1>5, EmitTyped DEF _emit, TypeName
<1>9. \A i : y(i) \in Line /\ y(i).stream = "compliance" /\ y(i).claim = NoClaim
  <2>1. \A i : Result(i) \in TypeName
    BY DEF TypeName
  <2> HIDE DEF Result
  <2>2. \A i : y(i) \in Line
    BY <1>2, <2>1, EmitTyped
  <2>3. QED
    BY <2>2 DEF _emit
<1> HIDE DEF y, checks
<1>10. Piece(c, S)
  <2>1. PICK n : n = 2 * last
    OBVIOUS
  <2>2. n \in Nat
    BY <1>4, <2>1
  <2>3. \A i \in 1..n : c[i] \in Line /\ c[i].stream \in S /\ c[i].claim = NoClaim
    BY <1>2, <1>8, <1>9, <1>c, <2>1
  <2>4. c = [i \in 1..n |-> c[i]]
    BY <1>c, <2>1
  <2>5. c \in Seq(Line) /\ Len(c) = n
    BY <2>2, <2>3, <2>4
  <2>6. QED
    BY <2>3, <2>5 DEF Piece
<1>11. CountOf(c, "compliance") = last
  <2>1. x.stream # "compliance"
    BY <1>1, <1>8
  <2>2. \A i : y(i).stream = "compliance"
    BY <1>9
  <2>3. DOMAIN c = 1..(2 * last)
        /\ \A i \in 1..(2 * last) : c[i].stream = "compliance" <=> i % 2 # 1
    BY <1>c, <2>1, <2>2
  <2>4. QED
    BY <1>4, <2>3, CountHalf
<1>12. PICK head : head = a \o b \o c
  OBVIOUS
<1>13. Piece(head, S)
  BY <1>6, <1>7, <1>10, <1>12, PieceCat
<1>14. CountOf(head, "compliance") = 1 + last
  <2>1. a \in Seq(Line) /\ b \in Seq(Line)
    BY <1>6, <1>7 DEF Piece
  <2>2. PICK p : p = a \o b
    OBVIOUS
  <2>3. p \in Seq(Line) /\ CountOf(p, "compliance") = 1
    BY <1>6, <1>7, <2>1, <2>2, CatTyped, CountCat
  <2>4. c \in Seq(Line)
    BY <1>10 DEF Piece
  <2>5. CountOf(p \o c, "compliance") = CountOf(p, "compliance") + CountOf(c, "compliance")
    BY <2>3, <2>4, CountCat
  <2>6. head = p \o c
    BY <1>12, <2>2
  <2>7. QED
    BY <1>11, <2>3, <2>5, <2>6
<1>15. PICK tail : tail = <<_emit("loan", trigger)>>
  OBVIOUS
<1>16. Piece(tail, {"loan"}) /\ CountOf(tail, "loan") = 1
  BY <1>15, <1>t, StreamsNamed, EmitPiece
<1>17. PICK position : position = last + 1
  OBVIOUS
<1>18. PICK step : step = Told(head, "compliance", "ComplianceCheckCompleted", <<>>, agent,
                               position, tail)
  OBVIOUS
<1>19. _step_compliance(failing) = step
  <2>1. PICK z, lead : z = <<_emit("compliance", "ComplianceCheckCompleted")>> /\ lead = head \o z
    OBVIOUS
  <2>2. Piece(z, S)
    BY <1>2, <2>1, EmitPiece DEF TypeName
  <2>3. Piece(lead, S)
    BY <1>13, <2>1, <2>2, PieceCat
  <2>4. lead \o <<>> = lead
    BY <2>3, ConcatEmptySeq DEF Piece
  <2>5. step = lead \o <<>> \o Closed(agent, "compliance", "ComplianceCheckCompleted", position)
               \o tail
    BY <1>18, <2>1 DEF Told
  <2>6. _step_compliance(failing)
          = lead \o Closed(agent, "compliance", "ComplianceCheckCompleted", position) \o tail
    BY <1>1, <1>3, <1>5, <1>12, <1>15, <1>17, <2>1, Zenon
  <2>7. QED
    BY <2>4, <2>5, <2>6
<1>20. Fits(before, head, "compliance", agent, position)
  BY <1>1, <1>4, <1>14, <1>17 DEF Fits, Actual
<1>21. Piece(<<>>, S) /\ \A d : CountOf(<<>>, d) = 0
  BY EmptyPiece
<1>22. Backed(before \o step) /\ Adds(step, head, <<>>, tail, "compliance")
  <2>1. "ComplianceCheckCompleted" \in TypeName /\ position \in Nat
    BY <1>4, <1>17 DEF TypeName
  <2>2. QED
    BY <1>2, <1>13, <1>16, <1>18, <1>20, <1>21, <2>1, StepNamed
<1>23. ASSUME NEW d \in Data \ {"compliance"}
       PROVE  CountOf(step, d) = IF d = "loan" THEN 1 ELSE 0
  <2>1. d \notin S
    BY <1>1, <1>23 DEF Data
  <2>2. CountOf(head, d) = 0
    BY <1>13, <2>1, CountNone
  <2>3. d # "loan" => CountOf(tail, d) = 0
    BY <1>16, CountNone
  <2>4. CountOf(step, d) = 0 + 0 + CountOf(tail, d) + 0
    BY <1>21, <1>22, <1>23, <2>2 DEF Adds
  <2>5. QED
    BY <1>16, <2>3, <2>4
<1>24. QED
  BY <1>19, <1>22, <1>23, Zenon

LEMMA DecisionBacked ==
  ASSUME NEW target, NEW before, Backed(before), CountOf(before, "loan") = 10
  PROVE  Backed(before \o _step_decision(target))
<1>1. PICK agent, S : agent = "decision-agent" /\ S = {"decision-agent", "loan"}
  OBVIOUS
<1>2. agent \in Sessions /\ agent \in S /\ "loan" \in S /\ "loan" \in Data
      /\ "loan" \in Data \cup Sessions
  BY <1>1 DEF Sessions, Data
<1>3. PICK a, b, mid :
        /\ a = Opened(agent) /\ b = _nodes(agent, 5)
        /\ mid = CASE target = "APPROVED" -> <<_emit("loan", "ApplicationApproved")>>
                   [] target = "DECLINED" -> <<_emit("loan", "ApplicationDeclined")>>
                   [] OTHER -> <<>>
  OBVIOUS
<1>4. /\ Piece(a, S) /\ Piece(b, S) /\ CountOf(a, "loan") = 0 /\ CountOf(b, "loan") = 0
  <2>1. Piece(a, S) /\ Piece(b, S)
    BY <1>2, <1>3, SessionPiece
  <2>2. PICK T : T = {agent}
    OBVIOUS
  <2>3. agent \in T /\ "loan" \notin T
    BY <1>1, <2>2
  <2>4. Piece(a, T) /\ Piece(b, T)
    BY <1>2, <1>3, <2>3, SessionPiece
  <2>5. QED
    BY <2>1, <2>3, <2>4, CountNone
<1>5. Piece(mid, S)
  <2>1. PICK p, q : /\ p = <<_emit("loan", "ApplicationApproved")>>
                    /\ q = <<_emit("loan", "ApplicationDeclined")>>
    OBVIOUS
  <2>2. Piece(p, S) /\ Piece(q, S)
    BY <1>2, <2>1, EmitPiece DEF TypeName
  <2>3. Piece(<<>>, S)
    BY EmptyPiece
  <2>4. mid = p \/ mid = q \/ mid = <<>>
    BY <1>3, <2>1
  <2>5. QED
    BY <2>2, <2>3, <2>4
<1>6. PICK head : head = a \o b
  OBVIOUS
<1>7. Piece(head, S)
  BY <1>4, <1>6, PieceCat
<1>8. CountOf(head, "loan") = 0
  <2>1. a \in Seq(Line) /\ b \in Seq(Line)
    BY <1>4 DEF Piece
  <2>2. QED
    BY <1>4, <1>6, <2>1, CountCat
<1>9. PICK step : step = Told(head, "loan", "DecisionGenerated", mid, agent, 10, <<>>)
  OBVIOUS
<1>10. _step_decision(target) = step
  <2>1. PICK z, told : /\ z = <<_emit("loan", "DecisionGenerated")>>
                       /\ told = head \o z \o mid \o Closed(agent, "loan", "DecisionGenerated", 10)
    OBVIOUS
  <2>2. _step_decision(target) = told
    BY <1>1, <1>3, <1>6, <2>1, Zenon DEF _step_decision
  <2>3. step = told \o <<>>
    BY <1>9, <2>1 DEF Told
  <2>4. told \in Seq(Line)
    BY <2>2, DecisionTyped
  <2>5. told \o <<>> = told
    BY <2>4, ConcatEmptySeq
  <2>6. QED
    BY <2>2, <2>3, <2>5
<1>11. Fits(before, head, "loan", agent, 10)
  BY <1>1, <1>8 DEF Fits, Actual
<1>12. Piece(<<>>, S)
  BY EmptyPiece
<1>13. Backed(before \o step)
  <2>1. "DecisionGenerated" \in TypeName /\ 10 \in Nat
    BY DEF TypeName
  <2>2. QED
    BY <1>2, <1>5, <1>7, <1>9, <1>11, <1>12, <2>1, StepNamed
<1>14. QED
  BY <1>10, <1>13, Zenon

\* No line is on a stream of the set.
Clear(lines, none) == \A d \in none : CountOf(lines, d) = 0

\* A history up to a trigger: what the next steps find.
Reached(lines, loan, none) ==
  Backed(lines) /\ CountOf(lines, "loan") = loan /\ Clear(lines, none)

LEMMA ClearCat ==
  ASSUME NEW lines \in Seq(Line), NEW step \in Seq(Line), NEW all, all = lines \o step,
         NEW N, NEW M, Clear(lines, N), Clear(step, M), M \subseteq N
  PROVE  Clear(all, M)
<1>1. ASSUME NEW d \in M PROVE CountOf(all, d) = 0
  <2>1. CountOf(all, d) = CountOf(lines, d) + CountOf(step, d)
    BY CountCat
  <2>2. CountOf(lines, d) = 0 /\ CountOf(step, d) = 0
    BY DEF Clear
  <2>3. QED
    BY <2>1, <2>2
<1>2. QED
  BY <1>1 DEF Clear

LEMMA LoansCat ==
  ASSUME NEW lines \in Seq(Line), NEW step \in Seq(Line), NEW all, all = lines \o step
  PROVE  CountOf(all, "loan") = CountOf(lines, "loan") + CountOf(step, "loan")
BY CountCat

\* What a session says it wrote is there, in every history of the simulator: a line
\* of the stream and type it names, at the position it names, before it.
LEMMA RunBacked ==
  ASSUME NEW target \in {STATES[i] : i \in DOMAIN STATES},
         NEW failing, failing \subseteq DOMAIN RULES
  PROVE  Backed(run(target, failing))
<1>1. PICK a, b, d, e, f, g, h :
        /\ a = _step_submit /\ b = _step_upload /\ d = _step_doc_processing(a \o b)
        /\ e = _step_credit /\ f = _step_fraud /\ g = _step_compliance(failing)
        /\ h = _step_decision(target)
  OBVIOUS
<1>2. PICK P2, P3, P4, P5, P6 :
        /\ P2 = a \o b /\ P3 = P2 \o d /\ P4 = P3 \o e /\ P5 = P4 \o f /\ P6 = P5 \o g
  OBVIOUS
<1>3. /\ a \in Seq(Line) /\ b \in Seq(Line) /\ d \in Seq(Line) /\ e \in Seq(Line)
      /\ f \in Seq(Line) /\ g \in Seq(Line) /\ h \in Seq(Line)
  <2>1. a \in Seq(Line) /\ b \in Seq(Line)
    BY <1>1, SubmitTyped, UploadTyped, Zenon
  <2>2. a \o b \in Seq(Line)
    BY <2>1, CatTyped
  <2>3. d \in Seq(Line)
    BY <1>1, <2>2, DocProcessingTyped, Zenon
  <2>4. e \in Seq(Line) /\ f \in Seq(Line)
    BY <1>1, CreditTyped, FraudTyped, Zenon
  <2>5. g \in Seq(Line) /\ h \in Seq(Line)
    BY <1>1, ComplianceTyped, DecisionTyped, Zenon
  <2>6. QED
    BY <2>1, <2>3, <2>4, <2>5
<1>4. PICK N1, N2, N3 : N1 = {"credit", "fraud", "compliance"} /\ N2 = {"fraud", "compliance"}
                        /\ N3 = {"compliance"}
  OBVIOUS
<1>5. /\ "loan" \in Data /\ N1 \subseteq Data /\ N2 \subseteq N1 /\ N3 \subseteq N2
      /\ "loan" \notin N1
  BY <1>4 DEF Data
<1>6. PICK S : S = {"loan", "docpkg"}
  OBVIOUS
<1>7. Piece(a, S) /\ CountOf(a, "loan") = 2
  BY <1>1, <1>6, SubmitPiece, Zenon
<1>8. Piece(b, S) /\ CountOf(b, "loan") = 4
  BY <1>1, <1>6, UploadPiece, Zenon
<1>9. Clear(a, N1) /\ Clear(b, N1)
  <2>1. \A x \in N1 : x \notin S
    BY <1>4, <1>6
  <2>2. \A x \in N1 : CountOf(a, x) = 0 /\ CountOf(b, x) = 0
    BY <1>7, <1>8, <2>1, CountNone
  <2>3. QED
    BY <2>2 DEF Clear
<1>10. Reached(a, 2, N1)
  <2>1. Backed(a)
    BY <1>3, <1>7 DEF Piece, Backed
  <2>2. QED
    BY <1>7, <1>9, <2>1 DEF Reached
<1>11. Reached(P2, 6, N1)
  <2>1. Backed(a \o b)
    BY <1>8, <1>10, BackedPiece DEF Reached
  <2>5. a \in Seq(Line) /\ CountOf(a, "loan") = 2 /\ Clear(a, N1)
    BY <1>10 DEF Reached, Backed
  <2>6. Clear(P2, N1)
    <3>1. b \in Seq(Line) /\ P2 = a \o b /\ N1 \subseteq N1 /\ Clear(b, N1)
      BY <1>2, <1>3, <1>5, <1>9
    <3>2. a \in Seq(Line) /\ Clear(a, N1)
      BY <2>5
    <3>3. QED
      BY <3>1, <3>2, ClearCat
  <2>7. CountOf(P2, "loan") = CountOf(a, "loan") + CountOf(b, "loan")
    <3>1. b \in Seq(Line) /\ P2 = a \o b /\ a \in Seq(Line)
      BY <1>2, <1>3, <2>5
    <3>2. QED
      BY <3>1, LoansCat
  <2>8. CountOf(P2, "loan") = 6
    BY <1>8, <2>5, <2>7
  <2>9. QED
    BY <1>2, <2>1, <2>6, <2>8 DEF Reached
<1>12. Reached(P3, 7, N1)
  <2>1. Backed(P2 \o d) /\ \A x \in Data \ {"docpkg"} : CountOf(d, x) = IF x = "loan" THEN 1 ELSE 0
    <3>1. d = _step_doc_processing(P2) /\ Backed(P2)
      BY <1>1, <1>2, <1>11 DEF Reached
    <3>2. QED
      BY <3>1, DocProcessingBacked, Zenon
  <2>2. "docpkg" \notin N1 /\ "docpkg" # "loan"
    BY <1>4
  <2>3. CountOf(d, "loan") = 1 /\ \A x \in N1 : CountOf(d, x) = 0
    BY <1>5, <2>1, <2>2
  <2>4. Clear(d, N1)
    BY <2>3 DEF Clear
  <2>5. P2 \in Seq(Line) /\ CountOf(P2, "loan") = 6 /\ Clear(P2, N1)
    BY <1>11 DEF Reached, Backed
  <2>6. Clear(P3, N1)
    <3>1. d \in Seq(Line) /\ P3 = P2 \o d /\ N1 \subseteq N1 /\ Clear(d, N1)
      BY <1>2, <1>3, <1>5, <2>4
    <3>2. P2 \in Seq(Line) /\ Clear(P2, N1)
      BY <2>5
    <3>3. QED
      BY <3>1, <3>2, ClearCat
  <2>7. CountOf(P3, "loan") = CountOf(P2, "loan") + CountOf(d, "loan")
    <3>1. d \in Seq(Line) /\ P3 = P2 \o d /\ P2 \in Seq(Line)
      BY <1>2, <1>3, <2>5
    <3>2. QED
      BY <3>1, LoansCat
  <2>8. CountOf(P3, "loan") = 7
    BY <2>3, <2>5, <2>7
  <2>9. QED
    BY <1>2, <2>1, <2>6, <2>8 DEF Reached
<1>13. Reached(P4, 8, N2)
  <2>1. Backed(P3 \o e) /\ \A x \in Data \ {"credit"} : CountOf(e, x) = IF x = "loan" THEN 1 ELSE 0
    <3>1. Backed(P3) /\ CountOf(P3, "credit") = 0
      BY <1>4, <1>12 DEF Reached, Clear
    <3>2. QED
      BY <1>1, <3>1, CreditBacked, Zenon
  <2>2. "credit" \notin N2 /\ "credit" # "loan"
    BY <1>4
  <2>3. CountOf(e, "loan") = 1 /\ \A x \in N2 : CountOf(e, x) = 0
    BY <1>5, <2>1, <2>2
  <2>4. Clear(e, N2)
    BY <2>3 DEF Clear
  <2>5. P3 \in Seq(Line) /\ CountOf(P3, "loan") = 7 /\ Clear(P3, N1)
    BY <1>12 DEF Reached, Backed
  <2>6. Clear(P4, N2)
    <3>1. e \in Seq(Line) /\ P4 = P3 \o e /\ N2 \subseteq N1 /\ Clear(e, N2)
      BY <1>2, <1>3, <1>5, <2>4
    <3>2. P3 \in Seq(Line) /\ Clear(P3, N1)
      BY <2>5
    <3>3. QED
      BY <3>1, <3>2, ClearCat
  <2>7. CountOf(P4, "loan") = CountOf(P3, "loan") + CountOf(e, "loan")
    <3>1. e \in Seq(Line) /\ P4 = P3 \o e /\ P3 \in Seq(Line)
      BY <1>2, <1>3, <2>5
    <3>2. QED
      BY <3>1, LoansCat
  <2>8. CountOf(P4, "loan") = 8
    BY <2>3, <2>5, <2>7
  <2>9. QED
    BY <1>2, <2>1, <2>6, <2>8 DEF Reached
<1>14. Reached(P5, 9, N3)
  <2>1. Backed(P4 \o f) /\ \A x \in Data \ {"fraud"} : CountOf(f, x) = IF x = "loan" THEN 1 ELSE 0
    <3>1. Backed(P4) /\ CountOf(P4, "fraud") = 0
      BY <1>4, <1>13 DEF Reached, Clear
    <3>2. QED
      BY <1>1, <3>1, FraudBacked, Zenon
  <2>2. "fraud" \notin N3 /\ "fraud" # "loan"
    BY <1>4
  <2>3. CountOf(f, "loan") = 1 /\ \A x \in N3 : CountOf(f, x) = 0
    BY <1>5, <2>1, <2>2
  <2>4. Clear(f, N3)
    BY <2>3 DEF Clear
  <2>5. P4 \in Seq(Line) /\ CountOf(P4, "loan") = 8 /\ Clear(P4, N2)
    BY <1>13 DEF Reached, Backed
  <2>6. Clear(P5, N3)
    <3>1. f \in Seq(Line) /\ P5 = P4 \o f /\ N3 \subseteq N2 /\ Clear(f, N3)
      BY <1>2, <1>3, <1>5, <2>4
    <3>2. P4 \in Seq(Line) /\ Clear(P4, N2)
      BY <2>5
    <3>3. QED
      BY <3>1, <3>2, ClearCat
  <2>7. CountOf(P5, "loan") = CountOf(P4, "loan") + CountOf(f, "loan")
    <3>1. f \in Seq(Line) /\ P5 = P4 \o f /\ P4 \in Seq(Line)
      BY <1>2, <1>3, <2>5
    <3>2. QED
      BY <3>1, LoansCat
  <2>8. CountOf(P5, "loan") = 9
    BY <2>3, <2>5, <2>7
  <2>9. QED
    BY <1>2, <2>1, <2>6, <2>8 DEF Reached
<1>15. Reached(P6, 10, {})
  <2>1. Backed(P5 \o g)
        /\ \A x \in Data \ {"compliance"} : CountOf(g, x) = IF x = "loan" THEN 1 ELSE 0
    <3>1. Backed(P5) /\ CountOf(P5, "compliance") = 0
      BY <1>4, <1>14 DEF Reached, Clear
    <3>2. QED
      BY <1>1, <3>1, ComplianceBacked, Zenon
  <2>2. CountOf(g, "loan") = 1
    BY <1>5, <2>1
  <2>4. Clear(g, {})
    BY DEF Clear
  <2>5. P5 \in Seq(Line) /\ CountOf(P5, "loan") = 9 /\ Clear(P5, N3)
    BY <1>14 DEF Reached, Backed
  <2>6. Clear(P6, {})
    BY DEF Clear
  <2>7. CountOf(P6, "loan") = CountOf(P5, "loan") + CountOf(g, "loan")
    <3>1. g \in Seq(Line) /\ P6 = P5 \o g /\ P5 \in Seq(Line)
      BY <1>2, <1>3, <2>5
    <3>2. QED
      BY <3>1, LoansCat
  <2>8. CountOf(P6, "loan") = 10
    BY <2>2, <2>5, <2>7
  <2>9. QED
    BY <1>2, <2>1, <2>6, <2>8 DEF Reached
<1>16. Backed(P6 \o h)
  BY <1>1, <1>15, DecisionBacked, Zenon DEF Reached
<1>17. PICK idx : idx = CHOOSE i \in DOMAIN STATES : STATES[i] = target
  OBVIOUS
<1>18. idx \in 1..10
  <2>1. DOMAIN STATES = 1..10
    BY DEF STATES
  <2>2. QED
    BY <1>17, <2>1
<1>19. PICK decides \in BOOLEAN :
         decides <=> (idx > 6 /\ target # "DECLINED_COMPLIANCE" /\ ~_hard_block(failing))
  OBVIOUS
<1>20. run(target, failing) =
         a \o (IF idx > 1 THEN b ELSE <<>>) \o (IF idx > 2 THEN d ELSE <<>>)
         \o (IF idx > 3 THEN e ELSE <<>>) \o (IF idx > 4 THEN f ELSE <<>>)
         \o (IF idx > 5 THEN g ELSE <<>>) \o (IF decides THEN h ELSE <<>>)
  <2>1. run(target, failing) =
          _step_submit
          \o (IF idx > 1 THEN _step_upload ELSE <<>>)
          \o (IF idx > 2 THEN _step_doc_processing(_step_submit \o _step_upload) ELSE <<>>)
          \o (IF idx > 3 THEN _step_credit ELSE <<>>)
          \o (IF idx > 4 THEN _step_fraud ELSE <<>>)
          \o (IF idx > 5 THEN _step_compliance(failing) ELSE <<>>)
          \o (IF decides THEN _step_decision(target) ELSE <<>>)
    BY <1>17, <1>19 DEF run
  <2>2. QED
    BY <1>1, <2>1, Zenon
<1>21. \A x \in Seq(Line) : x \o <<>> = x
  BY ConcatEmptySeq
<1>22. /\ P2 \in Seq(Line) /\ P3 \in Seq(Line) /\ P4 \in Seq(Line) /\ P5 \in Seq(Line)
       /\ P6 \in Seq(Line)
  BY <1>11, <1>12, <1>13, <1>14, <1>15 DEF Reached, Backed
<1>23. /\ Backed(a) /\ Backed(P2) /\ Backed(P3) /\ Backed(P4) /\ Backed(P5) /\ Backed(P6)
       /\ \A x : Backed(x) => x \in Seq(Line)
  BY <1>10, <1>11, <1>12, <1>13, <1>14, <1>15 DEF Reached, Backed
<1>24. Backed(run(target, failing))
  <2>1. PICK b1, d1, e1, f1, g1, h1 :
          /\ b1 = (IF idx > 1 THEN b ELSE <<>>) /\ d1 = (IF idx > 2 THEN d ELSE <<>>)
          /\ e1 = (IF idx > 3 THEN e ELSE <<>>) /\ f1 = (IF idx > 4 THEN f ELSE <<>>)
          /\ g1 = (IF idx > 5 THEN g ELSE <<>>) /\ h1 = (IF decides THEN h ELSE <<>>)
    OBVIOUS
  <2>2. PICK Q2, Q3, Q4, Q5, Q6, Q7 :
          /\ Q2 = a \o b1 /\ Q3 = Q2 \o d1 /\ Q4 = Q3 \o e1 /\ Q5 = Q4 \o f1
          /\ Q6 = Q5 \o g1 /\ Q7 = Q6 \o h1
    OBVIOUS
  <2>3. run(target, failing) = Q7
    BY <1>20, <2>1, <2>2, Zenon
  <2>4. /\ decides => idx > 5
        /\ idx > 5 => idx > 4
        /\ idx > 4 => idx > 3
        /\ idx > 3 => idx > 2
        /\ idx > 2 => idx > 1
    <3>1. idx \in Int /\ (idx > 6 => idx > 5)
      BY <1>18
    <3>2. QED
      BY <1>19, <3>1
  <2>5. /\ idx > 1 => Q2 = P2
        /\ ~(idx > 1) => Q2 = a
    <3>1. a \o <<>> = a
      BY <1>3, <1>21
    <3>2. QED
      BY <1>2, <2>1, <2>2, <3>1, Zenon
  <2>6. Backed(Q2) /\ Q2 \in Seq(Line)
    BY <1>23, <2>5
  <2>7. /\ idx > 2 => Q3 = P3
        /\ ~(idx > 2) => Q3 = Q2
    <3>1. Q2 \o <<>> = Q2
      BY <2>6, <1>21
    <3>2. QED
      BY <1>2, <2>1, <2>2, <2>4, <2>5, <3>1, Zenon
  <2>8. Backed(Q3) /\ Q3 \in Seq(Line)
    BY <1>23, <2>6, <2>7
  <2>9. /\ idx > 3 => Q4 = P4
        /\ ~(idx > 3) => Q4 = Q3
    <3>1. Q3 \o <<>> = Q3
      BY <2>8, <1>21
    <3>2. QED
      BY <1>2, <2>1, <2>2, <2>4, <2>7, <3>1, Zenon
  <2>10. Backed(Q4) /\ Q4 \in Seq(Line)
    BY <1>23, <2>8, <2>9
  <2>11. /\ idx > 4 => Q5 = P5
         /\ ~(idx > 4) => Q5 = Q4
    <3>1. Q4 \o <<>> = Q4
      BY <2>10, <1>21
    <3>2. QED
      BY <1>2, <2>1, <2>2, <2>4, <2>9, <3>1, Zenon
  <2>12. Backed(Q5) /\ Q5 \in Seq(Line)
    BY <1>23, <2>10, <2>11
  <2>13. /\ idx > 5 => Q6 = P6
         /\ ~(idx > 5) => Q6 = Q5
    <3>1. Q5 \o <<>> = Q5
      BY <2>12, <1>21
    <3>2. QED
      BY <1>2, <2>1, <2>2, <2>4, <2>11, <3>1, Zenon
  <2>14. Backed(Q6) /\ Q6 \in Seq(Line)
    BY <1>23, <2>12, <2>13
  <2>15. /\ decides => Q7 = P6 \o h
         /\ ~decides => Q7 = Q6
    <3>1. Q6 \o <<>> = Q6
      BY <2>14, <1>21
    <3>2. QED
      BY <2>1, <2>2, <2>4, <2>13, <3>1, Zenon
  <2>16. QED
    BY <1>16, <2>3, <2>14, <2>15
<1>25. QED
  BY <1>24

--------------------------------------------------------------------------------
(* What is in the database of a file. *)

\* A line of a record that is not of a session is at its position, or the stream was
\* written to carelessly.
LineKept(l) ==
  file[l].stream \in Data =>
    LET s == <<file[l].stream, 0>>
    IN  \/ s \in careless
        \/ PositionAt(l) \in DOMAIN events[s] /\ events[s][PositionAt(l)] = l

\* What is at a position of a stream: the application's event, or a line of the stream
\* with all the lines before it.
FromFile(s, line) ==
  \/ line = 0
  \/ /\ line \in 1..Len(file) /\ file[line].stream = s[1]
     /\ \A l \in 1..(line - 1) : LineKept(l)

ClaimsInv ==
  /\ \A l \in 1..(job.line - 1) : LineKept(l)
  /\ \A s \in Stream : \A p \in DOMAIN events[s] : FromFile(s, events[s][p])

\* Nothing that is in the tables is written over, in no action of the model.
Grows ==
  \A s \in Stream : \A p \in DOMAIN events[s] :
    p \in DOMAIN events'[s] /\ events'[s][p] = events[s][p]

LEMMA LineStays ==
  ASSUME SeedingType, UNCHANGED scenario, Grows, careless \subseteq careless',
         NEW l \in 1..Len(file), LineKept(l)
  PROVE  LineKept(l)'
<1>1. file' = file /\ PositionAt(l)' = PositionAt(l)
  BY DEF file, PositionAt
<1>2. SUFFICES ASSUME file[l].stream \in Data
               PROVE  LET s == <<file[l].stream, 0>>
                      IN  \/ s \in careless'
                          \/ /\ PositionAt(l) \in DOMAIN events'[s]
                             /\ events'[s][PositionAt(l)] = l
  BY <1>1 DEF LineKept
<1>3. PICK s, p : s = <<file[l].stream, 0>> /\ p = PositionAt(l)
  OBVIOUS
<1>4. s \in Stream
  BY <1>2, <1>3, SeedingAssumption DEF Stream
<1>5. s \in careless \/ (p \in DOMAIN events[s] /\ events[s][p] = l)
  BY <1>2, <1>3 DEF LineKept
<1>6. s \in careless' \/ (p \in DOMAIN events'[s] /\ events'[s][p] = l)
  BY <1>4, <1>5 DEF Grows
<1>7. QED
  BY <1>3, <1>6

\* The line the script is at is written in its own stream, if it is written at all.
Written ==
  \A s \in Stream : \A p \in DOMAIN events'[s] :
    \/ p \in DOMAIN events[s] \/ events'[s][p] = 0
    \/ /\ events'[s][p] = job.line
       /\ job.line <= Len(file) /\ file[job.line].stream = s[1]

Advances ==
  \/ job'.line = 1 \/ job'.line = job.line
  \/ \E n \in 1..Len(file) : n = job.line /\ job'.line = n + 1 /\ LineKept(n)'

LEMMA ClaimsStay ==
  ASSUME SeedingType, ClaimsInv, UNCHANGED scenario, Grows, careless \subseteq careless',
         Written, Advances
  PROVE  ClaimsInv'
<1>1. file' = file
  BY DEF file
<1>2. PICK n, m : n = job.line /\ m = Len(file)
  OBVIOUS
<1>3. n \in Nat \ {0} /\ m \in Nat /\ n <= m + 1
  BY <1>2, FileTyped DEF SeedingType, Jobs
<1>4. ASSUME NEW k \in 1..m, LineKept(k) PROVE LineKept(k)'
  BY <1>2, <1>4, LineStays
<1>5. \A l \in 1..(n - 1) : LineKept(l)'
  <2>1. \A l \in 1..(n - 1) : l \in 1..m /\ LineKept(l)
    BY <1>2, <1>3 DEF ClaimsInv
  <2>2. QED
    BY <1>4, <2>1
<1>6. PICK k : k = job'.line
  OBVIOUS
<1>7. \A l \in 1..(k - 1) : LineKept(l)'
  <2>1. CASE k = 1
    BY <2>1
  <2>2. CASE k = n
    BY <1>5, <2>2
  <2>3. CASE k = n + 1 /\ LineKept(n)'
    <3>1. ASSUME NEW l \in 1..(k - 1) PROVE LineKept(l)'
      <4>1. l = n \/ l \in 1..(n - 1)
        BY <1>3, <2>3, <3>1
      <4>2. QED
        BY <1>5, <2>3, <4>1
    <3>2. QED
      BY <3>1
  <2>5. QED
    BY <1>2, <1>6, <2>1, <2>2, <2>3 DEF Advances
<1>8. ASSUME NEW s \in Stream, NEW p \in DOMAIN events'[s], NEW e, e = events'[s][p]
      PROVE  FromFile(s, e)'
  <2>2. e = 0 \/ (e \in 1..m /\ file[e].stream = s[1] /\ \A l \in 1..(e - 1) : LineKept(l)')
    <3>1. CASE p \in DOMAIN events[s]
      <4>1. e = events[s][p]
        BY <1>8, <3>1 DEF Grows
      <4>2. FromFile(s, e)
        BY <3>1, <4>1 DEF ClaimsInv
      <4>3. CASE e = 0
        BY <4>3
      <4>4. CASE e # 0
        <5>1. e \in 1..m /\ file[e].stream = s[1] /\ \A l \in 1..(e - 1) : LineKept(l)
          BY <1>2, <4>2, <4>4 DEF FromFile
        <5>2. \A l \in 1..(e - 1) : l \in 1..m
          BY <1>3, <5>1
        <5>3. QED
          BY <1>4, <5>1, <5>2
      <4>5. QED
        BY <4>3, <4>4
    <3>2. CASE e = 0
      BY <3>2
    <3>3. CASE e = n /\ n <= m /\ file[n].stream = s[1]
      BY <1>3, <1>5, <3>3
    <3>4. p \in DOMAIN events[s] \/ e = 0 \/ (e = n /\ n <= m /\ file[n].stream = s[1])
      BY <1>2, <1>8 DEF Written
    <3>5. QED
      BY <3>1, <3>2, <3>3, <3>4
  <2>3. QED
    BY <1>1, <1>2, <2>2 DEF FromFile
<1>9. QED
  BY <1>6, <1>7, <1>8 DEF ClaimsInv, Stream

LEMMA EventWritten ==
  ASSUME SeedingType, NEW s \in Stream, NEW position, position \notin DOMAIN events[s],
         NEW line, events' = WithEvent(s, position, line)
  PROVE  /\ Grows /\ position \in DOMAIN events'[s] /\ events'[s][position] = line
         /\ \A t \in Stream : \A p \in DOMAIN events'[t] :
              p \in DOMAIN events[t] \/ (t = s /\ p = position)
<1>1. events = [t \in Stream |-> events[t]]
  BY DEF SeedingType
<1>2. /\ events'[s] = [p \in DOMAIN events[s] \cup {position} |->
                        IF p = position THEN line ELSE events[s][p]]
      /\ \A t \in Stream \ {s} : events'[t] = events[t]
  BY <1>1 DEF WithEvent
<1>3. PICK E, D : E = events'[s] /\ D = events[s]
  OBVIOUS
<1>4. /\ DOMAIN E = DOMAIN D \cup {position}
      /\ \A p \in DOMAIN D \cup {position} : E[p] = IF p = position THEN line ELSE D[p]
  BY <1>2, <1>3
<1>5. /\ position \in DOMAIN E /\ E[position] = line
      /\ \A p \in DOMAIN D : p \in DOMAIN E /\ E[p] = D[p]
  BY <1>3, <1>4
<1>6. ASSUME NEW t \in Stream, NEW p \in DOMAIN events[t]
      PROVE  p \in DOMAIN events'[t] /\ events'[t][p] = events[t][p]
  <2>1. CASE t = s
    BY <1>3, <1>5, <1>6, <2>1
  <2>2. CASE t # s
    BY <1>2, <1>6, <2>2
  <2>3. QED
    BY <2>1, <2>2
<1>7. ASSUME NEW t \in Stream, NEW p \in DOMAIN events'[t]
      PROVE  p \in DOMAIN events[t] \/ (t = s /\ p = position)
  <2>1. CASE t = s
    BY <1>3, <1>4, <1>7, <2>1
  <2>2. CASE t # s
    BY <1>2, <1>7, <2>2
  <2>3. QED
    BY <2>1, <2>2
<1>8. QED
  BY <1>3, <1>5, <1>6, <1>7 DEF Grows

\* The line a script is at, where it is written.
LEMMA LineAt ==
  ASSUME SeedingType, job.line <= Len(file)
  PROVE  /\ job.line \in 1..Len(file) /\ StreamAt(job.line) \in Stream
         /\ StreamAt(job.line)[1] = file[job.line].stream
         /\ file[job.line].stream \in Data =>
              StreamAt(job.line) = <<file[job.line].stream, 0>>
<1>1. job.line \in 1..Len(file)
  BY FileTyped DEF SeedingType, Jobs
<1>2. QED
  BY <1>1, LineTyped, SessionsApart DEF StreamAt

\* The line is written at its position, or was there, and the script goes on.
LEMMA LineWritten ==
  ASSUME SeedingType, ClaimsInv, UNCHANGED scenario, NEW l, l = job.line, l <= Len(file),
         NEW s, s = StreamAt(l), NEW p, p = PositionAt(l),
         \/ p \notin DOMAIN events[s] /\ events' = WithEvent(s, p, l) /\ careless' = careless
         \/ p \in DOMAIN events[s] /\ events' = events /\ careless' = careless \cup {s},
         job'.line = l + 1
  PROVE  ClaimsInv'
<1>1. /\ l \in 1..Len(file) /\ s \in Stream /\ s[1] = file[l].stream
      /\ file[l].stream \in Data => s = <<file[l].stream, 0>>
  BY LineAt
<1>2. file' = file /\ PositionAt(l)' = p
  BY DEF file, PositionAt
<1>3. CASE p \notin DOMAIN events[s] /\ events' = WithEvent(s, p, l) /\ careless' = careless
  <2>1. /\ Grows /\ p \in DOMAIN events'[s] /\ events'[s][p] = l
        /\ \A t \in Stream : \A q \in DOMAIN events'[t] :
             q \in DOMAIN events[t] \/ (t = s /\ q = p)
    BY <1>1, <1>3, EventWritten
  <2>2. Written
    BY <1>1, <2>1 DEF Written
  <2>3. LineKept(l)'
    BY <1>1, <1>2, <2>1 DEF LineKept
  <2>4. Advances
    BY <1>1, <2>3 DEF Advances
  <2>5. QED
    BY <1>3, <2>1, <2>2, <2>4, ClaimsStay
<1>4. CASE p \in DOMAIN events[s] /\ events' = events /\ careless' = careless \cup {s}
  <2>1. Grows /\ Written
    BY <1>4 DEF Grows, Written
  <2>2. LineKept(l)'
    BY <1>1, <1>2, <1>4 DEF LineKept
  <2>3. Advances
    BY <1>1, <2>2 DEF Advances
  <2>4. QED
    BY <1>4, <2>1, <2>3, ClaimsStay
<1>5. QED
  BY <1>3, <1>4

LEMMA ClaimsNext == SeedingInv /\ ClaimsInv /\ [Next]_vars => ClaimsInv'
<1> SUFFICES ASSUME SeedingInv, ClaimsInv, [Next]_vars PROVE ClaimsInv'
  OBVIOUS
<1>1. SeedingType
  BY DEF SeedingInv
<1>2. ASSUME UNCHANGED <<scenario, events>>, careless \subseteq careless',
             job'.line = 1 \/ job'.line = job.line
      PROVE  ClaimsInv'
  <2>1. Grows /\ Written /\ Advances
    BY <1>2 DEF Grows, Written, Advances
  <2>2. QED
    BY <1>1, <1>2, <2>1, ClaimsStay
<1>3. CASE GenerateAll \/ SeedFromJsonl
  <2>1. UNCHANGED <<scenario, events, careless>> /\ job'.line = 1
    BY <1>3 DEF GenerateAll, SeedFromJsonl, db, Idle
  <2>2. QED
    BY <1>2, <2>1
<1>4. CASE UpsertStream
  <2>1. UNCHANGED <<scenario, events, careless>> /\ job' = [job EXCEPT !.row = TRUE]
    BY <1>4 DEF UpsertStream
  <2>2. job'.line = job.line
    BY <1>1, <2>1 DEF SeedingType, Jobs
  <2>3. QED
    BY <1>2, <2>1, <2>2
<1>5. PICK l, s, p : l = job.line /\ s = StreamAt(l) /\ p = PositionAt(l)
  OBVIOUS
<1>6. CASE InsertEvent
  <2>1. /\ l <= Len(file) /\ UNCHANGED scenario
        /\ job' = [job EXCEPT !.row = FALSE, !.line = l + 1]
        /\ events' = IF p \in DOMAIN events[s] THEN events ELSE WithEvent(s, p, l)
        /\ careless' = IF p \in DOMAIN events[s] THEN careless \cup {s} ELSE careless
    BY <1>1, <1>5, <1>6 DEF InsertEvent, AtLine, SeedingType, Jobs
  <2>2. job'.line = l + 1
    BY <1>1, <2>1 DEF SeedingType, Jobs
  <2>3. \/ p \notin DOMAIN events[s] /\ events' = WithEvent(s, p, l) /\ careless' = careless
        \/ p \in DOMAIN events[s] /\ events' = events /\ careless' = careless \cup {s}
    BY <2>1
  <2>4. QED
    BY <1>1, <1>5, <2>1, <2>2, <2>3, LineWritten
<1>7. CASE SeedLine
  <2>1. /\ l <= Len(file) /\ UNCHANGED <<scenario, careless>>
        /\ job' = [job EXCEPT !.line = l + 1]
        /\ p \notin DOMAIN events[s] /\ events' = WithEvent(s, p, l)
    BY <1>1, <1>5, <1>7 DEF SeedLine, AtLine, SeedingType, Jobs
  <2>2. job'.line = l + 1
    BY <1>1, <2>1 DEF SeedingType, Jobs
  <2>3. QED
    BY <1>1, <1>5, <2>1, <2>2, LineWritten
<1>8. CASE SeedConflict \/ Stop
  <2>1. UNCHANGED <<scenario, events>> /\ careless \subseteq careless' /\ job'.line = 1
    BY <1>8 DEF SeedConflict, Stop, db, Idle
  <2>2. QED
    BY <1>2, <2>1
<1>9. ASSUME NEW t \in Touched, AppendEvent(t) PROVE ClaimsInv'
  <2>1. UNCHANGED <<scenario, job>> /\ careless \subseteq careless'
    BY <1>9 DEF AppendEvent
  <2>2. CASE UNCHANGED db
    BY <1>2, <2>1, <2>2 DEF db
  <2>3. CASE ~ UNCHANGED db
    <3>1. PICK q : q = version[t] + 1
      OBVIOUS
    <3>2. q \notin DOMAIN events[t] /\ events' = WithEvent(t, q, 0)
      BY <1>9, <2>3, <3>1 DEF AppendEvent
    <3>3. t \in Stream
      BY SeedingAssumption
    <3>4. /\ Grows /\ events'[t][q] = 0
          /\ \A r \in Stream : \A o \in DOMAIN events'[r] :
               o \in DOMAIN events[r] \/ (r = t /\ o = q)
      BY <1>1, <3>2, <3>3, EventWritten
    <3>5. Written
      BY <3>4 DEF Written
    <3>6. Advances
      BY <2>1 DEF Advances
    <3>7. QED
      BY <1>1, <2>1, <3>4, <3>5, <3>6, ClaimsStay
  <2>4. QED
    BY <2>2, <2>3
<1>10. CASE Quiescent \/ UNCHANGED vars
  <2>1. UNCHANGED <<scenario, events, careless, job>>
    BY <1>10 DEF Quiescent, vars, db
  <2>2. QED
    BY <1>2, <2>1
<1>11. QED
  BY <1>3, <1>4, <1>6, <1>7, <1>8, <1>9, <1>10 DEF Next

LEMMA ClaimsInit == Init => ClaimsInv
<1> SUFFICES ASSUME Init PROVE ClaimsInv
  OBVIOUS
<1>1. job.line = 1 /\ \A s \in Stream : events[s] = <<>>
  BY DEF Init, Idle
<1>2. QED
  BY <1>1 DEF ClaimsInv

LEMMA ClaimsFollow == SeedingInv /\ ClaimsInv => SeededClaimsHold
<1> SUFFICES ASSUME SeedingInv, ClaimsInv, NEW s \in Stream, NEW p \in DOMAIN events[s],
                    NEW l, l = events[s][p], l # 0,
                    NEW claim, claim = file[l].claim, claim # NoClaim,
                    NEW t, t = <<claim.stream, 0>>, t \notin careless
             PROVE  Holds(t, Actual(s[1], claim.position), claim.type)
  BY DEF SeededClaimsHold, Actual
<1>1. PICK f : f = file
  OBVIOUS
<1>2. scenario \in Scenarios
  BY DEF SeedingInv, SeedingType
<1>3. f \in Seq(Line) /\ Len(f) \in Nat /\ DOMAIN f = 1..Len(f)
  BY <1>1, <1>2, FileTyped
<1>4. Backed(f)
  <2>1. f = run(scenario.target, scenario.failing)
    BY <1>1, <1>2 DEF file, Files
  <2>2. /\ scenario.target \in {STATES[i] : i \in DOMAIN STATES}
        /\ scenario.failing \subseteq DOMAIN RULES
    BY <1>2, SeedingAssumption
  <2>3. QED
    BY <2>1, <2>2, RunBacked
<1>5. FromFile(s, l)
  BY DEF ClaimsInv
<1>6. l \in 1..Len(f) /\ f[l].stream = s[1] /\ \A k \in 1..(l - 1) : LineKept(k)
  BY <1>1, <1>5 DEF FromFile
<1>7. PICK j \in 1..(l - 1) : Meant(f, l, j)
  BY <1>1, <1>4, <1>6 DEF Backed
<1>8. /\ f[j].stream = claim.stream /\ f[j].type = claim.type
      /\ CountOf(SubSeq(f, 1, j), claim.stream) = Actual(s[1], claim.position)
  BY <1>1, <1>6, <1>7 DEF Meant
<1>9. j \in 1..Len(f) /\ j # 0
  BY <1>3, <1>6
<1>10. claim.stream \in Data
  <2>1. f[l] \in Line /\ f[j] \in Line
    BY <1>3, <1>6, <1>9
  <2>2. claim.stream \in Data \cup {"none"} /\ f[j].stream \in Data \cup Sessions
    BY <1>1, <2>1 DEF Line, Claim
  <2>3. "none" \notin Data \cup Sessions
    BY DEF Data, Sessions
  <2>4. QED
    BY <1>8, <2>2, <2>3
<1>11. PositionAt(j) = CountOf(SubSeq(f, 1, j), claim.stream)
  BY <1>1, <1>2, <1>3, <1>8, <1>9 DEF PositionAt, Positions, file
<1>12. PositionAt(j) \in DOMAIN events[t] /\ events[t][PositionAt(j)] = j
  BY <1>1, <1>6, <1>8, <1>10 DEF LineKept
<1>13. QED
  BY <1>1, <1>8, <1>9, <1>11, <1>12 DEF Holds

\* What a seeded session says it wrote is in the database, at the position it means and
\* of the type it names, wherever the scripts stopped and were started again and whatever
\* the application appended in between, unless write_to_db went over that stream
\* carelessly (event_simulator.py, line 26: "mirrors exactly what real LangGraph agents
\* produce").
THEOREM ClaimsAreBacked == Spec => []SeededClaimsHold
<1>1. Spec => []ClaimsInv
  BY SeedingInvariance, ClaimsInit, ClaimsNext, PTL DEF Spec
<1>2. QED
  BY <1>1, SeedingInvariance, ClaimsFollow, PTL

================================================================================
