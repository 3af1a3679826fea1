----------------------------- MODULE AgentPipeline -----------------------------
(***************************************************************************)
(* The five agents (src/agents/) on one application.  A run of an agent    *)
(* goes through the nodes of its graph; a node reads what earlier agents   *)
(* wrote, decides, appends to one or two streams, reading the version of   *)
(* each just before, and records itself on the session's stream.  Runs of  *)
(* one pipeline follow each other; other runs, started by hand or to       *)
(* recover a failed session, interleave with them.                         *)
(*                                                                         *)
(* The LLM and the registry may answer anything.  The application has one  *)
(* document, an income statement that is where its upload says;            *)
(* AgentToolCalled, FraudAnomalyDetected and the events of single rules    *)
(* are left out.                                                           *)
(***************************************************************************)
EXTENDS Integers, Sequences, SequencesExt, AgentContext

CONSTANTS
  Run,         \* calls of process_application
  Nobody,      \* author of the events that seed the loan stream; also no run
  Setups,      \* bound: what the runs are to do, with what is on the loan stream
  MaxAttempts  \* MAX_OCC_RETRIES

\* The nodes of each agent's build_graph, in order.
DocumentGraph ==
  <<"validate_inputs", "validate_document_formats", "extract_income_statement",
    "extract_balance_sheet", "assess_quality", "write_output">>
CreditGraph ==
  <<"validate_inputs", "load_applicant_registry", "analyze_credit_risk",
    "write_output">>
FraudGraph ==
  <<"validate_inputs", "load_document_facts", "cross_reference_registry",
    "analyze_fraud_patterns", "write_output">>
ComplianceGraph ==
  <<"validate_inputs", "load_company_profile", "evaluate_rules", "write_output">>
DecisionGraph ==
  <<"validate_inputs", "load_credit_result", "load_fraud_result",
    "load_compliance_result", "synthesize_decision", "apply_hard_constraints",
    "write_output">>

Graph ==
  [document   |-> DocumentGraph,
   credit     |-> CreditGraph,
   fraud      |-> FraudGraph,
   compliance |-> ComplianceGraph,
   decision   |-> DecisionGraph]

Kind == DOMAIN Graph

\* after: the run that must have completed before this one is started, as in
\* run_src_pipeline.py.  prior: prior_session_id.  breaks: whether it may end by an
\* exception beside those its nodes raise, or by a crash.
Plan == [kind : Kind, after : Run \cup {Nobody}, prior : Run \cup {Nobody},
         breaks : BOOLEAN]

Event(type, r, value) == [type |-> type, by |-> r, value |-> value]

\* What is on the loan stream at first: nothing, a submission, a submission with its
\* document.
Seeds ==
  LET submitted == Event("ApplicationSubmitted", Nobody, "none")
  IN  {<<>>, <<submitted>>, <<submitted, Event("DocumentUploaded", Nobody, "none")>>}

ASSUME PipelineAssumption ==
  /\ Nobody \notin Run
  /\ Setups \subseteq [Run -> Plan] \X Seeds
  /\ MaxAttempts \in Nat \ {0}

VARIABLES
  plan,
  log,      \* the streams of the application
  session,  \* session[r]: agent-<kind>-<session_id>, node names for their events
  \* local variables of a run
  step,
  node,     \* index of the node in the graph
  write,    \* which of the node's appends is next
  expected, \* expected_version
  attempt,
  found,    \* results of the analysis, or read from other agents' streams
  source,   \* contributing_sessions
  written   \* events_written

local == <<step, node, write, expected, attempt, found, source, written>>
vars == <<plan, log, session, local>>

Streams == {"loan", "docpkg", "credit", "fraud", "compliance"}
Ended == {"done", "failed", "crashed"}
Step ==
  {"idle", "recover", "work", "version", "append", "output", "record", "complete"} \cup Ended

\* Every risk_tier but HIGH is MEDIUM; fraud_score is above 0.60 or not; confidence
\* is below 0.60, below 0.70, or not; an LLM can recommend what nobody asked for.
Finding ==
  [tier : {"MEDIUM", "HIGH"}, score : {"low", "high"},
   verdict : {"CLEAR", "CONDITIONAL", "BLOCKED"},
   confidence : {"low", "middle", "high"},
   recommendation : {"APPROVE", "DECLINE", "REFER", "OTHER"}]

\* What apply_hard_constraints takes for a value that is missing.
Missing ==
  [tier |-> "MEDIUM", score |-> "low", verdict |-> "CONDITIONAL",
   confidence |-> "low", recommendation |-> "REFER"]

AnyVersion == -1

\* The events other than those that open a stream or start an extraction.
EventName ==
  {"ApplicationSubmitted", "DocumentUploaded", "DocumentFormatValidated",
   "ExtractionCompleted", "QualityAssessmentCompleted", "PackageReadyForAnalysis",
   "CreditAnalysisRequested", "CreditAnalysisCompleted", "FraudScreeningRequested",
   "FraudScreeningCompleted", "ComplianceCheckRequested", "ComplianceCheckCompleted",
   "DecisionRequested", "DecisionGenerated", "ApplicationApproved",
   "ApplicationDeclined", "HumanReviewRequested"}

OpeningName ==
  {"CreditRecordOpened", "FraudScreeningInitiated", "ComplianceCheckInitiated",
   "ExtractionStarted"}

Value ==
  {"none", "MEDIUM", "HIGH", "low", "high", "CLEAR", "CONDITIONAL", "BLOCKED",
   "APPROVE", "DECLINE", "REFER", "OTHER"}

EventType == [type : EventName \cup OpeningName, by : Run \cup {Nobody}, value : Value]

SessionEvent ==
  {"AgentSessionStarted", "AgentSessionRecovered", "AgentOutputWritten",
   "AgentSessionCompleted", "AgentSessionFailed"}
    \cup UNION {Range(Graph[kind]) : kind \in Kind}

TypeOK ==
  /\ \E setup \in Setups : plan = setup[1]
  /\ log \in [Streams -> Seq(EventType)]
  /\ session \in [Run -> Seq(SessionEvent)]
  /\ step \in [Run -> Step]
  /\ node \in [Run -> Nat]
  /\ \A r \in Run : node[r] \in DOMAIN Graph[plan[r].kind]
  /\ write \in [Run -> 1..2]
  /\ expected \in [Run -> Nat \cup {AnyVersion}]
  /\ attempt \in [Run -> 1..MaxAttempts]
  /\ found \in [Run -> Finding]
  /\ source \in [Run -> SUBSET Run]
  /\ written \in [Run -> Seq([type : EventName, position : Nat])]

Init ==
  /\ \E setup \in Setups :
       /\ plan = setup[1]
       /\ log = [s \in Streams |-> IF s = "loan" THEN setup[2] ELSE <<>>]
  /\ session = [r \in Run |-> <<>>]
  /\ step = [r \in Run |-> "idle"]
  /\ node = [r \in Run |-> 1]
  /\ write = [r \in Run |-> 1]
  /\ expected = [r \in Run |-> 0]
  /\ attempt = [r \in Run |-> 1]
  /\ found = [r \in Run |-> Missing]
  /\ source = [r \in Run |-> {}]
  /\ written = [r \in Run |-> <<>>]

--------------------------------------------------------------------------------

Has(s, type) == \E i \in DOMAIN s : s[i].type = type

NodeOf(r) == Graph[plan[r].kind][node[r]]

\* _append_session_event: expected_version -1, which is never refused.
Tell(r, entry) == session' = [session EXCEPT ![r] = Append(@, entry)]

GoTo(r, label) == step' = [step EXCEPT ![r] = label]

\* Slips a maintainer could make, each paired in PROJECT.json with the property
\* that notices it: asking for the next agent before the result is written, a
\* position guessed from the version read, a constraint dropped, one retry too many.
HandoffFirst(result, request) == <<request, result>>
NewVersionGuessed(r, type) == expected[r] + 1
ConstrainedLenient(f) ==
  IF f.confidence = "low" \/ f.score = "high" THEN "REFER" ELSE f.recommendation
MayRetryOnceMore(r) == plan[r].kind = "credit" /\ attempt[r] <= MaxAttempts

--------------------------------------------------------------------------------

\* An agent's result, then the request that is the next agent's cue.
Handoff(result, request) == <<result, request>>

\* The event types each agent's nodes append, in order; an earlier one of a batch is
\* added by Batch.
DocumentWrites ==
  [validate_inputs           |-> <<"DocumentUploaded">>,
   validate_document_formats |-> <<"DocumentFormatValidated">>,
   extract_income_statement  |-> <<"ExtractionCompleted">>,
   assess_quality            |-> <<"QualityAssessmentCompleted">>,
   write_output |-> Handoff("PackageReadyForAnalysis", "CreditAnalysisRequested")]

CreditWrites ==
  [write_output |-> Handoff("CreditAnalysisCompleted", "FraudScreeningRequested")]

FraudWrites ==
  [write_output |-> Handoff("FraudScreeningCompleted", "ComplianceCheckRequested")]

ComplianceWrites(f) ==
  [evaluate_rules |-> <<"ComplianceCheckCompleted">>,
   write_output   |-> IF f.verdict = "BLOCKED" THEN <<"ApplicationDeclined">>
                                               ELSE <<"DecisionRequested">>]

DecisionWrites(f) ==
  LET outcome == CASE f.recommendation = "APPROVE" -> "ApplicationApproved"
                   [] f.recommendation = "DECLINE" -> "ApplicationDeclined"
                   [] OTHER -> "HumanReviewRequested"
  IN  [write_output |-> <<"DecisionGenerated", outcome>>]

WritesAt(r, n) ==
  LET table == CASE plan[r].kind = "document" -> DocumentWrites
                 [] plan[r].kind = "credit" -> CreditWrites
                 [] plan[r].kind = "fraud" -> FraudWrites
                 [] plan[r].kind = "compliance" -> ComplianceWrites(found[r])
                 [] plan[r].kind = "decision" -> DecisionWrites(found[r])
  IN  IF n \in DOMAIN table THEN table[n] ELSE <<>>

Writes(r) == WritesAt(r, NodeOf(r))

PackageEvents == {"DocumentFormatValidated", "ExtractionCompleted",
                  "QualityAssessmentCompleted", "PackageReadyForAnalysis"}

StreamOf(type) ==
  CASE type \in PackageEvents -> "docpkg"
    [] type = "CreditAnalysisCompleted" -> "credit"
    [] type = "FraudScreeningCompleted" -> "fraud"
    [] type = "ComplianceCheckCompleted" -> "compliance"
    [] OTHER -> "loan"

ValueOf(r, type) ==
  CASE type = "CreditAnalysisCompleted" -> found[r].tier
    [] type = "FraudScreeningCompleted" -> found[r].score
    [] type = "ComplianceCheckCompleted" -> found[r].verdict
    [] type = "DecisionGenerated" -> found[r].recommendation
    [] OTHER -> "none"

Opener == [credit |-> "CreditRecordOpened", fraud |-> "FraudScreeningInitiated",
           compliance |-> "ComplianceCheckInitiated"]

\* The events of one append: a stream found empty is opened first.
Batch(r, type) ==
  LET stream == StreamOf(type)
      first == IF stream \in DOMAIN Opener /\ expected[r] = AnyVersion
               THEN <<Event(Opener[stream], r, "none")>>
               ELSE IF type = "ExtractionCompleted"
                    THEN <<Event("ExtractionStarted", r, "none")>> ELSE <<>>
  IN  Append(first, Event(type, r, ValueOf(r, type)))

Accepts(stream, version) == version = AnyVersion \/ version = Len(log[stream])

\* What append returns.
NewVersion(r, type) == Len(log[StreamOf(type)]) + Len(Batch(r, type))

\* hard_block of REG-001 to REG-005.  Rules are evaluated up to the first hard one
\* that fails.
HardBlock == <<FALSE, TRUE, TRUE, FALSE, TRUE>>

Verdict(failing) ==
  IF \E i \in failing : HardBlock[i] THEN "BLOCKED"
  ELSE IF failing # {} THEN "CONDITIONAL" ELSE "CLEAR"

\* apply_hard_constraints: four tests, the last that applies wins.
Constrained(f) ==
  IF \/ f.confidence = "low"
     \/ f.score = "high"
     \/ f.tier = "HIGH" /\ f.confidence # "high"
  THEN "REFER"
  ELSE IF f.verdict = "BLOCKED" THEN "DECLINE" ELSE f.recommendation

\* The event a node raises without.
Needs ==
  [validate_inputs        |-> "ApplicationSubmitted",
   load_credit_result     |-> "CreditAnalysisCompleted",
   load_fraud_result      |-> "FraudScreeningCompleted",
   load_compliance_result |-> "ComplianceCheckCompleted"]

Satisfied(r) ==
  NodeOf(r) \in DOMAIN Needs =>
    LET type == Needs[NodeOf(r)] IN Has(log[StreamOf(type)], type)

\* next(e for e in reversed(events) if e.event_type == type)
Latest(type) ==
  LET s == log[StreamOf(type)]
  IN  s[Max({i \in DOMAIN s : s[i].type = type})]

\* The rules of the company that fail are what the registry makes of them, the
\* answer of the LLM is anything.
Evaluated(f) ==
  {[f EXCEPT !.verdict = Verdict(failing)] : failing \in SUBSET DOMAIN HardBlock}

Synthesized(f) ==
  {[f EXCEPT !.recommendation = x, !.confidence = c] :
     x \in {"APPROVE", "DECLINE", "REFER", "OTHER"}, c \in {"low", "middle", "high"}}

\* What a node can come to know.
Findings(r) ==
  LET f == found[r]
      n == NodeOf(r)
  IN  CASE n = "analyze_credit_risk" ->
             {[f EXCEPT !.tier = t] : t \in {"MEDIUM", "HIGH"}}
        [] n = "analyze_fraud_patterns" ->
             {[f EXCEPT !.score = x] : x \in {"low", "high"}}
        [] n = "evaluate_rules" -> Evaluated(f)
        [] n = "load_credit_result" -> {[f EXCEPT !.tier = Latest(Needs[n]).value]}
        [] n = "load_fraud_result" -> {[f EXCEPT !.score = Latest(Needs[n]).value]}
        [] n = "load_compliance_result" ->
             {[f EXCEPT !.verdict = Latest(Needs[n]).value]}
        [] n = "synthesize_decision" -> Synthesized(f)
        [] n = "apply_hard_constraints" ->
             {[f EXCEPT !.recommendation = Constrained(f)]}
        [] OTHER -> {f}

--------------------------------------------------------------------------------

\* A run waits for the one before it, a recovery for its session to have broken.
CanStart(r) ==
  /\ plan[r].after # Nobody => step[plan[r].after] = "done"
  /\ plan[r].prior # Nobody => step[plan[r].prior] \in {"failed", "crashed"}

\* The session is opened.
Start(r) ==
  /\ step[r] = "idle"
  /\ CanStart(r)
  /\ Tell(r, "AgentSessionStarted")
  /\ GoTo(r, IF plan[r].prior = Nobody THEN "work" ELSE "recover")
  /\ UNCHANGED <<plan, log, node, write, expected, attempt, found, source, written>>

\* A recovery reads the session that broke and says so, and goes through the whole
\* graph all the same.
Recover(r) ==
  /\ step[r] = "recover"
  /\ Tell(r, "AgentSessionRecovered")
  /\ GoTo(r, "work")
  /\ UNCHANGED <<plan, log, node, write, expected, attempt, found, source, written>>

\* AgentNodeExecuted, and on to the next node.
Record(r) ==
  LET last == node[r] = Len(Graph[plan[r].kind])
  IN  /\ Tell(r, NodeOf(r))
      /\ GoTo(r, IF last THEN "complete" ELSE "work")
      /\ node' = IF last THEN node ELSE [node EXCEPT ![r] = @ + 1]
      /\ write' = [write EXCEPT ![r] = 1]
      /\ written' = IF last THEN written ELSE [written EXCEPT ![r] = <<>>]

\* The first node of the document agent, when there are documents.
Uploaded(r) ==
  /\ plan[r].kind = "document"
  /\ NodeOf(r) = "validate_inputs"
  /\ Has(log["loan"], "DocumentUploaded")

\* A node that appends nothing: its reads, its calls and its record.
Investigate(r) ==
  /\ step[r] = "work"
  /\ Satisfied(r)
  /\ Writes(r) = <<>> \/ Uploaded(r)
  /\ \E f \in Findings(r) : found' = [found EXCEPT ![r] = f]
  /\ source' =
       [source EXCEPT ![r] =
          IF NodeOf(r) \in DOMAIN Needs \ {"validate_inputs"}
          THEN @ \cup {Latest(Needs[NodeOf(r)]).by} ELSE @]
  /\ Record(r)
  /\ UNCHANGED <<plan, log, expected, attempt>>

\* A node that appends: everything up to its first read of a version.  The document
\* agent appends at its first node only when nothing was uploaded and it finds a
\* file.
BeginWriting(r) ==
  /\ step[r] = "work"
  /\ Satisfied(r)
  /\ Writes(r) # <<>>
  /\ ~Uploaded(r)
  /\ \E f \in Findings(r) : found' = [found EXCEPT ![r] = f]
  /\ GoTo(r, "version")
  /\ UNCHANGED <<plan, log, session, node, write, expected, attempt, source,
                 written>>

\* stream_version.  An empty stream other than the loan is appended to with -1.
ReadVersion(r) ==
  LET stream == StreamOf(Writes(r)[write[r]])
      version == Len(log[stream])
  IN  /\ step[r] = "version"
      /\ expected' = [expected EXCEPT ![r] =
           IF version = 0 /\ stream # "loan" THEN AnyVersion ELSE version]
      /\ GoTo(r, "append")
      /\ UNCHANGED <<plan, log, session, node, write, attempt, found, source,
                     written>>

\* The orchestrator appends the outcome under the version its decision returned;
\* the others read the version of the next stream.
AppendBatch(r) ==
  LET type == Writes(r)[write[r]]
      stream == StreamOf(type)
      position == NewVersion(r, type)
      more == write[r] < Len(Writes(r))
  IN  /\ step[r] = "append"
      /\ Accepts(stream, expected[r])
      /\ log' = [log EXCEPT ![stream] = @ \o Batch(r, type)]
      /\ written' = [written EXCEPT ![r] =
           Append(@, [type |-> type, position |-> position])]
      /\ write' = IF more THEN [write EXCEPT ![r] = @ + 1] ELSE write
      /\ attempt' = [attempt EXCEPT ![r] = 1]
      /\ expected' = [expected EXCEPT ![r] = position]
      /\ GoTo(r, IF more THEN IF plan[r].kind = "decision" THEN "append" ELSE "version"
                 ELSE IF NodeOf(r) = "write_output" THEN "output" ELSE "record")
      /\ UNCHANGED <<plan, session, node, found, source>>

\* _fail_session, and the exception goes to the caller.
GiveUp(r) == Tell(r, "AgentSessionFailed") /\ GoTo(r, "failed")

\* Only the credit agent appends its results through _append_with_occ.
MayRetry(r) == plan[r].kind = "credit" /\ attempt[r] < MaxAttempts

\* OptimisticConcurrencyError: read the version again, or give up.
Conflict(r) ==
  /\ step[r] = "append"
  /\ ~Accepts(StreamOf(Writes(r)[write[r]]), expected[r])
  /\ \/ /\ MayRetry(r)
        /\ attempt' = [attempt EXCEPT ![r] = @ + 1]
        /\ GoTo(r, "version")
        /\ UNCHANGED session
     \/ /\ ~MayRetry(r)
        /\ GiveUp(r)
        /\ UNCHANGED attempt
  /\ UNCHANGED <<plan, log, node, write, expected, found, source, written>>

\* AgentOutputWritten, with events_written.
RecordOutput(r) ==
  /\ step[r] = "output"
  /\ Tell(r, "AgentOutputWritten")
  /\ GoTo(r, "record")
  /\ UNCHANGED <<plan, log, node, write, expected, attempt, found, source, written>>

RecordNode(r) ==
  /\ step[r] = "record"
  /\ Record(r)
  /\ UNCHANGED <<plan, log, expected, attempt, found, source>>

CompleteSession(r) ==
  /\ step[r] = "complete"
  /\ Tell(r, "AgentSessionCompleted")
  /\ GoTo(r, "done")
  /\ UNCHANGED <<plan, log, node, write, expected, attempt, found, source, written>>

\* A node raises because what it looks for is not there.
RaiseMissing(r) ==
  /\ step[r] = "work"
  /\ \/ ~Satisfied(r)
     \/ /\ plan[r].kind = "document" /\ NodeOf(r) = "validate_inputs"
        /\ ~Uploaded(r)
  /\ GiveUp(r)
  /\ UNCHANGED <<plan, log, node, write, expected, attempt, found, source, written>>

\* The LLM, the registry or the store raises, or the process stops.  What comes before
\* the graph is outside the try: nothing is told of it.
RaiseOther(r) ==
  /\ step[r] \notin Ended \cup {"idle"}
  /\ plan[r].breaks
  /\ \/ step[r] # "recover" /\ GiveUp(r)
     \/ GoTo(r, "crashed") /\ UNCHANGED session
  /\ UNCHANGED <<plan, log, node, write, expected, attempt, found, source, written>>

\* The finite set of runs of an instance is used up.
Quiescent ==
  /\ \A r \in Run : step[r] = "idle" => ~CanStart(r)
  /\ Range(step) \subseteq Ended \cup {"idle"}
  /\ UNCHANGED vars

RunStep(r) ==
  \/ Start(r)
  \/ Recover(r)
  \/ Investigate(r)
  \/ BeginWriting(r)
  \/ ReadVersion(r)
  \/ AppendBatch(r)
  \/ Conflict(r)
  \/ RecordOutput(r)
  \/ RecordNode(r)
  \/ CompleteSession(r)
  \/ RaiseMissing(r)

Next ==
  \/ \E r \in Run : RunStep(r) \/ RaiseOther(r)
  \/ Quiescent

Spec == Init /\ [][Next]_vars

--------------------------------------------------------------------------------

\* An agent is asked for only when the agent before it has delivered: each request on
\* the loan stream follows the result, on another stream, of the very run that made
\* the request, and a decision is requested of results that are not blocked.  A run
\* that stops between its two appends leaves a result without a request, never the
\* reverse.
RequestsFollowResults ==
  LET Cue == [CreditAnalysisRequested  |-> "PackageReadyForAnalysis",
              FraudScreeningRequested  |-> "CreditAnalysisCompleted",
              ComplianceCheckRequested |-> "FraudScreeningCompleted",
              DecisionRequested        |-> "ComplianceCheckCompleted"]
      loan == log["loan"]
  IN  \A i \in DOMAIN loan : loan[i].type \in DOMAIN Cue =>
        LET result == Cue[loan[i].type]
            stream == log[StreamOf(result)]
        IN  \E j \in DOMAIN stream : /\ stream[j].type = result
                                     /\ stream[j].by = loan[i].by
                                     /\ stream[j].value # "BLOCKED"

\* What a session claims to have written is there, at the positions it names, and is
\* its own: rivals, retries and freshly opened streams do not shift them.
OutputsRecorded ==
  \A r \in Run : "AgentOutputWritten" \in Range(session[r]) =>
    \A i \in DOMAIN written[r] :
      LET w == written[r][i]
          stream == log[StreamOf(w.type)]
      IN  /\ w.position \in DOMAIN stream
          /\ stream[w.position] = Event(w.type, r, ValueOf(r, w.type))

\* The session stream of a run as its reader sees it.
Told(r) ==
  LET nodes == Range(Graph[plan[r].kind])
  IN  [i \in DOMAIN session[r] |->
         LET entry == session[r][i]
         IN  [type |-> IF entry \in nodes THEN "AgentNodeExecuted" ELSE entry,
              node |-> entry, app |-> "none"]]

\* Run p has appended an event of the type; a document another run had uploaded is
\* not uploaded again.
Appended(p, type) ==
  \E e \in Range(log[StreamOf(type)]) :
    e.type = type /\ (e.by = p \/ type = "DocumentUploaded")

\* The context a recovery is given is true of the streams the broken session wrote
\* to, although the session records a node only after the appends of that node: what
\* the nodes up to the recovery point append is there, nothing of the nodes behind
\* the one that was under way is, and a failure that was recorded is noticed.
ContextSound ==
  \A r \in Run : plan[r].prior # Nobody /\ session[r] # <<>> =>
    LET p == plan[r].prior
        context == reconstruct_agent_context(Told(p))
        graph == Graph[plan[p].kind]
        reached == {i \in DOMAIN graph : graph[i] = context.last_successful_node}
        point == IF reached = {} THEN 0 ELSE Max(reached)
    IN  /\ IsPrefix(context.executed_nodes, graph)
        /\ \A i \in DOMAIN graph : \A type \in Range(WritesAt(p, graph[i])) :
             /\ i <= point => Appended(p, type)
             /\ i > point + 1 => \A e \in Range(log[StreamOf(type)]) :
                                   e.type = type => e.by # p
        /\ step[p] = "failed" => context.session_health_status = "NEEDS_RECONCILIATION"

\* The result of type that the decision of run r names.
Named(r, type, value) ==
  \E i \in DOMAIN log[StreamOf(type)] :
    LET e == log[StreamOf(type)][i]
    IN  e.type = type /\ e.by \in source[r] /\ e.value = value

\* No approval against the constraints: the results that its decision names hold a
\* compliance verdict, none that is BLOCKED, and a fraud score that is not high,
\* whatever the LLM recommended and however many analyses there are.  Results written
\* after the decision has read its own are not looked at.
ApprovalsJustified ==
  \A i \in DOMAIN log["loan"] : log["loan"][i].type = "ApplicationApproved" =>
    LET r == log["loan"][i].by
    IN  /\ \E j \in DOMAIN log["compliance"] :
             LET e == log["compliance"][j]
             IN  /\ e.type = "ComplianceCheckCompleted"
                 /\ e.by \in source[r] /\ e.value # "BLOCKED"
        /\ ~Named(r, "ComplianceCheckCompleted", "BLOCKED")
        /\ Named(r, "FraudScreeningCompleted", "low")
        /\ \/ Named(r, "CreditAnalysisCompleted", "MEDIUM")
           \/ found[r].confidence = "high"

================================================================================
