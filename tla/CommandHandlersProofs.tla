------------------------- MODULE CommandHandlersProofs --------------------------
(***************************************************************************)
(* Proofs about CommandHandlers, for every set of commands, requests,      *)
(* sessions and model versions: the handlers implement LoanMachine, and    *)
(* the business rules proved of LoanMachine hold of them.                  *)
(***************************************************************************)
EXTENDS CommandHandlers, SequenceTheorems, WellFoundedInduction, TLAPS

--------------------------------------------------------------------------------
(* What LoanMachine means, for every history its atomic writes produce. *)

EventOfType(types) ==
  [type : types, by : Command \cup {Outside}, outcome : Recommendation]

MachineType ==
  /\ loan \in Seq(EventOfType(LoanEventType))
  /\ agent \in [Session -> Seq(EventOfType({"AgentContextLoaded",
                                            "FraudScreeningCompleted"}))]
  /\ cmd \in Requests

\* A credit analysis names a session: it is written by a command.
AnalysedByCommand ==
  \A i \in DOMAIN loan : loan[i].type = "CreditAnalysisCompleted" =>
    loan[i].by \in Command

MachineInv ==
  /\ MachineType
  /\ AnalysedByCommand
  /\ OneCreditAnalysis
  /\ ContextBeforeDecision
  /\ DecisionsJustified

\* Nothing of the old stream is changed or lost in the new one.
Kept(old, new) ==
  /\ DOMAIN old \subseteq DOMAIN new
  /\ \A i \in DOMAIN old : new[i] = old[i]

--------------------------------------------------------------------------------
(* The operators the model is built from. *)

\* A set of positions that is not empty has a last one.
LEMMA LastPosition ==
  ASSUME NEW n \in Nat, NEW S, S \subseteq 1..n, S # {}
  PROVE  Max(S) \in S
<1> DEFINE T == {n - i : i \in S}
<1> DEFINE R == OpToRel(<, Nat)
<1>1. T \subseteq Nat
  <2>1. \A i \in S : i \in 1..n /\ n - i \in Nat
    OBVIOUS
  <2>2. QED
    BY <2>1
<1>2. T # {}
  OBVIOUS
<1>3. PICK m \in T : \A k \in T : ~ (<<k, m>> \in R)
  <2> HIDE DEF T
  <2>1. IsWellFoundedOn(R, Nat)
    BY NatLessThanWellFounded
  <2> HIDE DEF R
  <2>2. QED
    BY <1>1, <1>2, <2>1, WFMin
<1>4. \A k, l \in Nat : <<k, l>> \in R <=> k < l
  BY DEF OpToRel
<1>5. \A k \in T : m <= k
  <2> HIDE DEF R, T
  <2>1. TAKE k \in T
  <2>2. k \in Nat /\ m \in Nat
    BY <1>1
  <2>3. ~(k < m)
    BY <2>2, <1>3, <1>4
  <2>4. QED
    BY <2>2, <2>3
<1>6. PICK i \in S : m = n - i
  OBVIOUS
<1>7. \A j \in S : i >= j
  BY <1>5, <1>6
<1>8. QED
  BY <1>7 DEF Max

\* The model version of a session is one that it declared.
LEMMA ModelWasDeclared ==
  ASSUME NEW S, NEW log \in Seq(S), ContextLoaded(log)
  PROVE  ModelOf(log) \in EverDeclared(log)
<1>1. DOMAIN log = 1..Len(log) /\ Len(log) \in Nat
  OBVIOUS
<1>2. Declarations(log) # {} /\ Declarations(log) \subseteq 1..Len(log)
  BY <1>1 DEF ContextLoaded, Has, Declarations
<1>3. Max(Declarations(log)) \in Declarations(log)
  BY <1>1, <1>2, LastPosition
<1>4. QED
  BY <1>3 DEF ModelOf, EverDeclared

LEMMA DeclaredMeansLoaded ==
  ASSUME NEW log, NEW m \in EverDeclared(log)
  PROVE  ContextLoaded(log)
BY DEF EverDeclared, Declarations, ContextLoaded, Has

LEMMA AppendKeeps ==
  ASSUME NEW S, NEW log \in Seq(S), NEW e \in S
  PROVE  /\ Append(log, e) \in Seq(S)
         /\ Kept(log, Append(log, e))
         /\ DOMAIN Append(log, e) = DOMAIN log \cup {Len(log) + 1}
         /\ Append(log, e)[Len(log) + 1] = e
         /\ Len(Append(log, e)) = Len(log) + 1
BY AppendProperties DEF Kept

LEMMA HasKept ==
  ASSUME NEW old, NEW new, Kept(old, new), NEW type, Has(old, type)
  PROVE  Has(new, type)
BY DEF Kept, Has

\* What a prefix of a stream holds.
LEMMA HasBefore ==
  ASSUME NEW S, NEW log \in Seq(S), NEW i \in 1..(Len(log) + 1), NEW type
  PROVE  Has(SubSeq(log, 1, i - 1), type)
           <=> \E j \in 1..(i - 1) : log[j].type = type
<1> DEFINE p == SubSeq(log, 1, i - 1)
<1>1. \A j \in 1..(i - 1) : log[j] \in S
  OBVIOUS
<1>2. /\ p \in Seq(S)
      /\ Len(p) = i - 1
      /\ \A j \in 1..(i - 1) : p[j] = log[j]
  BY <1>1, SubSeqProperties
<1>3. DOMAIN p = 1..(i - 1)
  BY <1>2
<1> HIDE DEF p
<1>4. QED
  BY <1>2, <1>3 DEF Has, p

\* A prefix of a stream is still one when the stream has grown.
LEMMA PrefixKept ==
  ASSUME NEW S, NEW old \in Seq(S), NEW new \in Seq(S), Kept(old, new),
         NEW i \in DOMAIN old, NEW type, Has(SubSeq(old, 1, i - 1), type)
  PROVE  Has(SubSeq(new, 1, i - 1), type)
<1>1. i \in 1..(Len(old) + 1) /\ i \in 1..(Len(new) + 1)
  BY DEF Kept
<1>2. \A j \in 1..(i - 1) : new[j] = old[j]
  BY DEF Kept
<1>3. PICK j \in 1..(i - 1) : old[j].type = type
  BY <1>1, HasBefore
<1>4. new[j].type = type
  BY <1>2, <1>3
<1>5. QED
  BY <1>1, <1>4, HasBefore

--------------------------------------------------------------------------------

\* A request has the parameters its handler looks at.
LEMMA RequestTyped ==
  ASSUME cmd \in Requests, NEW c \in Command
  PROVE  /\ cmd[c].session \in Session
         /\ cmd[c].outcome \in Recommendation
         /\ cmd[c].contributing \subseteq Session
         /\ cmd[c].kind \in Kind
BY RequestAssumption DEF RequestType

LEMMA EventTyped ==
  ASSUME cmd \in Requests, NEW c \in Command, NEW types, NEW type \in types
  PROVE  EventBy(c, type) \in EventOfType(types)
BY RequestTyped DEF EventBy, EventOfType

\* An event on the loan stream.
LEMMA LoanGrows ==
  ASSUME MachineType, NEW e \in EventOfType(LoanEventType),
         loan' = Append(loan, e), UNCHANGED <<agent, cmd>>
  PROVE  /\ MachineType'
         /\ Kept(loan, loan')
         /\ DOMAIN loan' = DOMAIN loan \cup {Len(loan) + 1}
         /\ loan'[Len(loan) + 1] = e
         /\ Len(loan') = Len(loan) + 1
BY AppendKeeps DEF MachineType

\* An event on the stream of a session.
LEMMA AgentGrows ==
  ASSUME MachineType, NEW s \in Session,
         NEW e \in EventOfType({"AgentContextLoaded", "FraudScreeningCompleted"}),
         agent' = [agent EXCEPT ![s] = Append(@, e)], UNCHANGED <<loan, cmd>>
  PROVE  /\ MachineType'
         /\ \A t \in Session : Kept(agent[t], agent'[t])
         /\ DOMAIN agent'[s] = DOMAIN agent[s] \cup {Len(agent[s]) + 1}
         /\ agent'[s][Len(agent[s]) + 1] = e
         /\ \A t \in Session \ {s} : agent'[t] = agent[t]
<1>1. agent'[s] = Append(agent[s], e)
  BY DEF MachineType
<1>2. \A t \in Session \ {s} : agent'[t] = agent[t]
  BY DEF MachineType
<1>3. \A t \in Session \ {s} : Kept(agent[t], agent'[t])
  BY <1>2 DEF Kept
<1>4. /\ agent'[s] \in Seq(EventOfType({"AgentContextLoaded", "FraudScreeningCompleted"}))
      /\ Kept(agent[s], agent'[s])
      /\ DOMAIN agent'[s] = DOMAIN agent[s] \cup {Len(agent[s]) + 1}
      /\ agent'[s][Len(agent[s]) + 1] = e
  BY <1>1, AppendKeeps DEF MachineType
<1>5. MachineType'
  BY <1>4 DEF MachineType
<1>6. QED
  BY <1>2, <1>3, <1>4, <1>5

\* Whatever tied a session to the loan stays.
LEMMA SessionsStay ==
  ASSUME MachineType, UNCHANGED cmd, Kept(loan, loan'),
         \A s \in Session : Kept(agent[s], agent'[s])
  PROVE  SessionsWithDecisions \subseteq SessionsWithDecisions'
<1>1. SUFFICES ASSUME NEW s \in SessionsWithDecisions PROVE s \in SessionsWithDecisions'
  OBVIOUS
<1>2. CASE Has(agent[s], "FraudScreeningCompleted")
  BY <1>1, <1>2, HasKept DEF SessionsWithDecisions
<1>3. CASE \E i \in DOMAIN loan :
             loan[i].type = "CreditAnalysisCompleted" /\ SessionOf(loan[i]) = s
  BY <1>1, <1>3 DEF SessionsWithDecisions, SessionOf, Kept
<1>4. QED
  BY <1>1, <1>2, <1>3 DEF SessionsWithDecisions

--------------------------------------------------------------------------------
(* The steps.  Every one of them appends one event to one stream. *)

LEMMA InitMachineInv == MachineInit => MachineInv
<1> SUFFICES ASSUME MachineInit PROVE MachineInv
  OBVIOUS
<1>1. loan = <<>> /\ agent = [s \in Session |-> <<>>] /\ cmd \in Requests
  BY DEF MachineInit
<1>2. \A s \in Session : agent[s] = <<>>
  BY <1>1
<1>3. DOMAIN <<>> = {}
  OBVIOUS
<1>4. MachineType
  BY <1>1 DEF MachineType
<1>5. QED
  BY <1>1, <1>2, <1>3, <1>4
  DEF MachineInv, AnalysedByCommand, OneCreditAnalysis, ContextBeforeDecision,
      DecisionsJustified

\* An event on a session's stream: fine, if a screening finds the context loaded.
LEMMA AgentEventInv ==
  ASSUME MachineInv, NEW c \in Command,
         NEW type \in {"AgentContextLoaded", "FraudScreeningCompleted"},
         AgentEvent(c, type),
         type = "FraudScreeningCompleted" => ContextLoaded(agent[cmd[c].session])
  PROVE  MachineInv'
<1> DEFINE s == cmd[c].session
           e == EventBy(c, type)
<1> USE DEF MachineInv
<1>1. s \in Session /\ e \in EventOfType({"AgentContextLoaded", "FraudScreeningCompleted"})
  BY RequestTyped, EventTyped DEF MachineType
<1>2. UNCHANGED <<loan, cmd>> /\ agent' = [agent EXCEPT ![s] = Append(@, e)]
  BY DEF AgentEvent
<1>3. /\ MachineType'
      /\ \A t \in Session : Kept(agent[t], agent'[t])
      /\ DOMAIN agent'[s] = DOMAIN agent[s] \cup {Len(agent[s]) + 1}
      /\ agent'[s][Len(agent[s]) + 1] = e
      /\ \A t \in Session \ {s} : agent'[t] = agent[t]
  BY <1>1, <1>2, AgentGrows
<1>4. AnalysedByCommand' /\ OneCreditAnalysis'
  BY <1>2 DEF AnalysedByCommand, OneCreditAnalysis
<1>5. DecisionsJustified'
  <2>1. SessionsWithDecisions \subseteq SessionsWithDecisions'
    BY <1>2, <1>3, SessionsStay DEF Kept
  <2>2. QED
    BY <1>2, <2>1 DEF DecisionsJustified
<1>6. ContextBeforeDecision'
  <2>1. ASSUME NEW t \in Session, NEW i \in DOMAIN agent'[t],
               agent'[t][i].type = "FraudScreeningCompleted"
        PROVE  ContextLoaded(SubSeq(agent'[t], 1, i - 1))
    <3>1. CASE i \in DOMAIN agent[t]
      <4>1. Kept(agent[t], agent'[t])
        BY <1>3
      <4>2. agent[t][i].type = "FraudScreeningCompleted"
        BY <2>1, <3>1, <4>1 DEF Kept
      <4>3. ContextLoaded(SubSeq(agent[t], 1, i - 1))
        BY <3>1, <4>2 DEF ContextBeforeDecision
      <4>4. QED
        BY <1>3, <3>1, <4>1, <4>3, PrefixKept DEF ContextLoaded, MachineType
    <3>2. CASE i \notin DOMAIN agent[t]
      <4>1. t = s /\ i = Len(agent[s]) + 1
        BY <1>3, <2>1, <3>2
      <4>2. ContextLoaded(agent[s])
        BY <1>3, <2>1, <4>1 DEF EventBy
      <4>3. PICK j \in DOMAIN agent[s] : agent[s][j].type = "AgentContextLoaded"
        BY <4>2 DEF ContextLoaded, Has
      <4>4. j \in 1..(i - 1) /\ i \in 1..(Len(agent'[s]) + 1)
        BY <1>1, <1>3, <2>1, <4>1, <4>3 DEF MachineType
      <4>5. agent'[s][j].type = "AgentContextLoaded"
        BY <1>1, <1>3, <4>3 DEF Kept
      <4>6. agent'[s] \in Seq(EventOfType({"AgentContextLoaded", "FraudScreeningCompleted"}))
        BY <1>1, <1>3 DEF MachineType
      <4>7. Has(SubSeq(agent'[s], 1, i - 1), "AgentContextLoaded")
        BY <4>4, <4>5, <4>6, HasBefore
      <4>8. QED
        BY <4>1, <4>7 DEF ContextLoaded
    <3>3. QED
      BY <3>1, <3>2
  <2>2. ASSUME NEW i \in DOMAIN loan', loan'[i].type = "CreditAnalysisCompleted"
        PROVE  ContextLoaded(agent'[cmd'[loan'[i].by].session])
    <3>1. loan[i].by \in Command /\ ContextLoaded(agent[cmd[loan[i].by].session])
      BY <1>2, <2>2 DEF AnalysedByCommand, ContextBeforeDecision, SessionOf
    <3>2. cmd[loan[i].by].session \in Session
      BY <3>1, RequestTyped DEF MachineType
    <3>3. QED
      BY <1>2, <1>3, <3>1, <3>2, HasKept DEF ContextLoaded
  <2>3. QED
    BY <2>1, <2>2 DEF ContextBeforeDecision, SessionOf
<1>7. QED
  BY <1>3, <1>4, <1>5, <1>6

\* An event on the loan: a credit analysis and a decision need their guards.
LEMMA LoanEventInv ==
  ASSUME MachineInv, NEW e \in EventOfType(LoanEventType),
         loan' = Append(loan, e), UNCHANGED <<agent, cmd>>,
         e.type = "CreditAnalysisCompleted" =>
           /\ e.by \in Command
           /\ ~CreditAnalysisLocked(loan)
           /\ ContextLoaded(agent[SessionOf(e)]),
         e.type = "DecisionGenerated" =>
           /\ ClearanceIssued(loan)
           /\ cmd[e.by].confident \/ e.outcome = "REFER"
           /\ cmd[e.by].contributing \subseteq SessionsWithDecisions
  PROVE  MachineInv'
<1> USE DEF MachineInv
<1> DEFINE n == Len(loan) + 1
<1>1. /\ MachineType'
      /\ Kept(loan, loan')
      /\ DOMAIN loan' = DOMAIN loan \cup {n}
      /\ loan'[n] = e
      /\ Len(loan') = n
  BY LoanGrows
<1>2. \A i \in DOMAIN loan' : i # n => i \in DOMAIN loan /\ loan'[i] = loan[i]
  BY <1>1 DEF Kept
<1>3. n \notin DOMAIN loan /\ n \in 1..(Len(loan') + 1) /\ DOMAIN loan = 1..Len(loan)
  BY <1>1 DEF MachineType
<1>4. AnalysedByCommand'
  BY <1>1, <1>2 DEF AnalysedByCommand
<1>5. OneCreditAnalysis'
  BY <1>1, <1>2 DEF OneCreditAnalysis, CreditAnalysisLocked, Has
<1>6. ContextBeforeDecision'
  <2>1. \A i \in DOMAIN loan' :
          loan'[i].type = "CreditAnalysisCompleted" =>
            ContextLoaded(agent[cmd[loan'[i].by].session])
    BY <1>1, <1>2 DEF ContextBeforeDecision, SessionOf
  <2>2. QED
    BY <2>1 DEF ContextBeforeDecision, SessionOf
<1>7. DecisionsJustified'
  <2>1. SessionsWithDecisions \subseteq SessionsWithDecisions'
    BY <1>1, SessionsStay DEF Kept
  <2>2. ASSUME NEW i \in DOMAIN loan', loan'[i].type = "DecisionGenerated"
        PROVE  /\ ClearanceIssued(SubSeq(loan', 1, i - 1))
               /\ cmd[loan'[i].by].confident \/ loan'[i].outcome = "REFER"
               /\ cmd[loan'[i].by].contributing \subseteq SessionsWithDecisions
    <3>1. CASE i = n
      <4>1. PICK j \in DOMAIN loan : loan[j].type = "ComplianceClearanceIssued"
        BY <1>1, <2>2, <3>1 DEF ClearanceIssued, Has
      <4>2. j \in 1..(n - 1) /\ loan'[j].type = "ComplianceClearanceIssued"
        BY <1>1, <1>3, <4>1 DEF Kept, MachineType
      <4>3. ClearanceIssued(SubSeq(loan', 1, n - 1))
        BY <1>1, <1>3, <4>2, HasBefore DEF ClearanceIssued, MachineType
      <4>4. QED
        BY <1>1, <2>2, <3>1, <4>3
    <3>2. CASE i # n
      <4>1. i \in DOMAIN loan /\ loan'[i] = loan[i]
        BY <1>2, <3>2
      <4>2. ClearanceIssued(SubSeq(loan, 1, i - 1))
        BY <2>2, <4>1 DEF DecisionsJustified
      <4>3. ClearanceIssued(SubSeq(loan', 1, i - 1))
        BY <1>1, <4>1, <4>2, PrefixKept DEF ClearanceIssued, MachineType
      <4>4. QED
        BY <2>2, <4>1, <4>3 DEF DecisionsJustified
    <3>3. QED
      BY <3>1, <3>2
  <2>3. QED
    BY <2>1, <2>2 DEF DecisionsJustified
<1>8. QED
  BY <1>1, <1>4, <1>5, <1>6, <1>7

LEMMA MachineStepInv == MachineInv /\ [MachineNext]_machine => MachineInv'
<1> SUFFICES ASSUME MachineInv, [MachineNext]_machine PROVE MachineInv'
  OBVIOUS
<1>0. cmd \in Requests /\ MachineType
  BY DEF MachineInv, MachineType
<1>1. \A type : type = "CreditAnalysisRequested" \/ type = "ComplianceClearanceIssued"
        => [type |-> type, by |-> Outside, outcome |-> "REFER"] \in EventOfType(LoanEventType)
  BY DEF EventOfType, LoanEventType, StateOn, Recommendation
<1>2. \A c \in Command : \A type \in LoanEventType :
        LoanEvent(c, type) =>
          /\ EventBy(c, type) \in EventOfType(LoanEventType)
          /\ loan' = Append(loan, EventBy(c, type))
          /\ UNCHANGED <<agent, cmd>>
  BY <1>0, EventTyped DEF LoanEvent
<1>3. ASSUME NEW c \in Command, NEW type \in LoanEventType, LoanEvent(c, type),
             type \notin {"CreditAnalysisCompleted", "DecisionGenerated"}
      PROVE  MachineInv'
  BY <1>2, <1>3, LoanEventInv DEF EventBy
<1>4. {"ApplicationSubmitted", "FraudScreeningRequested", "ComplianceCheckRequested",
       "HumanReviewCompleted", "CreditAnalysisCompleted", "DecisionGenerated"}
        \subseteq LoanEventType
  BY DEF LoanEventType, StateOn
<1>5. ASSUME NEW c \in Command, Submit(c) PROVE MachineInv'
  BY <1>3, <1>4, <1>5 DEF Submit
<1>6. ASSUME NEW c \in Command, StartSession(c) PROVE MachineInv'
  BY <1>6, AgentEventInv DEF StartSession
<1>7. ASSUME NEW c \in Command, CompleteCredit(c) PROVE MachineInv'
  <2> DEFINE e == EventBy(c, "CreditAnalysisCompleted")
  <2>1. /\ e \in EventOfType(LoanEventType)
        /\ loan' = Append(loan, e)
        /\ UNCHANGED <<agent, cmd>>
    BY <1>2, <1>4, <1>7 DEF CompleteCredit
  <2>2. ~CreditAnalysisLocked(loan)
    BY <1>7 DEF CompleteCredit, MayCompleteCredit
  <2>3. ContextLoaded(agent[SessionOf(e)])
    BY <1>7, DeclaredMeansLoaded DEF CompleteCredit, SessionOf, EventBy
  <2>4. e.by = c /\ e.type = "CreditAnalysisCompleted"
    BY DEF EventBy
  <2> HIDE DEF e
  <2>5. QED
    BY <2>1, <2>2, <2>3, <2>4, LoanEventInv
<1>8. ASSUME NEW c \in Command, RequestFraud(c) PROVE MachineInv'
  BY <1>3, <1>4, <1>8 DEF RequestFraud
<1>9. ASSUME NEW c \in Command, Screen(c) PROVE MachineInv'
  BY <1>9, AgentEventInv DEF Screen
<1>10. ASSUME NEW c \in Command, RequestCompliance(c) PROVE MachineInv'
  BY <1>3, <1>4, <1>10 DEF RequestCompliance
<1>11. ASSUME NEW c \in Command, DecideLoan(c) PROVE MachineInv'
  <2> DEFINE e == EventBy(c, "DecisionGenerated")
  <2>1. /\ e \in EventOfType(LoanEventType)
        /\ loan' = Append(loan, e)
        /\ UNCHANGED <<agent, cmd>>
    BY <1>2, <1>4, <1>11 DEF DecideLoan
  <2>2. /\ ClearanceIssued(loan)
        /\ cmd[c].confident \/ cmd[c].outcome = "REFER"
        /\ cmd[c].contributing \subseteq SessionsWithDecisions
    BY <1>11 DEF DecideLoan, MayDecide
  <2>3. e.by = c /\ e.type = "DecisionGenerated" /\ e.outcome = cmd[c].outcome
    BY DEF EventBy
  <2> HIDE DEF e
  <2>4. QED
    BY <2>1, <2>2, <2>3, LoanEventInv
<1>12. ASSUME NEW c \in Command, Review(c) PROVE MachineInv'
  BY <1>3, <1>4, <1>12 DEF Review
<1>13. ASSUME NEW type \in {"CreditAnalysisRequested", "ComplianceClearanceIssued"},
              AppendOutside(type)
       PROVE  MachineInv'
  BY <1>1, <1>13, LoanEventInv DEF AppendOutside
<1>14. CASE UNCHANGED machine
  <2>1. UNCHANGED <<loan, agent, cmd>>
    BY <1>14 DEF machine
  <2>2. QED
    BY <2>1 DEF MachineInv, MachineType, AnalysedByCommand, OneCreditAnalysis,
      ContextBeforeDecision, DecisionsJustified, SessionsWithDecisions, SessionOf
<1>15. QED
  BY <1>5, <1>6, <1>7, <1>8, <1>9, <1>10, <1>11, <1>12, <1>13, <1>14 DEF MachineNext

\* What the business rules promise of one loan application.
THEOREM RulesHold == MachineSpec => []MachineInv
<1>1. MachineInit => MachineInv
  BY InitMachineInv
<1>2. MachineInv /\ [MachineNext]_machine => MachineInv'
  BY MachineStepInv
<1>3. QED
  BY <1>1, <1>2, PTL DEF MachineSpec

--------------------------------------------------------------------------------
(* The handlers, statement by statement. *)

\* A handler acts on a version its stream has had.
Past(c) ==
  /\ cmd[c].kind # "rule" => seen[c] <= Len(loan)
  /\ read[c] <= Len(agent[cmd[c].session])

\* What a handler found out by the line it is at still holds, as long as the
\* version it read is the version of its stream; what it found out of streams that
\* its append does not name holds whatever was appended to them.
Holding(c) ==
  LET log == agent[cmd[c].session]
      current == Len(loan) = seen[c]
  IN  /\ At(c, {"credit"}, "append") =>
           /\ cmd[c].model \in EverDeclared(log)
           /\ current => MayCompleteCredit(loan)
      /\ At(c, {"credit"}, "append2") =>
           (current => loan # <<>> /\ Last(loan) = EventBy(c, "CreditAnalysisCompleted"))
      /\ At(c, {"fraud"}, "append") =>
           (Len(log) = read[c] => ContextLoaded(log) /\ ModelOf(log) = cmd[c].model)
      /\ At(c, {"fraud"}, "loan") \/ At(c, {"fraud"}, "append2") =>
           Has(log, "FraudScreeningCompleted")
      /\ At(c, {"fraud"}, "append2") => (current => MayRequestCompliance(loan))
      /\ At(c, {"compliance"}, "append") => (current => MayRequestComplianceCheck(loan))
      /\ At(c, {"decision"}, "session") \/ At(c, {"decision"}, "append") =>
           (current => MayDecide(loan, cmd[c].confident, cmd[c].outcome))
      /\ At(c, {"decision"}, "append") =>
           cmd[c].contributing \subseteq SessionsWithDecisions
      /\ At(c, {"review"}, "append") =>
           cmd[c].explained /\ (current => MayReview(loan))

IInv ==
  /\ TypeOK
  /\ \A c \in Command : Past(c) /\ Holding(c)

--------------------------------------------------------------------------------
(* Steps. *)

Grown(old, new) == new = old \/ (Kept(old, new) /\ Len(new) = Len(old) + 1)

StreamsGrow ==
  /\ UNCHANGED cmd
  /\ Grown(loan, loan')
  /\ \A s \in Session : Grown(agent[s], agent'[s])

\* A step of command c, but for what c knows after it.
StepOf(c) ==
  /\ TypeOK'
  /\ StreamsGrow
  /\ \A d \in Command \ {c} : pc'[d] = pc[d] /\ seen'[d] = seen[d] /\ read'[d] = read[d]
  /\ Past(c)'
  /\ [MachineNext]_machine

LEMMA TypeIsMachineType == TypeOK => MachineType
BY DEF TypeOK, MachineType, EventOf, EventOfType

LEMMA InitIInv == Init => IInv
<1> SUFFICES ASSUME Init PROVE IInv
  OBVIOUS
<1> USE DEF Init, MachineInit
<1>1. TypeOK
  BY HandlersAssumption DEF TypeOK, PC
<1>2. ASSUME NEW c \in Command PROVE Past(c) /\ Holding(c)
  <2>1. cmd[c].session \in Session
    BY RequestTyped
  <2>2. agent[cmd[c].session] = <<>> /\ Len(<<>>) = 0
    BY <2>1
  <2>3. Past(c)
    BY <2>2 DEF Past
  <2>4. pc[c] = "start"
    OBVIOUS
  <2>5. Holding(c)
    BY <2>4 DEF Holding, At
  <2>6. QED
    BY <2>3, <2>5
<1>3. QED
  BY <1>1, <1>2 DEF IInv

\* What a command knows stands while others work.
LEMMA OthersKeep ==
  ASSUME IInv, NEW d \in Command, StreamsGrow,
         pc'[d] = pc[d], seen'[d] = seen[d], read'[d] = read[d]
  PROVE  Past(d)' /\ Holding(d)'
<1> DEFINE s == cmd[d].session
<1>1. s \in Session /\ MachineType /\ cmd' = cmd
  BY TypeIsMachineType, RequestTyped DEF IInv, TypeOK, StreamsGrow
<1>2. /\ Len(loan) \in Nat /\ Len(agent[s]) \in Nat
      /\ seen[d] \in Nat /\ read[d] \in Nat
  BY <1>1 DEF MachineType, IInv, TypeOK
<1>3. /\ loan' = loan \/ Len(loan') = Len(loan) + 1
      /\ agent'[s] = agent[s] \/ Len(agent'[s]) = Len(agent[s]) + 1
  BY <1>1 DEF StreamsGrow, Grown
<1>4. Past(d) /\ Holding(d)
  BY DEF IInv
<1>5. Past(d)'
  BY <1>1, <1>2, <1>3, <1>4 DEF Past
<1>6. cmd[d].kind # "rule" /\ Len(loan') = seen[d] => loan' = loan /\ Len(loan) = seen[d]
  BY <1>2, <1>3, <1>4 DEF Past
<1>7. Len(agent'[s]) = read[d] => agent'[s] = agent[s]
  BY <1>2, <1>3, <1>4 DEF Past
<1>8. Kept(loan, loan') /\ \A t \in Session : Kept(agent[t], agent'[t])
  BY DEF StreamsGrow, Grown, Kept
<1>9. Has(agent[s], "FraudScreeningCompleted") => Has(agent'[s], "FraudScreeningCompleted")
  BY <1>1, <1>8, HasKept
<1>10. EverDeclared(agent[s]) \subseteq EverDeclared(agent[s])'
  BY <1>1, <1>8 DEF EverDeclared, Declarations, Kept
<1>11. SessionsWithDecisions \subseteq SessionsWithDecisions'
  BY <1>1, <1>8, SessionsStay
<1>12. \A kinds, label : At(d, kinds, label)' = At(d, kinds, label)
  BY <1>1 DEF At
<1>13. (At(d, {"credit"}, "append") =>
          /\ cmd[d].model \in EverDeclared(agent[s])
          /\ Len(loan) = seen[d] => MayCompleteCredit(loan))'
  BY <1>1, <1>4, <1>6, <1>10 DEF Holding, At
<1>14. (At(d, {"credit"}, "append2") =>
          (Len(loan) = seen[d] =>
            loan # <<>> /\ Last(loan) = EventBy(d, "CreditAnalysisCompleted")))'
  BY <1>1, <1>4, <1>6 DEF Holding, At, EventBy
<1>15. (At(d, {"fraud"}, "append") =>
          (Len(agent[s]) = read[d] =>
            ContextLoaded(agent[s]) /\ ModelOf(agent[s]) = cmd[d].model))'
  BY <1>1, <1>4, <1>7 DEF Holding, At, ModelOf, Declarations
<1>16. (/\ At(d, {"fraud"}, "loan") \/ At(d, {"fraud"}, "append2") =>
             Has(agent[s], "FraudScreeningCompleted")
        /\ At(d, {"fraud"}, "append2") =>
             (Len(loan) = seen[d] => MayRequestCompliance(loan)))'
  BY <1>1, <1>4, <1>6, <1>9 DEF Holding, At
<1>17. (/\ At(d, {"compliance"}, "append") =>
             (Len(loan) = seen[d] => MayRequestComplianceCheck(loan))
        /\ At(d, {"review"}, "append") =>
             cmd[d].explained /\ (Len(loan) = seen[d] => MayReview(loan)))'
  BY <1>1, <1>4, <1>6 DEF Holding, At
<1>18. (/\ At(d, {"decision"}, "session") \/ At(d, {"decision"}, "append") =>
             (Len(loan) = seen[d] => MayDecide(loan, cmd[d].confident, cmd[d].outcome))
        /\ At(d, {"decision"}, "append") =>
             cmd[d].contributing \subseteq SessionsWithDecisions)'
  BY <1>1, <1>4, <1>6, <1>11 DEF Holding, At
<1>19. QED
  BY <1>5, <1>13, <1>14, <1>15, <1>16, <1>17, <1>18 DEF Holding

LEMMA StepInv ==
  ASSUME IInv, NEW c \in Command, StepOf(c), Holding(c)'
  PROVE  IInv'
<1>1. \A d \in Command \ {c} : Past(d)' /\ Holding(d)'
  BY OthersKeep DEF StepOf
<1>2. QED
  BY <1>1 DEF IInv, StepOf

LEMMA Unmoved ==
  ASSUME TypeOK, UNCHANGED machine
  PROVE  StreamsGrow /\ [MachineNext]_machine /\ UNCHANGED <<loan, agent, cmd>>
BY DEF machine, StreamsGrow, Grown

LEMMA LoanEventGrows ==
  ASSUME TypeOK, NEW c \in Command, NEW type \in LoanEventType, LoanEvent(c, type)
  PROVE  /\ StreamsGrow
         /\ loan' \in Seq(EventOf(LoanEventType)) /\ agent' = agent /\ cmd' = cmd
         /\ loan' # <<>> /\ Last(loan') = EventBy(c, type)
         /\ Len(loan') = Len(loan) + 1
<1>1. EventBy(c, type) \in EventOf(LoanEventType) /\ loan \in Seq(EventOf(LoanEventType))
  BY EventTyped DEF TypeOK, EventOf, EventOfType
<1>2. loan' = Append(loan, EventBy(c, type)) /\ agent' = agent /\ cmd' = cmd
  BY DEF LoanEvent
<1>3. /\ loan' \in Seq(EventOf(LoanEventType))
      /\ Kept(loan, loan')
      /\ Len(loan') = Len(loan) + 1
      /\ loan'[Len(loan) + 1] = EventBy(c, type)
  BY <1>1, <1>2, AppendKeeps
<1>4. loan' # <<>> /\ Last(loan') = EventBy(c, type)
  BY <1>1, <1>3 DEF Last
<1>5. QED
  BY <1>2, <1>3, <1>4 DEF StreamsGrow, Grown

LEMMA AgentEventGrows ==
  ASSUME TypeOK, NEW c \in Command,
         NEW type \in {"AgentContextLoaded", "FraudScreeningCompleted"},
         AgentEvent(c, type)
  PROVE  /\ StreamsGrow
         /\ agent' \in [Session -> Seq(EventOf({"AgentContextLoaded",
                                                "FraudScreeningCompleted"}))]
         /\ loan' = loan /\ cmd' = cmd
         /\ Has(agent'[cmd[c].session], type)
<1> DEFINE s == cmd[c].session
           e == EventBy(c, type)
<1>1. /\ s \in Session
      /\ e \in EventOfType({"AgentContextLoaded", "FraudScreeningCompleted"})
      /\ MachineType
  BY RequestTyped, EventTyped, TypeIsMachineType DEF TypeOK
<1>2. loan' = loan /\ cmd' = cmd /\ agent' = [agent EXCEPT ![s] = Append(@, e)]
  BY DEF AgentEvent
<1>3. /\ MachineType'
      /\ \A t \in Session : Kept(agent[t], agent'[t])
      /\ DOMAIN agent'[s] = DOMAIN agent[s] \cup {Len(agent[s]) + 1}
      /\ agent'[s][Len(agent[s]) + 1] = e
      /\ \A t \in Session \ {s} : agent'[t] = agent[t]
  BY <1>1, <1>2, AgentGrows
<1>4. Len(agent'[s]) = Len(agent[s]) + 1
  BY <1>1, <1>2, AppendKeeps DEF MachineType
<1>5. Has(agent'[s], type)
  BY <1>3 DEF Has, EventBy
<1>6. QED
  BY <1>2, <1>3, <1>4, <1>5 DEF StreamsGrow, Grown, MachineType, EventOf, EventOfType

LEMMA LoadLoanStep ==
  ASSUME IInv, NEW c \in Command, NEW guard, NEW label \in PC, LoadLoan(c, guard, label)
  PROVE  /\ StepOf(c)
         /\ UNCHANGED <<loan, agent, cmd>>
         /\ pc'[c] = IF guard THEN label ELSE "rejected"
<1>1. /\ UNCHANGED <<loan, agent, cmd>> /\ StreamsGrow /\ [MachineNext]_machine
  BY Unmoved DEF IInv, LoadLoan
<1>2. Len(loan) \in Nat /\ Past(c)
  BY DEF IInv, TypeOK
<1>3. TypeOK'
  BY <1>1, <1>2 DEF LoadLoan, Check, IInv, TypeOK, PC, Finished
<1>4. Past(c)'
  BY <1>1, <1>2 DEF LoadLoan, Past, IInv, TypeOK
<1>5. QED
  BY <1>1, <1>3, <1>4 DEF StepOf, LoadLoan, Check, IInv, TypeOK

LEMMA LoadSessionStep ==
  ASSUME IInv, NEW c \in Command, NEW guard, NEW label \in PC, LoadSession(c, guard, label)
  PROVE  /\ StepOf(c)
         /\ UNCHANGED <<loan, agent, cmd, seen>>
         /\ pc'[c] = IF guard THEN label ELSE "rejected"
<1>1. /\ UNCHANGED <<loan, agent, cmd>> /\ StreamsGrow /\ [MachineNext]_machine
  BY Unmoved DEF IInv, LoadSession
<1>2. /\ Len(agent[cmd[c].session]) \in Nat
      /\ Past(c)
  BY RequestTyped DEF IInv, TypeOK
<1>3. TypeOK'
  BY <1>1, <1>2 DEF LoadSession, Check, IInv, TypeOK, PC, Finished
<1>4. Past(c)'
  BY <1>1, <1>2 DEF LoadSession, Past, IInv, TypeOK
<1>5. QED
  BY <1>1, <1>3, <1>4 DEF StepOf, LoadSession, Check, IInv, TypeOK

LEMMA ConflictStep ==
  ASSUME IInv, NEW c \in Command, Conflict(c)
  PROVE  StepOf(c) /\ Holding(c)'
<1>1. /\ UNCHANGED <<loan, agent, cmd>> /\ StreamsGrow /\ [MachineNext]_machine
  BY Unmoved DEF IInv, Conflict
<1>2. pc' \in [Command -> PC] /\ pc'[c] \in {"start", "conflict"}
      /\ \A d \in Command \ {c} : pc'[d] = pc[d]
  BY DEF Conflict, GoTo, IInv, TypeOK, PC, Finished
<1>3. attempt' \in [Command -> 1..MaxRetries]
  <2>1. CASE UNCHANGED attempt
    BY <2>1 DEF IInv, TypeOK
  <2>2. CASE RetriesLeft(c) /\ attempt' = [attempt EXCEPT ![c] = @ + 1]
    BY <2>2, HandlersAssumption DEF IInv, TypeOK, RetriesLeft
  <2>3. QED
    BY <2>1, <2>2 DEF Conflict
<1>4. UNCHANGED <<compliance, seen, read>>
  BY DEF Conflict
<1>5. TypeOK'
  BY <1>1, <1>2, <1>3, <1>4 DEF IInv, TypeOK
<1>6. Past(c)'
  BY <1>1, <1>4 DEF Past, IInv
<1>7. Holding(c)'
  BY <1>2 DEF Holding, At, Finished
<1>8. QED
  BY <1>1, <1>2, <1>4, <1>5, <1>6, <1>7 DEF StepOf

\* An append goes through only under the version its guards were checked on.
LEMMA AppendLoanStep ==
  ASSUME IInv, NEW c \in Command, NEW type \in LoanEventType, NEW label \in PC,
         AppendLoan(c, type, label),
         VersionMatches(c) /\ LoanEvent(c, type) => MachineNext
  PROVE  /\ StepOf(c)
         /\ \/ Holding(c)'
            \/ pc'[c] = label /\ loan' # <<>> /\ Last(loan') = EventBy(c, type)'
<1>1. CASE Conflict(c)
  BY <1>1, ConflictStep
<1>2. CASE /\ VersionMatches(c)
           /\ LoanEvent(c, type)
           /\ seen' = [seen EXCEPT ![c] = NewVersion(c)]
           /\ GoTo(c, label)
           /\ UNCHANGED <<compliance, read, attempt>>
  <2>1. /\ StreamsGrow
        /\ loan' \in Seq(EventOf(LoanEventType)) /\ agent' = agent /\ cmd' = cmd
        /\ loan' # <<>> /\ Last(loan') = EventBy(c, type)
        /\ Len(loan') = Len(loan) + 1
    BY <1>2, LoanEventGrows DEF IInv
  <2>2. MachineNext
    BY <1>2
  <2>3. TypeOK'
    BY <1>2, <2>1 DEF IInv, TypeOK, GoTo, NewVersion
  <2>4. Past(c)'
    BY <1>2, <2>1 DEF IInv, TypeOK, Past, NewVersion, VersionMatches
  <2>5. \A d \in Command \ {c} : pc'[d] = pc[d] /\ seen'[d] = seen[d] /\ read'[d] = read[d]
    BY <1>2 DEF GoTo, IInv, TypeOK
  <2>6. pc'[c] = label /\ EventBy(c, type)' = EventBy(c, type)
    BY <1>2, <2>1 DEF GoTo, IInv, TypeOK, EventBy
  <2>7. QED
    BY <2>1, <2>2, <2>3, <2>4, <2>5, <2>6 DEF StepOf
<1>3. QED
  BY <1>1, <1>2 DEF AppendLoan

--------------------------------------------------------------------------------
(* The handlers, each of whose steps keeps IInv and is a step of LoanMachine. *)

LEMMA EventTypes ==
  {"ApplicationSubmitted", "CreditAnalysisRequested", "CreditAnalysisCompleted",
   "FraudScreeningRequested", "ComplianceCheckRequested", "ComplianceClearanceIssued",
   "DecisionGenerated", "HumanReviewCompleted"} \subseteq LoanEventType
BY DEF LoanEventType, StateOn

LEMMA Labels ==
  {"start", "session", "append", "loan", "append2",
   "done", "rejected", "conflict", "failed"} \subseteq PC
BY DEF PC, Finished

LEMMA SubmitApplicationStep ==
  ASSUME IInv, NEW c \in Command, SubmitApplication(c)
  PROVE  IInv' /\ [MachineNext]_machine
<1> USE DEF SubmitApplication, Submit, GoTo
<1>1. /\ StreamsGrow /\ Len(loan') = Len(loan) + 1
      /\ loan' \in Seq(EventOf(LoanEventType)) /\ agent' = agent /\ cmd' = cmd
  BY EventTypes, LoanEventGrows DEF IInv
<1>2. TypeOK' /\ pc'[c] = "done"
  BY <1>1, Labels DEF IInv, TypeOK
<1>3. Past(c)'
  BY <1>1 DEF IInv, TypeOK, Past
<1>4. MachineNext
  BY DEF MachineNext, At
<1>5. StepOf(c)
  BY <1>1, <1>2, <1>3, <1>4 DEF StepOf, IInv, TypeOK
<1>6. Holding(c)'
  BY <1>2 DEF Holding, At
<1>7. QED
  BY <1>5, <1>6, StepInv DEF StepOf

LEMMA StartAgentSessionStep ==
  ASSUME IInv, NEW c \in Command, StartAgentSession(c)
  PROVE  IInv' /\ [MachineNext]_machine
<1> USE DEF StartAgentSession, StartSession, GoTo
<1>1. /\ StreamsGrow /\ loan' = loan /\ cmd' = cmd
      /\ agent' \in [Session -> Seq(EventOf({"AgentContextLoaded",
                                             "FraudScreeningCompleted"}))]
  BY AgentEventGrows DEF IInv
<1>2. TypeOK' /\ pc'[c] = "done"
  BY <1>1, Labels DEF IInv, TypeOK
<1>3. Past(c)'
  <2>1. cmd[c].session \in Session
    BY RequestTyped DEF IInv, TypeOK
  <2>2. Len(agent'[cmd[c].session]) \in {Len(agent[cmd[c].session]),
                                         Len(agent[cmd[c].session]) + 1}
    BY <1>1, <2>1 DEF StreamsGrow, Grown
  <2>3. Len(agent[cmd[c].session]) \in Nat /\ read[c] \in Nat
    BY <2>1 DEF IInv, TypeOK
  <2>4. QED
    BY <1>1, <2>2, <2>3 DEF IInv, Past
<1>4. MachineNext
  BY DEF MachineNext, At
<1>5. StepOf(c)
  BY <1>1, <1>2, <1>3, <1>4 DEF StepOf, IInv, TypeOK
<1>6. Holding(c)'
  BY <1>2 DEF Holding, At
<1>7. QED
  BY <1>5, <1>6, StepInv DEF StepOf

\* A command at its first line, or past its last, knows nothing.
LEMMA NothingHeld ==
  ASSUME NEW c, pc'[c] \in Finished \cup {"start"}
  PROVE  Holding(c)'
BY DEF Holding, At, Finished

LEMMA CreditAnalysisCompletedStep ==
  ASSUME IInv, NEW c \in Command, CreditAnalysisCompleted(c)
  PROVE  IInv' /\ [MachineNext]_machine
<1> USE Labels
<1>0. cmd[c].kind = "credit" /\ cmd[c].session \in Session /\ loan \in Seq(EventOf(LoanEventType))
  BY RequestTyped DEF CreditAnalysisCompleted, At, IInv, TypeOK
<1>1. CASE LoadLoan(c, TRUE, "session")
  <2>1. StepOf(c) /\ cmd' = cmd /\ pc'[c] = "session"
    BY <1>1, LoadLoanStep
  <2>2. Holding(c)'
    BY <1>0, <2>1 DEF Holding, At
  <2>3. QED
    BY <2>1, <2>2, StepInv DEF StepOf
<1>2. CASE LoadSession(c, MayCompleteCredit(SubSeq(loan, 1, seen[c])) /\ SessionReady(c),
                       "append")
  <2>1. /\ StepOf(c) /\ UNCHANGED <<loan, agent, cmd, seen>>
        /\ pc'[c] = IF MayCompleteCredit(SubSeq(loan, 1, seen[c])) /\ SessionReady(c)
                    THEN "append" ELSE "rejected"
    BY <1>2, LoadSessionStep
  <2>2. Holding(c)'
    <3>1. CASE pc'[c] = "rejected"
      BY <3>1, NothingHeld DEF Finished
    <3>2. CASE pc'[c] # "rejected"
      <4>1. MayCompleteCredit(SubSeq(loan, 1, seen[c])) /\ SessionReady(c) /\ pc'[c] = "append"
        BY <2>1, <3>2
      <4>2. Len(loan) = seen[c] => SubSeq(loan, 1, seen[c]) = loan
        BY <1>0, SubSeqFull
      <4>3. cmd[c].model \in EverDeclared(agent[cmd[c].session])
        BY <1>0, <4>1, ModelWasDeclared DEF SessionReady, IInv, TypeOK
      <4>4. EverDeclared(agent[cmd[c].session])' = EverDeclared(agent[cmd[c].session])
        BY <2>1 DEF EverDeclared, Declarations
      <4>5. (Len(loan) = seen[c] => MayCompleteCredit(loan))'
        BY <2>1, <4>1, <4>2
      <4>6. QED
        BY <1>0, <2>1, <4>1, <4>3, <4>4, <4>5 DEF Holding, At
    <3>3. QED
      BY <3>1, <3>2
  <2>3. QED
    BY <2>1, <2>2, StepInv DEF StepOf
<1>3. CASE pc[c] = "append" /\ AppendLoan(c, "CreditAnalysisCompleted", "append2")
  <2>1. VersionMatches(c) /\ LoanEvent(c, "CreditAnalysisCompleted") => CompleteCredit(c)
    BY <1>0, <1>3 DEF IInv, Holding, At, VersionMatches, CompleteCredit
  <2>2. VersionMatches(c) /\ LoanEvent(c, "CreditAnalysisCompleted") => MachineNext
    BY <1>0, <2>1 DEF MachineNext
  <2>3. /\ StepOf(c)
        /\ \/ Holding(c)'
           \/ /\ pc'[c] = "append2" /\ loan' # <<>>
              /\ Last(loan') = EventBy(c, "CreditAnalysisCompleted")'
    BY <1>3, <2>2, EventTypes, AppendLoanStep
  <2>4. Holding(c)'
    BY <1>0, <2>3 DEF Holding, At, StepOf, StreamsGrow
  <2>5. QED
    BY <2>3, <2>4, StepInv DEF StepOf
<1>4. CASE pc[c] = "append2" /\ AppendLoan(c, "FraudScreeningRequested", "done")
  <2>1. VersionMatches(c) /\ LoanEvent(c, "FraudScreeningRequested") => RequestFraud(c)
    BY <1>0, <1>4 DEF IInv, Holding, At, VersionMatches, RequestFraud
  <2>2. VersionMatches(c) /\ LoanEvent(c, "FraudScreeningRequested") => MachineNext
    BY <1>0, <2>1 DEF MachineNext
  <2>3. StepOf(c) /\ (Holding(c)' \/ pc'[c] = "done")
    BY <1>4, <2>2, EventTypes, AppendLoanStep
  <2>4. Holding(c)'
    BY <2>3, NothingHeld DEF Finished
  <2>5. QED
    BY <2>3, <2>4, StepInv DEF StepOf
<1>5. QED
  BY <1>1, <1>2, <1>3, <1>4 DEF CreditAnalysisCompleted, At

LEMMA FraudScreeningCompletedStep ==
  ASSUME IInv, NEW c \in Command, FraudScreeningCompleted(c)
  PROVE  IInv' /\ [MachineNext]_machine
<1> USE Labels
<1> DEFINE log == agent[cmd[c].session]
<1>0. cmd[c].kind = "fraud" /\ cmd[c].session \in Session
  BY RequestTyped DEF FraudScreeningCompleted, At, IInv, TypeOK
<1>1. CASE LoadSession(c, SessionReady(c), "append")
  <2>1. /\ StepOf(c) /\ UNCHANGED <<loan, agent, cmd, seen>>
        /\ pc'[c] = IF SessionReady(c) THEN "append" ELSE "rejected"
    BY <1>1, LoadSessionStep
  <2>2. ModelOf(log)' = ModelOf(log)
    BY <2>1 DEF ModelOf, Declarations
  <2>3. SessionReady(c) => (ContextLoaded(log) /\ ModelOf(log) = cmd[c].model)'
    BY <2>1, <2>2 DEF SessionReady
  <2>4. Holding(c)'
    BY <1>0, <2>1, <2>3 DEF Holding, At
  <2>5. QED
    BY <2>1, <2>4, StepInv DEF StepOf
<1>2. CASE pc[c] = "append" /\ Conflict(c)
  BY <1>2, ConflictStep, StepInv DEF StepOf
<1>3. CASE /\ pc[c] = "append"
           /\ Len(agent[cmd[c].session]) = read[c]
           /\ AgentEvent(c, "FraudScreeningCompleted")
           /\ GoTo(c, "loan")
           /\ UNCHANGED <<compliance, seen, read, attempt>>
  <2>1. /\ StreamsGrow
        /\ agent' \in [Session -> Seq(EventOf({"AgentContextLoaded",
                                                "FraudScreeningCompleted"}))]
        /\ loan' = loan /\ cmd' = cmd
        /\ Has(agent'[cmd[c].session], "FraudScreeningCompleted")
    BY <1>3, AgentEventGrows DEF IInv
  <2>2. TypeOK' /\ pc'[c] = "loan"
    BY <1>3, <2>1 DEF IInv, TypeOK, GoTo
  <2>3. Past(c)'
    <3>1. Len(agent'[cmd[c].session]) \in {Len(log), Len(log) + 1}
      BY <1>0, <2>1 DEF StreamsGrow, Grown
    <3>2. Len(log) \in Nat /\ read[c] \in Nat
      BY <1>0 DEF IInv, TypeOK
    <3>3. QED
      BY <1>3, <2>1, <3>1, <3>2 DEF IInv, Past
  <2>4. Screen(c)
    BY <1>0, <1>3 DEF IInv, Holding, At, Screen
  <2>5. MachineNext
    BY <1>0, <2>4 DEF MachineNext
  <2>6. StepOf(c)
    BY <1>3, <2>1, <2>2, <2>3, <2>5 DEF StepOf, GoTo, IInv, TypeOK
  <2>7. Holding(c)'
    BY <1>0, <2>1, <2>2 DEF Holding, At
  <2>8. QED
    BY <2>6, <2>7, StepInv DEF StepOf
<1>4. CASE /\ pc[c] = "loan"
           /\ LoadLoan(c, TRUE, IF MayRequestCompliance(loan) THEN "append2" ELSE "done")
  <2>1. /\ StepOf(c) /\ UNCHANGED <<loan, agent, cmd>>
        /\ pc'[c] = IF MayRequestCompliance(loan) THEN "append2" ELSE "done"
    BY <1>4, LoadLoanStep
  <2>2. Has(log, "FraudScreeningCompleted")
    BY <1>0, <1>4 DEF IInv, Holding, At
  <2>3. Holding(c)'
    BY <1>0, <2>1, <2>2 DEF Holding, At
  <2>4. QED
    BY <2>1, <2>3, StepInv DEF StepOf
<1>5. CASE pc[c] = "append2" /\ AppendLoan(c, "ComplianceCheckRequested", "done")
  <2>1. VersionMatches(c) /\ LoanEvent(c, "ComplianceCheckRequested") => RequestCompliance(c)
    BY <1>0, <1>5 DEF IInv, Holding, At, VersionMatches, RequestCompliance
  <2>2. VersionMatches(c) /\ LoanEvent(c, "ComplianceCheckRequested") => MachineNext
    BY <2>1 DEF MachineNext
  <2>3. StepOf(c) /\ (Holding(c)' \/ pc'[c] = "done")
    BY <1>5, <2>2, EventTypes, AppendLoanStep
  <2>4. Holding(c)'
    BY <2>3, NothingHeld DEF Finished
  <2>5. QED
    BY <2>3, <2>4, StepInv DEF StepOf
<1>6. QED
  BY <1>1, <1>2, <1>3, <1>4, <1>5 DEF FraudScreeningCompleted, AppendScreening, At

LEMMA RequestComplianceCheckStep ==
  ASSUME IInv, NEW c \in Command, RequestComplianceCheck(c)
  PROVE  IInv' /\ [MachineNext]_machine
<1> USE Labels
<1>0. cmd[c].kind = "compliance"
  BY DEF RequestComplianceCheck, At
<1>1. CASE LoadLoan(c, TRUE, "done")
  <2>1. StepOf(c) /\ pc'[c] = "done"
    BY <1>1, LoadLoanStep
  <2>2. QED
    BY <2>1, NothingHeld, StepInv DEF StepOf, Finished
<1>2. CASE LoadLoan(c, MayRequestComplianceCheck(loan), "append")
  <2>1. /\ StepOf(c) /\ UNCHANGED <<loan, agent, cmd>>
        /\ pc'[c] = IF MayRequestComplianceCheck(loan) THEN "append" ELSE "rejected"
    BY <1>2, LoadLoanStep
  <2>2. Holding(c)'
    BY <1>0, <2>1 DEF Holding, At
  <2>3. QED
    BY <2>1, <2>2, StepInv DEF StepOf
<1>3. CASE pc[c] = "append" /\ AppendLoan(c, "ComplianceCheckRequested", "done")
  <2>1. VersionMatches(c) /\ LoanEvent(c, "ComplianceCheckRequested") => RequestCompliance(c)
    BY <1>0, <1>3 DEF IInv, Holding, At, VersionMatches, RequestCompliance
  <2>2. VersionMatches(c) /\ LoanEvent(c, "ComplianceCheckRequested") => MachineNext
    BY <2>1 DEF MachineNext
  <2>3. StepOf(c) /\ (Holding(c)' \/ pc'[c] = "done")
    BY <1>3, <2>2, EventTypes, AppendLoanStep
  <2>4. Holding(c)'
    BY <2>3, NothingHeld DEF Finished
  <2>5. QED
    BY <2>3, <2>4, StepInv DEF StepOf
<1>4. QED
  BY <1>1, <1>2, <1>3 DEF RequestComplianceCheck, At

LEMMA RecordComplianceRuleStep ==
  ASSUME IInv, NEW c \in Command, RecordComplianceRule(c)
  PROVE  IInv' /\ [MachineNext]_machine
<1> USE Labels
<1>0. cmd[c].kind = "rule" /\ compliance \in Seq(EventOf(RuleEventType))
  BY DEF RecordComplianceRule, At, IInv, TypeOK
<1>1. CASE Conflict(c)
  BY <1>1, ConflictStep, StepInv DEF StepOf
<1>2. ASSUME UNCHANGED <<machine, read, attempt>>,
             seen' \in [Command -> Nat], compliance' \in Seq(EventOf(RuleEventType)),
             \A d \in Command \ {c} : seen'[d] = seen[d],
             NEW label \in PC, GoTo(c, label)
      PROVE  IInv' /\ [MachineNext]_machine
  <2>1. /\ UNCHANGED <<loan, agent, cmd>> /\ StreamsGrow /\ [MachineNext]_machine
    BY <1>2, Unmoved DEF IInv
  <2>2. TypeOK'
    BY <1>2, <2>1 DEF IInv, TypeOK, GoTo
  <2>3. Past(c)'
    BY <1>0, <1>2, <2>1 DEF IInv, Past
  <2>4. StepOf(c)
    BY <1>2, <2>1, <2>2, <2>3 DEF StepOf, GoTo, IInv, TypeOK
  <2>5. Holding(c)'
    BY <1>0, <2>1 DEF Holding, At
  <2>6. QED
    BY <2>1, <2>4, <2>5, StepInv
<1>3. CASE /\ seen' = [seen EXCEPT ![c] = Len(compliance)]
           /\ Check(c, RequiredChecks # {} => cmd[c].rule \in RequiredChecks, "append")
           /\ UNCHANGED <<machine, compliance, read, attempt>>
  <2>1. PICK label \in PC : GoTo(c, label)
    BY <1>3 DEF Check, GoTo
  <2>2. Len(compliance) \in Nat
    BY <1>0
  <2>3. QED
    BY <1>0, <1>2, <1>3, <2>1, <2>2 DEF IInv, TypeOK
<1>4. CASE /\ \E type \in RuleEventType : compliance' = Append(compliance, EventBy(c, type))
           /\ GoTo(c, "done")
           /\ UNCHANGED <<machine, seen, read, attempt>>
  <2>1. PICK type \in RuleEventType : compliance' = Append(compliance, EventBy(c, type))
    BY <1>4
  <2>2. EventBy(c, type) \in EventOf(RuleEventType)
    BY EventTyped DEF EventOf, EventOfType, IInv, TypeOK
  <2>3. compliance' \in Seq(EventOf(RuleEventType))
    BY <1>0, <2>1, <2>2, AppendProperties
  <2>4. QED
    BY <1>2, <1>4, <2>3 DEF IInv, TypeOK
<1>5. QED
  BY <1>1, <1>3, <1>4 DEF RecordComplianceRule

LEMMA GenerateDecisionStep ==
  ASSUME IInv, NEW c \in Command, GenerateDecision(c)
  PROVE  IInv' /\ [MachineNext]_machine
<1> USE Labels
<1>0. cmd[c].kind = "decision"
  BY DEF GenerateDecision, At
<1>1. CASE LoadLoan(c, MayDecide(loan, cmd[c].confident, cmd[c].outcome), "session")
  <2>1. /\ StepOf(c) /\ UNCHANGED <<loan, agent, cmd>>
        /\ pc'[c] = IF MayDecide(loan, cmd[c].confident, cmd[c].outcome)
                    THEN "session" ELSE "rejected"
    BY <1>1, LoadLoanStep
  <2>2. Holding(c)'
    BY <1>0, <2>1 DEF Holding, At
  <2>3. QED
    BY <2>1, <2>2, StepInv DEF StepOf
<1>2. CASE /\ pc[c] = "session"
           /\ Check(c, ChainHolds(c), "append")
           /\ UNCHANGED <<machine, compliance, seen, read, attempt>>
  <2>1. /\ UNCHANGED <<loan, agent, cmd>> /\ StreamsGrow /\ [MachineNext]_machine
    BY <1>2, Unmoved DEF IInv
  <2>2. TypeOK'
    BY <1>2, <2>1 DEF IInv, TypeOK, Check
  <2>3. Past(c)'
    BY <1>2, <2>1 DEF IInv, Past
  <2>4. StepOf(c)
    BY <1>2, <2>1, <2>2, <2>3 DEF StepOf, Check, IInv, TypeOK
  <2>5. pc'[c] = IF ChainHolds(c) THEN "append" ELSE "rejected"
    BY <1>2 DEF Check, IInv, TypeOK
  <2>6. Len(loan) = seen[c] => MayDecide(loan, cmd[c].confident, cmd[c].outcome)
    BY <1>0, <1>2 DEF IInv, Holding, At
  <2>7. ChainHolds(c) => (cmd[c].contributing \subseteq SessionsWithDecisions)'
    BY <2>1 DEF ChainHolds, SessionsWithDecisions, SessionOf
  <2>8. (Len(loan) = seen[c] => MayDecide(loan, cmd[c].confident, cmd[c].outcome))'
    BY <1>2, <2>1, <2>6
  <2>9. Holding(c)'
    BY <1>0, <2>1, <2>5, <2>7, <2>8 DEF Holding, At
  <2>10. QED
    BY <2>4, <2>9, StepInv DEF StepOf
<1>3. CASE pc[c] = "append" /\ AppendLoan(c, "DecisionGenerated", "done")
  <2>1. VersionMatches(c) /\ LoanEvent(c, "DecisionGenerated") => DecideLoan(c)
    BY <1>0, <1>3 DEF IInv, Holding, At, VersionMatches, DecideLoan
  <2>2. VersionMatches(c) /\ LoanEvent(c, "DecisionGenerated") => MachineNext
    BY <1>0, <2>1 DEF MachineNext
  <2>3. StepOf(c) /\ (Holding(c)' \/ pc'[c] = "done")
    BY <1>3, <2>2, EventTypes, AppendLoanStep
  <2>4. Holding(c)'
    BY <2>3, NothingHeld DEF Finished
  <2>5. QED
    BY <2>3, <2>4, StepInv DEF StepOf
<1>4. QED
  BY <1>1, <1>2, <1>3 DEF GenerateDecision, At

LEMMA HumanReviewCompletedStep ==
  ASSUME IInv, NEW c \in Command, HumanReviewCompleted(c)
  PROVE  IInv' /\ [MachineNext]_machine
<1> USE Labels
<1>0. cmd[c].kind = "review"
  BY DEF HumanReviewCompleted, At
<1>1. CASE LoadLoan(c, MayReview(loan) /\ cmd[c].explained, "append")
  <2>1. /\ StepOf(c) /\ UNCHANGED <<loan, agent, cmd>>
        /\ pc'[c] = IF MayReview(loan) /\ cmd[c].explained THEN "append" ELSE "rejected"
    BY <1>1, LoadLoanStep
  <2>2. Holding(c)'
    BY <1>0, <2>1 DEF Holding, At
  <2>3. QED
    BY <2>1, <2>2, StepInv DEF StepOf
<1>2. CASE pc[c] = "append" /\ AppendLoan(c, "HumanReviewCompleted", "done")
  <2>1. VersionMatches(c) /\ LoanEvent(c, "HumanReviewCompleted") => Review(c)
    BY <1>0, <1>2 DEF IInv, Holding, At, VersionMatches, Review
  <2>2. VersionMatches(c) /\ LoanEvent(c, "HumanReviewCompleted") => MachineNext
    BY <1>0, <2>1 DEF MachineNext
  <2>3. StepOf(c) /\ (Holding(c)' \/ pc'[c] = "done")
    BY <1>2, <2>2, EventTypes, AppendLoanStep
  <2>4. Holding(c)'
    BY <2>3, NothingHeld DEF Finished
  <2>5. QED
    BY <2>3, <2>4, StepInv DEF StepOf
<1>3. QED
  BY <1>1, <1>2 DEF HumanReviewCompleted, At

LEMMA AbortStep ==
  ASSUME IInv, NEW c \in Command, Abort(c)
  PROVE  IInv' /\ [MachineNext]_machine
<1>1. /\ UNCHANGED <<loan, agent, cmd>> /\ StreamsGrow /\ [MachineNext]_machine
  BY Unmoved DEF IInv, Abort
<1>2. TypeOK' /\ Past(c)' /\ pc'[c] = "failed"
  BY <1>1, Labels DEF Abort, GoTo, IInv, TypeOK, Past
<1>3. StepOf(c)
  BY <1>1, <1>2 DEF StepOf, Abort, GoTo, IInv, TypeOK
<1>4. QED
  BY <1>1, <1>2, <1>3, NothingHeld, StepInv DEF Finished

LEMMA OutsideWritesStep ==
  ASSUME IInv, OutsideWrites
  PROVE  IInv' /\ [MachineNext]_machine
<1>1. PICK type \in {"CreditAnalysisRequested", "ComplianceClearanceIssued"} :
        AppendOutside(type)
  BY DEF OutsideWrites
<1> DEFINE e == [type |-> type, by |-> Outside, outcome |-> "REFER"]
<1>2. e \in EventOf(LoanEventType) /\ loan \in Seq(EventOf(LoanEventType))
  BY EventTypes DEF EventOf, Recommendation, IInv, TypeOK
<1> HIDE DEF e
<1>3. loan' = Append(loan, e) /\ agent' = agent /\ cmd' = cmd
  BY <1>1 DEF AppendOutside, e
<1>4. /\ loan' \in Seq(EventOf(LoanEventType))
      /\ Kept(loan, loan') /\ Len(loan') = Len(loan) + 1
  BY <1>2, <1>3, AppendKeeps
<1>5. StreamsGrow
  BY <1>3, <1>4 DEF StreamsGrow, Grown
<1>6. TypeOK'
  BY <1>3, <1>4 DEF OutsideWrites, IInv, TypeOK
<1>7. \A d \in Command : Past(d)' /\ Holding(d)'
  BY <1>5, OthersKeep DEF OutsideWrites
<1>8. MachineNext
  BY <1>1 DEF MachineNext
<1>9. QED
  BY <1>6, <1>7, <1>8 DEF IInv

LEMMA NextStep == IInv /\ [Next]_vars => IInv' /\ [MachineNext]_machine
<1> SUFFICES ASSUME IInv, [Next]_vars PROVE IInv' /\ [MachineNext]_machine
  OBVIOUS
<1>1. CASE UNCHANGED vars
  <2>1. /\ UNCHANGED <<compliance, pc, seen, read, attempt>>
        /\ UNCHANGED <<loan, agent, cmd>> /\ StreamsGrow /\ [MachineNext]_machine
    BY <1>1, Unmoved DEF IInv, vars
  <2>2. TypeOK'
    BY <2>1 DEF IInv, TypeOK
  <2>3. \A d \in Command : Past(d)' /\ Holding(d)'
    BY <2>1, OthersKeep
  <2>4. QED
    BY <2>1, <2>2, <2>3 DEF IInv
<1>2. ASSUME NEW c \in Command, Handle(c) PROVE IInv' /\ [MachineNext]_machine
  BY <1>2, SubmitApplicationStep, StartAgentSessionStep, CreditAnalysisCompletedStep,
     FraudScreeningCompletedStep, RequestComplianceCheckStep, RecordComplianceRuleStep,
     GenerateDecisionStep, HumanReviewCompletedStep
  DEF Handle
<1>3. QED
  BY <1>1, <1>2, AbortStep, OutsideWritesStep DEF Next, Quiescent

LEMMA Invariance == Spec => []IInv
<1>1. Init => IInv
  BY InitIInv
<1>2. IInv /\ [Next]_vars => IInv'
  BY NextStep
<1>3. QED
  BY <1>1, <1>2, PTL DEF Spec

--------------------------------------------------------------------------------

\* Streams hold well-formed events, every handler is at one of its lines, and no
\* command is tried more than _MAX_RETRIES times.
THEOREM TypeCorrect == Spec => []TypeOK
<1>1. IInv => TypeOK
  BY DEF IInv
<1>2. QED
  BY <1>1, Invariance, PTL

\* The handlers of commands/handlers.py, which read, wait and then write, implement
\* the machine that checks and writes in one step.
THEOREM HandlersImplementMachine == Spec => ImplementsLoanMachine
<1>1. Init => MachineInit
  BY DEF Init
<1>2. IInv /\ [Next]_vars => [MachineNext]_machine
  BY NextStep
<1>3. QED
  BY <1>1, <1>2, Invariance, PTL DEF Spec, ImplementsLoanMachine, MachineSpec

\* BR-3: whatever the interleaving and the retries, a loan gets one credit analysis.
THEOREM CreditAnalysedOnce == Spec => []OneCreditAnalysis
<1>1. MachineInv => OneCreditAnalysis
  BY DEF MachineInv
<1>2. QED
  BY <1>1, HandlersImplementMachine, RulesHold, PTL DEF ImplementsLoanMachine

\* BR-2: no session screens or analyses before it has declared its context.
THEOREM ContextComesFirst == Spec => []ContextBeforeDecision
<1>1. MachineInv => ContextBeforeDecision
  BY DEF MachineInv
<1>2. QED
  BY <1>1, HandlersImplementMachine, RulesHold, PTL DEF ImplementsLoanMachine

\* BR-4, BR-5, BR-6: every decision stands on a clearance before it, on a confidence
\* that allows it and on sessions that worked on the loan.
THEOREM DecisionsAreJustified == Spec => []DecisionsJustified
<1>1. MachineInv => DecisionsJustified
  BY DEF MachineInv
<1>2. QED
  BY <1>1, HandlersImplementMachine, RulesHold, PTL DEF ImplementsLoanMachine

--------------------------------------------------------------------------------
(* Conflicts.  Everything a command has on the stream it will append to is      *)
(* behind the version it read, so what stands at the next position is a rival's. *)

\* The handler is to append to the loan stream under the version seen.
OnLoan(c) ==
  \/ At(c, {"credit"}, "session") \/ At(c, {"decision"}, "session")
  \/ At(c, {"credit", "compliance", "decision", "review"}, "append")
  \/ At(c, {"credit", "fraud"}, "append2")

\* No event of c stands behind the version.
OwnWithin(c, log, version) ==
  /\ version <= Len(log)
  /\ \A i \in DOMAIN log : log[i].by = c => i <= version

Rival(c, log, version) ==
  /\ version + 1 \in DOMAIN log
  /\ log[version + 1].by # c

OwnBehind(c) ==
  /\ OnLoan(c) => OwnWithin(c, loan, seen[c])
  /\ At(c, {"fraud"}, "append") => OwnWithin(c, agent[cmd[c].session], read[c])
  /\ At(c, {"rule"}, "append") => OwnWithin(c, compliance, seen[c])
  /\ pc[c] = "conflict" =>
       \/ Rival(c, loan, seen[c])
       \/ Rival(c, agent[cmd[c].session], read[c])
       \/ Rival(c, compliance, seen[c])

\* The stream stays, or gets an event of author a.
Signed(a, old, new) ==
  \/ new = old
  \/ \E e : e.by = a /\ new = Append(old, e)

SignedBy(a) ==
  /\ UNCHANGED cmd
  /\ Signed(a, loan, loan')
  /\ \A s \in Session : Signed(a, agent[s], agent'[s])
  /\ Signed(a, compliance, compliance')

LEMMA SignedKeeps ==
  ASSUME NEW S, NEW old \in Seq(S), NEW new \in Seq(S), NEW a, Signed(a, old, new),
         NEW c, NEW version \in Nat
  PROVE  /\ a # c /\ OwnWithin(c, old, version) => OwnWithin(c, new, version)
         /\ OwnWithin(c, old, version) /\ version = Len(old) /\ Len(new) = Len(old) + 1
              => OwnWithin(c, new, version + 1)
         /\ Rival(c, old, version) => Rival(c, new, version)
<1>1. CASE new = old
  BY <1>1 DEF OwnWithin
<1>2. CASE new # old
  <2>1. PICK e : e.by = a /\ new = Append(old, e)
    BY <1>2 DEF Signed
  <2>2. /\ Len(new) = Len(old) + 1 /\ DOMAIN old = 1..Len(old) /\ DOMAIN new = 1..Len(new)
        /\ Len(old) \in Nat
        /\ \A i \in 1..Len(old) : new[i] = old[i]
        /\ new[Len(old) + 1] = e
    BY <2>1
  <2>3. a # c /\ OwnWithin(c, old, version) => OwnWithin(c, new, version)
    BY <2>1, <2>2 DEF OwnWithin
  <2>4. OwnWithin(c, old, version) /\ version = Len(old) => OwnWithin(c, new, version + 1)
    BY <2>2 DEF OwnWithin
  <2>5. Rival(c, old, version) => Rival(c, new, version)
    BY <2>2 DEF Rival
  <2>6. QED
    BY <2>3, <2>4, <2>5
<1>3. QED
  BY <1>1, <1>2

LEMMA StreamsTyped ==
  ASSUME IInv, NEW c \in Command
  PROVE  /\ cmd[c].session \in Session
         /\ loan \in Seq(EventOf(LoanEventType))
         /\ compliance \in Seq(EventOf(RuleEventType))
         /\ \A s \in Session : agent[s] \in Seq(EventOf({"AgentContextLoaded",
                                                        "FraudScreeningCompleted"}))
         /\ seen[c] \in Nat /\ read[c] \in Nat
         /\ Past(c)
BY RequestTyped DEF IInv, TypeOK

\* What others append does not disturb what a command has and may conflict with.
LEMMA OthersKeepOwn ==
  ASSUME IInv, IInv', NEW d \in Command, OwnBehind(d), NEW a, a # d, SignedBy(a),
         pc'[d] = pc[d], seen'[d] = seen[d], read'[d] = read[d]
  PROVE  OwnBehind(d)'
<1> DEFINE s == cmd[d].session
<1>1. /\ s \in Session /\ cmd' = cmd /\ seen[d] \in Nat /\ read[d] \in Nat
      /\ loan \in Seq(EventOf(LoanEventType)) /\ loan' \in Seq(EventOf(LoanEventType))
      /\ compliance \in Seq(EventOf(RuleEventType))
      /\ compliance' \in Seq(EventOf(RuleEventType))
  BY StreamsTyped DEF SignedBy, IInv, TypeOK
<1>2. /\ agent[s] \in Seq(EventOf({"AgentContextLoaded", "FraudScreeningCompleted"}))
      /\ agent'[s] \in Seq(EventOf({"AgentContextLoaded", "FraudScreeningCompleted"}))
  BY <1>1 DEF IInv, TypeOK
<1>3. /\ OwnWithin(d, loan, seen[d]) => OwnWithin(d, loan', seen[d])
      /\ Rival(d, loan, seen[d]) => Rival(d, loan', seen[d])
  BY <1>1, SignedKeeps DEF SignedBy
<1>4. /\ OwnWithin(d, agent[s], read[d]) => OwnWithin(d, agent'[s], read[d])
      /\ Rival(d, agent[s], read[d]) => Rival(d, agent'[s], read[d])
  BY <1>1, <1>2, SignedKeeps DEF SignedBy
<1>5. /\ OwnWithin(d, compliance, seen[d]) => OwnWithin(d, compliance', seen[d])
      /\ Rival(d, compliance, seen[d]) => Rival(d, compliance', seen[d])
  BY <1>1, SignedKeeps DEF SignedBy
<1>6. \A kinds, label : At(d, kinds, label)' = At(d, kinds, label)
  BY <1>1 DEF At
<1>7. OnLoan(d)' = OnLoan(d)
  BY <1>1 DEF OnLoan, At
<1>8. (OnLoan(d) => OwnWithin(d, loan, seen[d]))'
  BY <1>1, <1>3, <1>7 DEF OwnBehind, OwnWithin
<1>9. (At(d, {"fraud"}, "append") => OwnWithin(d, agent[s], read[d]))'
  BY <1>1, <1>4, <1>6 DEF OwnBehind, OwnWithin
<1>10. (At(d, {"rule"}, "append") => OwnWithin(d, compliance, seen[d]))'
  BY <1>1, <1>5, <1>6 DEF OwnBehind, OwnWithin
<1>11. (pc[d] = "conflict" =>
          Rival(d, loan, seen[d]) \/ Rival(d, agent[s], read[d])
            \/ Rival(d, compliance, seen[d]))'
  BY <1>1, <1>3, <1>4, <1>5 DEF OwnBehind, Rival
<1>12. QED
  BY <1>8, <1>9, <1>10, <1>11 DEF OwnBehind

\* A step of command c, signed by it, after which its events are behind.
OwnStep(c) ==
  /\ SignedBy(c)
  /\ \A d \in Command \ {c} : pc'[d] = pc[d] /\ seen'[d] = seen[d] /\ read'[d] = read[d]
  /\ OwnBehind(c)'

LEMMA Quiet ==
  ASSUME UNCHANGED <<machine, compliance>>
  PROVE  UNCHANGED <<loan, agent, cmd, compliance>> /\ \A a : SignedBy(a)
BY DEF machine, SignedBy, Signed

\* Nothing is to be said of a handler that has not read, or has ended otherwise
\* than by a conflict.
LEMMA Idle ==
  ASSUME NEW c, pc'[c] \in {"start", "loan", "done", "rejected", "failed"}
  PROVE  OwnBehind(c)'
BY DEF OwnBehind, OnLoan, At

LEMMA LoadLoanOwn ==
  ASSUME IInv, NEW c \in Command, NEW guard, NEW label \in PC, LoadLoan(c, guard, label),
         cmd[c].kind # "rule", label # "conflict",
         ~(cmd[c].kind = "fraud" /\ label = "append")
  PROVE  OwnStep(c)
<1>1. UNCHANGED <<loan, agent, cmd, compliance>> /\ SignedBy(c)
  BY Quiet DEF LoadLoan
<1>2. seen'[c] = Len(loan) /\ pc'[c] \in {label, "rejected"}
  BY DEF LoadLoan, Check, IInv, TypeOK
<1>3. OwnWithin(c, loan, seen[c])'
  <2>1. loan \in Seq(EventOf(LoanEventType))
    BY DEF IInv, TypeOK
  <2>2. OwnWithin(c, loan, Len(loan))
    BY <2>1 DEF OwnWithin
  <2>3. QED
    BY <1>1, <1>2, <2>2 DEF OwnWithin
<1>4. OwnBehind(c)'
  BY <1>1, <1>2, <1>3 DEF OwnBehind, At
<1>5. \A d \in Command \ {c} : pc'[d] = pc[d] /\ seen'[d] = seen[d] /\ read'[d] = read[d]
  BY DEF LoadLoan, Check, IInv, TypeOK
<1>6. QED
  BY <1>1, <1>4, <1>5 DEF OwnStep

LEMMA LoadSessionOwn ==
  ASSUME IInv, NEW c \in Command, OwnBehind(c), NEW guard, LoadSession(c, guard, "append"),
         At(c, {"credit"}, "session") \/ At(c, {"fraud"}, "start")
  PROVE  OwnStep(c)
<1> DEFINE log == agent[cmd[c].session]
<1>1. UNCHANGED <<loan, agent, cmd, compliance>> /\ SignedBy(c)
  BY Quiet DEF LoadSession
<1>2. read'[c] = Len(log) /\ seen'[c] = seen[c] /\ pc'[c] \in {"append", "rejected"}
  BY DEF LoadSession, Check, IInv, TypeOK
<1>3. OwnWithin(c, log, read[c])'
  <2>1. log \in Seq(EventOf({"AgentContextLoaded", "FraudScreeningCompleted"}))
    BY StreamsTyped
  <2>2. OwnWithin(c, log, Len(log))
    BY <2>1 DEF OwnWithin
  <2>3. QED
    BY <1>1, <1>2, <2>2 DEF OwnWithin
<1>4. cmd[c].kind = "credit" => OwnWithin(c, loan, seen[c])'
  BY <1>1, <1>2 DEF OwnBehind, OnLoan, At, OwnWithin
<1>5. OwnBehind(c)'
  BY <1>1, <1>2, <1>3, <1>4 DEF OwnBehind, OnLoan, At
<1>6. \A d \in Command \ {c} : pc'[d] = pc[d] /\ seen'[d] = seen[d] /\ read'[d] = read[d]
  BY DEF LoadSession, Check, IInv, TypeOK
<1>7. QED
  BY <1>1, <1>5, <1>6 DEF OwnStep

\* When all the events of c are within the version it names, and there are more.
LEMMA RivalAhead ==
  ASSUME NEW S, NEW log \in Seq(S), NEW version \in Nat, NEW c,
         OwnWithin(c, log, version), Len(log) # version
  PROVE  Rival(c, log, version)
BY DEF OwnWithin, Rival

LEMMA ConflictOwn ==
  ASSUME IInv, NEW c \in Command, Conflict(c),
         \/ Rival(c, loan, seen[c])
         \/ Rival(c, agent[cmd[c].session], read[c])
         \/ Rival(c, compliance, seen[c])
  PROVE  OwnStep(c)
<1>1. UNCHANGED <<loan, agent, cmd, compliance>> /\ SignedBy(c)
  BY Quiet DEF Conflict
<1>2. UNCHANGED <<seen, read>> /\ pc'[c] \in {"start", "conflict"}
  BY DEF Conflict, GoTo, IInv, TypeOK
<1>3. (\/ Rival(c, loan, seen[c])
       \/ Rival(c, agent[cmd[c].session], read[c])
       \/ Rival(c, compliance, seen[c]))'
  BY <1>1, <1>2 DEF Rival
<1>4. OwnBehind(c)'
  BY <1>2, <1>3 DEF OwnBehind, OnLoan, At
<1>5. \A d \in Command \ {c} : pc'[d] = pc[d]
  BY DEF Conflict, GoTo, IInv, TypeOK
<1>6. QED
  BY <1>1, <1>2, <1>4, <1>5 DEF OwnStep

LEMMA AppendLoanOwn ==
  ASSUME IInv, IInv', NEW c \in Command, OwnBehind(c), OnLoan(c),
         NEW type, NEW label \in {"append2", "done"}, AppendLoan(c, type, label)
  PROVE  OwnStep(c)
<1>1. /\ loan \in Seq(EventOf(LoanEventType)) /\ seen[c] \in Nat
      /\ OwnWithin(c, loan, seen[c])
  BY StreamsTyped DEF OwnBehind
<1>2. CASE ~VersionMatches(c) /\ Conflict(c)
  BY <1>1, <1>2, RivalAhead, ConflictOwn DEF VersionMatches
<1>3. CASE /\ VersionMatches(c)
           /\ LoanEvent(c, type)
           /\ seen' = [seen EXCEPT ![c] = NewVersion(c)]
           /\ GoTo(c, label)
           /\ UNCHANGED <<compliance, read, attempt>>
  <2>1. /\ loan' = Append(loan, EventBy(c, type)) /\ EventBy(c, type).by = c
        /\ agent' = agent /\ cmd' = cmd /\ compliance' = compliance
    BY <1>3 DEF LoanEvent, EventBy
  <2>2. Signed(c, loan, loan')
    BY <2>1 DEF Signed
  <2>3. SignedBy(c)
    BY <2>1, <2>2 DEF SignedBy, Signed
  <2>4. seen'[c] = seen[c] + 1 /\ pc'[c] = label
    BY <1>3 DEF IInv, TypeOK, GoTo, NewVersion
  <2>5. loan' \in Seq(EventOf(LoanEventType)) /\ Len(loan') = Len(loan) + 1
    BY <1>1, <2>1 DEF IInv, TypeOK
  <2>6. OwnWithin(c, loan', seen[c] + 1)
    BY <1>1, <1>3, <2>2, <2>5, SignedKeeps DEF VersionMatches
  <2>7. OwnWithin(c, loan, seen[c])'
    BY <2>4, <2>6 DEF OwnWithin
  <2>8. OwnBehind(c)'
    BY <2>4, <2>7 DEF OwnBehind, OnLoan, At
  <2>9. \A d \in Command \ {c} : pc'[d] = pc[d] /\ seen'[d] = seen[d] /\ read'[d] = read[d]
    BY <1>3 DEF GoTo, IInv, TypeOK
  <2>10. QED
    BY <2>3, <2>8, <2>9 DEF OwnStep
<1>4. QED
  BY <1>2, <1>3 DEF AppendLoan

LEMMA CreditOwn ==
  ASSUME IInv, IInv', NEW c \in Command, OwnBehind(c), CreditAnalysisCompleted(c)
  PROVE  OwnStep(c)
<1>1. CASE At(c, {"credit"}, "start") /\ LoadLoan(c, TRUE, "session")
  BY <1>1, Labels, LoadLoanOwn DEF At
<1>2. CASE /\ At(c, {"credit"}, "session")
           /\ LoadSession(c, MayCompleteCredit(SubSeq(loan, 1, seen[c])) /\ SessionReady(c),
                          "append")
  BY <1>2, LoadSessionOwn
<1>3. CASE /\ At(c, {"credit"}, "append")
           /\ AppendLoan(c, "CreditAnalysisCompleted", "append2")
  BY <1>3, AppendLoanOwn DEF OnLoan, At
<1>4. CASE /\ At(c, {"credit"}, "append2")
           /\ AppendLoan(c, "FraudScreeningRequested", "done")
  BY <1>4, AppendLoanOwn DEF OnLoan, At
<1>5. QED
  BY <1>1, <1>2, <1>3, <1>4 DEF CreditAnalysisCompleted

\* An event on the stream of the command's session.
LEMMA AgentEventSigned ==
  ASSUME IInv, NEW c \in Command, NEW type, AgentEvent(c, type), UNCHANGED compliance
  PROVE  SignedBy(c)
<1> DEFINE s == cmd[c].session
           e == EventBy(c, type)
<1>1. s \in Session /\ e.by = c /\ agent' = [agent EXCEPT ![s] = Append(@, e)]
  BY StreamsTyped DEF AgentEvent, EventBy
<1>2. agent'[s] = Append(agent[s], e) /\ \A t \in Session \ {s} : agent'[t] = agent[t]
  BY <1>1 DEF IInv, TypeOK
<1>3. \A t \in Session : Signed(c, agent[t], agent'[t])
  BY <1>1, <1>2 DEF Signed
<1>4. QED
  BY <1>3 DEF SignedBy, Signed, AgentEvent

LEMMA FraudOwn ==
  ASSUME IInv, IInv', NEW c \in Command, OwnBehind(c), FraudScreeningCompleted(c)
  PROVE  OwnStep(c)
<1> DEFINE log == agent[cmd[c].session]
<1>1. CASE At(c, {"fraud"}, "start") /\ LoadSession(c, SessionReady(c), "append")
  BY <1>1, LoadSessionOwn
<1>2. CASE /\ At(c, {"fraud"}, "append")
           /\ Len(log) # read[c]
           /\ Conflict(c)
  <2>1. /\ log \in Seq(EventOf({"AgentContextLoaded", "FraudScreeningCompleted"}))
        /\ read[c] \in Nat /\ OwnWithin(c, log, read[c])
    BY <1>2, StreamsTyped DEF OwnBehind
  <2>2. QED
    BY <1>2, <2>1, RivalAhead, ConflictOwn
<1>3. CASE /\ AgentEvent(c, "FraudScreeningCompleted")
           /\ GoTo(c, "loan")
           /\ UNCHANGED <<compliance, seen, read, attempt>>
  <2>1. SignedBy(c)
    BY <1>3, AgentEventSigned
  <2>2. pc'[c] = "loan" /\ \A d \in Command \ {c} : pc'[d] = pc[d]
    BY <1>3 DEF GoTo, IInv, TypeOK
  <2>3. QED
    BY <1>3, <2>1, <2>2, Idle DEF OwnStep
<1>4. CASE /\ At(c, {"fraud"}, "loan")
           /\ LoadLoan(c, TRUE, IF MayRequestCompliance(loan) THEN "append2" ELSE "done")
  BY <1>4, Labels, LoadLoanOwn DEF At
<1>5. CASE /\ At(c, {"fraud"}, "append2")
           /\ AppendLoan(c, "ComplianceCheckRequested", "done")
  BY <1>5, AppendLoanOwn DEF OnLoan, At
<1>6. QED
  BY <1>1, <1>2, <1>3, <1>4, <1>5 DEF FraudScreeningCompleted, AppendScreening

LEMMA ComplianceOwn ==
  ASSUME IInv, IInv', NEW c \in Command, OwnBehind(c), RequestComplianceCheck(c)
  PROVE  OwnStep(c)
<1>1. CASE At(c, {"compliance"}, "start") /\ LoadLoan(c, TRUE, "done")
  BY <1>1, Labels, LoadLoanOwn DEF At
<1>2. CASE /\ At(c, {"compliance"}, "start")
           /\ LoadLoan(c, MayRequestComplianceCheck(loan), "append")
  BY <1>2, Labels, LoadLoanOwn DEF At
<1>3. CASE /\ At(c, {"compliance"}, "append")
           /\ AppendLoan(c, "ComplianceCheckRequested", "done")
  BY <1>3, AppendLoanOwn DEF OnLoan, At
<1>4. QED
  BY <1>1, <1>2, <1>3 DEF RequestComplianceCheck

LEMMA RuleOwn ==
  ASSUME IInv, NEW c \in Command, OwnBehind(c), RecordComplianceRule(c)
  PROVE  OwnStep(c)
<1>0. compliance \in Seq(EventOf(RuleEventType)) /\ seen[c] \in Nat /\ cmd[c].kind = "rule"
  BY StreamsTyped DEF RecordComplianceRule, At
<1>1. CASE /\ seen' = [seen EXCEPT ![c] = Len(compliance)]
           /\ Check(c, RequiredChecks # {} => cmd[c].rule \in RequiredChecks, "append")
           /\ UNCHANGED <<machine, compliance, read, attempt>>
  <2>1. UNCHANGED <<loan, agent, cmd, compliance>> /\ SignedBy(c)
    BY <1>1, Quiet
  <2>2. seen'[c] = Len(compliance) /\ pc'[c] \in {"append", "rejected"}
    BY <1>1 DEF Check, IInv, TypeOK
  <2>3. OwnWithin(c, compliance, Len(compliance))
    BY <1>0 DEF OwnWithin
  <2>4. OwnWithin(c, compliance, seen[c])'
    BY <2>1, <2>2, <2>3 DEF OwnWithin
  <2>5. OwnBehind(c)'
    BY <1>0, <2>1, <2>2, <2>4 DEF OwnBehind, OnLoan, At
  <2>6. \A d \in Command \ {c} : pc'[d] = pc[d] /\ seen'[d] = seen[d] /\ read'[d] = read[d]
    BY <1>1 DEF Check, IInv, TypeOK
  <2>7. QED
    BY <2>1, <2>5, <2>6 DEF OwnStep
<1>2. CASE /\ \E type \in RuleEventType : compliance' = Append(compliance, EventBy(c, type))
           /\ GoTo(c, "done")
           /\ UNCHANGED <<machine, seen, read, attempt>>
  <2>1. PICK type \in RuleEventType : compliance' = Append(compliance, EventBy(c, type))
    BY <1>2
  <2>2. EventBy(c, type).by = c
    BY DEF EventBy
  <2>3. SignedBy(c)
    BY <1>2, <2>1, <2>2 DEF SignedBy, Signed, machine
  <2>4. pc'[c] = "done" /\ \A d \in Command \ {c} : pc'[d] = pc[d]
    BY <1>2 DEF GoTo, IInv, TypeOK
  <2>5. QED
    BY <1>2, <2>3, <2>4, Idle DEF OwnStep
<1>3. CASE At(c, {"rule"}, "append") /\ Len(compliance) # seen[c] /\ Conflict(c)
  BY <1>0, <1>3, RivalAhead, ConflictOwn DEF OwnBehind
<1>4. QED
  BY <1>1, <1>2, <1>3 DEF RecordComplianceRule

LEMMA DecisionOwn ==
  ASSUME IInv, IInv', NEW c \in Command, OwnBehind(c), GenerateDecision(c)
  PROVE  OwnStep(c)
<1>1. CASE /\ At(c, {"decision"}, "start")
           /\ LoadLoan(c, MayDecide(loan, cmd[c].confident, cmd[c].outcome), "session")
  BY <1>1, Labels, LoadLoanOwn DEF At
<1>2. CASE /\ At(c, {"decision"}, "session")
           /\ Check(c, ChainHolds(c), "append")
           /\ UNCHANGED <<machine, compliance, seen, read, attempt>>
  <2>1. UNCHANGED <<loan, agent, cmd, compliance>> /\ SignedBy(c)
    BY <1>2, Quiet
  <2>2. seen' = seen /\ pc'[c] \in {"append", "rejected"}
    BY <1>2 DEF Check, IInv, TypeOK
  <2>3. OwnWithin(c, loan, seen[c])'
    BY <1>2, <2>1, <2>2 DEF OwnBehind, OnLoan, OwnWithin
  <2>4. OwnBehind(c)'
    BY <1>2, <2>1, <2>2, <2>3 DEF OwnBehind, OnLoan, At
  <2>5. \A d \in Command \ {c} : pc'[d] = pc[d] /\ seen'[d] = seen[d] /\ read'[d] = read[d]
    BY <1>2 DEF Check, IInv, TypeOK
  <2>6. QED
    BY <2>1, <2>4, <2>5 DEF OwnStep
<1>3. CASE At(c, {"decision"}, "append") /\ AppendLoan(c, "DecisionGenerated", "done")
  BY <1>3, AppendLoanOwn DEF OnLoan, At
<1>4. QED
  BY <1>1, <1>2, <1>3 DEF GenerateDecision

LEMMA ReviewOwn ==
  ASSUME IInv, IInv', NEW c \in Command, OwnBehind(c), HumanReviewCompleted(c)
  PROVE  OwnStep(c)
<1>1. CASE /\ At(c, {"review"}, "start")
           /\ LoadLoan(c, MayReview(loan) /\ cmd[c].explained, "append")
  BY <1>1, Labels, LoadLoanOwn DEF At
<1>2. CASE At(c, {"review"}, "append") /\ AppendLoan(c, "HumanReviewCompleted", "done")
  BY <1>2, AppendLoanOwn DEF OnLoan, At
<1>3. QED
  BY <1>1, <1>2 DEF HumanReviewCompleted

\* The tools that ask for no version, and a command that breaks off.
LEMMA UncheckedOwn ==
  ASSUME IInv, NEW c \in Command,
         SubmitApplication(c) \/ StartAgentSession(c) \/ Abort(c)
  PROVE  OwnStep(c)
<1>1. SignedBy(c)
  <2>1. CASE SubmitApplication(c)
    <3>1. /\ loan' = Append(loan, EventBy(c, "ApplicationSubmitted"))
          /\ EventBy(c, "ApplicationSubmitted").by = c
          /\ UNCHANGED <<agent, cmd, compliance>>
      BY <2>1 DEF SubmitApplication, Submit, LoanEvent, EventBy
    <3>2. QED
      BY <3>1 DEF SignedBy, Signed
  <2>2. CASE StartAgentSession(c)
    BY <2>2, AgentEventSigned DEF StartAgentSession, StartSession
  <2>3. CASE Abort(c)
    BY <2>3, Quiet DEF Abort
  <2>4. QED
    BY <2>1, <2>2, <2>3
<1>2. /\ UNCHANGED <<seen, read>>
      /\ pc'[c] \in {"done", "failed"} /\ \A d \in Command \ {c} : pc'[d] = pc[d]
  BY DEF SubmitApplication, StartAgentSession, Abort, GoTo, IInv, TypeOK
<1>3. QED
  BY <1>1, <1>2, Idle DEF OwnStep

OwnInv == \A c \in Command : OwnBehind(c)

LEMMA NextOwn == IInv /\ IInv' /\ OwnInv /\ [Next]_vars => OwnInv'
<1> SUFFICES ASSUME IInv, IInv', OwnInv, [Next]_vars PROVE OwnInv'
  OBVIOUS
<1>1. CASE UNCHANGED vars
  BY <1>1 DEF vars, machine, OwnInv, OwnBehind, OnLoan, At, OwnWithin, Rival
<1>2. ASSUME NEW c \in Command, Handle(c) \/ Abort(c) PROVE OwnInv'
  <2>1. OwnBehind(c)
    BY DEF OwnInv
  <2>2. OwnStep(c)
    BY <1>2, <2>1, UncheckedOwn, CreditOwn, FraudOwn, ComplianceOwn, RuleOwn, DecisionOwn,
       ReviewOwn DEF Handle
  <2>3. \A d \in Command \ {c} : OwnBehind(d)'
    BY <2>2, OthersKeepOwn DEF OwnStep, OwnInv
  <2>4. QED
    BY <2>2, <2>3 DEF OwnStep, OwnInv
<1>3. CASE OutsideWrites
  <2>1. PICK type : AppendOutside(type)
    BY <1>3 DEF OutsideWrites
  <2>2. SignedBy(Outside) /\ UNCHANGED <<pc, seen, read>>
    <3>1. \E e : e.by = Outside /\ loan' = Append(loan, e)
      BY <2>1 DEF AppendOutside
    <3>2. UNCHANGED <<agent, cmd, compliance, pc, seen, read>>
      BY <1>3, <2>1 DEF OutsideWrites, AppendOutside
    <3>3. QED
      BY <3>1, <3>2 DEF SignedBy, Signed
  <2>3. QED
    BY <2>2, OthersKeepOwn, RequestAssumption DEF OwnInv
<1>4. QED
  BY <1>1, <1>2, <1>3 DEF Next, Quiescent

\* A conflict is reported only when a rival's event stands right behind the version
\* that the last attempt read: handlers do not get into their own way, and a retry
\* does not stumble over what the attempt before it appended.
THEOREM ConflictsHaveRivals == Spec => []ConflictsNeedRivals
<1>1. Init => OwnInv
  BY DEF Init, OwnInv, OwnBehind, OnLoan, At
<1>2. IInv /\ IInv' /\ OwnInv /\ [Next]_vars => OwnInv'
  BY NextOwn
<1>3. IInv /\ OwnInv => ConflictsNeedRivals
  <2> SUFFICES ASSUME IInv, OwnInv, NEW c \in Command, pc[c] = "conflict"
               PROVE  \/ Len(loan) > seen[c] /\ loan[seen[c] + 1].by # c
                      \/ /\ Len(agent[cmd[c].session]) > read[c]
                         /\ agent[cmd[c].session][read[c] + 1].by # c
                      \/ Len(compliance) > seen[c] /\ compliance[seen[c] + 1].by # c
    BY DEF ConflictsNeedRivals
  <2>1. \/ Rival(c, loan, seen[c])
        \/ Rival(c, agent[cmd[c].session], read[c])
        \/ Rival(c, compliance, seen[c])
    BY DEF OwnInv, OwnBehind
  <2>2. \A S : \A log \in Seq(S) : \A version \in Nat :
          Rival(c, log, version) => Len(log) > version /\ log[version + 1].by # c
    BY DEF Rival
  <2>3. QED
    BY <2>1, <2>2, StreamsTyped
<1>4. QED
  BY <1>1, <1>2, <1>3, Invariance, PTL DEF Spec

================================================================================
