----------------------------- MODULE ReportingProofs -----------------------------
(***************************************************************************)
(* Proofs about what is reported from the store: the read models, the      *)
(* what-if projector, the audit chain and the regulatory package; for      *)
(* every history, every set of checks and payloads, and any number of      *)
(* writes, stops and changes.                                              *)
(***************************************************************************)
EXTENDS ReadModels, RegulatoryPackage, FiniteSetTheorems, SequenceTheorems,
        WellFoundedInduction, TLAPS

--------------------------------------------------------------------------------
(* Positions, and the rows at them. *)

LEMMA MaxIs ==
  ASSUME NEW S, S \subseteq Int, NEW m \in S, \A y \in S : y <= m
  PROVE  Max(S) = m
<1>1. \A x \in S : (\A y \in S : x >= y) => x = m
  OBVIOUS
<1>2. \A y \in S : m >= y
  OBVIOUS
<1>3. PICK x : x = CHOOSE z \in S : \A y \in S : z >= y
  OBVIOUS
<1>4. x \in S /\ \A y \in S : x >= y
  BY <1>2, <1>3
<1>5. QED
  BY <1>1, <1>3, <1>4 DEF Max

LEMMA LeastNat ==
  ASSUME NEW S, S \subseteq Nat, S # {}
  PROVE  \E m \in S : \A k \in S : m <= k
<1> DEFINE R == OpToRel(<, Nat)
<1>1. PICK m \in S : \A k \in S : ~ (<<k, m>> \in R)
  <2>1. IsWellFoundedOn(R, Nat)
    BY NatLessThanWellFounded
  <2> HIDE DEF R
  <2>2. QED
    BY <2>1, WFMin
<1>2. \A k, l \in Nat : <<k, l>> \in R <=> k < l
  BY DEF OpToRel
<1>3. \A k \in S : m <= k
  <2> HIDE DEF R
  <2>1. TAKE k \in S
  <2>2. k \in Nat /\ m \in Nat /\ ~(k < m)
    BY <1>1, <1>2
  <2>3. QED
    BY <2>2
<1>4. QED
  BY <1>3

LEMMA Greatest ==
  ASSUME NEW n \in Nat, NEW S, S \subseteq 1..n, S # {}
  PROVE  \E m \in S : \A y \in S : y <= m
<1> DEFINE Gaps == {n - y : y \in S}
<1>1. \A y \in S : y \in Nat /\ n - y \in Nat
  OBVIOUS
<1>2. Gaps \subseteq Nat /\ Gaps # {}
  BY <1>1
<1>3. PICK g \in Gaps : \A k \in Gaps : g <= k
  <2> HIDE DEF Gaps
  <2>1. QED
    BY <1>2, LeastNat
<1>4. PICK m \in S : g = n - m
  OBVIOUS
<1>5. \A y \in S : n - m <= n - y
  BY <1>3, <1>4
<1>6. \A y \in S : y <= m
  BY <1>1, <1>5
<1>7. QED
  BY <1>6

LEMMA SeqWider ==
  ASSUME NEW S, NEW T, S \subseteq T, NEW s \in Seq(S)
  PROVE  s \in Seq(T)
<1>1. Len(s) \in Nat /\ s \in [1..Len(s) -> T]
  OBVIOUS
<1>2. QED
  BY <1>1

\* The last of the picked positions is the greatest.
LEMMA NthLast ==
  ASSUME NEW n \in Nat, NEW S, S \subseteq 1..n, NEW m \in S, \A y \in S : y <= m
  PROVE  IsFiniteSet(S) /\ Cardinality(S) \in Nat \ {0} /\ Nth(S, Cardinality(S)) = m
<1> DEFINE Below(i) == {j \in S : j < i}
<1>0. \A i \in S : i \in Nat
  OBVIOUS
<1>1. IsFiniteSet(S)
  <2>1. IsFiniteSet(1..n)
    BY FS_Interval
  <2>2. QED
    BY <2>1, FS_Subset
<1>2. Cardinality(S) \in Nat \ {0}
  BY <1>1, FS_CardinalityType, FS_EmptySet
<1>3. Cardinality(Below(m)) = Cardinality(S) - 1
  <2>0. \A j \in S : j < m <=> j # m
    BY <1>0
  <2>1. Below(m) = S \ {m}
    BY <2>0
  <2>2. QED
    BY <1>1, <2>1, FS_RemoveElement
<1>4. ASSUME NEW i \in S, i # m PROVE Cardinality(Below(i)) # Cardinality(S) - 1
  <2>1. Below(i) \subseteq (S \ {m}) \ {i}
    BY <1>4
  <2>2. /\ IsFiniteSet((S \ {m}) \ {i})
        /\ Cardinality((S \ {m}) \ {i}) = Cardinality(S) - 2
    <3>1. IsFiniteSet(S \ {m}) /\ Cardinality(S \ {m}) = Cardinality(S) - 1
      BY <1>1, FS_RemoveElement
    <3>2. i \in S \ {m}
      BY <1>4
    <3>3. /\ IsFiniteSet((S \ {m}) \ {i})
          /\ Cardinality((S \ {m}) \ {i}) = Cardinality(S \ {m}) - 1
      BY <3>1, <3>2, FS_RemoveElement
    <3>4. QED
      BY <1>2, <3>1, <3>3
  <2>3. Cardinality(Below(i)) \in Nat /\ Cardinality(Below(i)) <= Cardinality(S) - 2
    <3>1. IsFiniteSet(Below(i)) /\ Cardinality(Below(i)) <= Cardinality((S \ {m}) \ {i})
      <4> HIDE DEF Below
      <4>1. QED
        BY <2>1, <2>2, FS_Subset
    <3>2. QED
      BY <2>2, <3>1, FS_CardinalityType
  <2>4. QED
    BY <1>2, <2>3
<1>5. PICK x : x = Nth(S, Cardinality(S))
  OBVIOUS
<1>6. x \in S /\ Cardinality(Below(x)) = Cardinality(S) - 1
  BY <1>3, <1>5 DEF Nth
<1>7. x = m
  BY <1>4, <1>6
<1>8. QED
  BY <1>1, <1>2, <1>5, <1>7

\* In an interval the k-th position is k.
LEMMA NthAll ==
  ASSUME NEW n \in Nat, NEW k \in 1..n
  PROVE  Nth(1..n, k) = k
<1>1. \A i \in 1..n : {j \in 1..n : j < i} = 1..(i - 1)
  OBVIOUS
<1>2. \A i \in 1..n : Cardinality({j \in 1..n : j < i}) = i - 1
  <2>1. TAKE i \in 1..n
  <2>2. i - 1 \in Int /\ 1 \in Int /\ ~(1 > i - 1 /\ i - 1 # 0)
    OBVIOUS
  <2>3. Cardinality(1..(i - 1)) = i - 1
    BY <2>2, FS_Interval
  <2>4. QED
    BY <1>1, <2>3
<1>3. PICK x : x = Nth(1..n, k)
  OBVIOUS
<1>4. x \in 1..n /\ Cardinality({j \in 1..n : j < x}) = k - 1
  BY <1>2, <1>3 DEF Nth
<1>5. x = k
  BY <1>2, <1>4
<1>6. QED
  BY <1>3, <1>5

\* The last of the picked rows is the one at the greatest position.
LEMMA LastPicked ==
  ASSUME NEW rows, NEW n \in Nat, NEW S, S \subseteq 1..n, NEW m \in S,
         \A y \in S : y <= m
  PROVE  Picked(rows, S) # <<>> /\ Last(Picked(rows, S)) = rows[m]
<1>1. PICK c : c = Cardinality(S)
  OBVIOUS
<1>2. c \in Nat \ {0} /\ Nth(S, c) = m
  BY <1>1, NthLast
<1>3. PICK p : p = Picked(rows, S)
  OBVIOUS
<1>4. p = [k \in 1..c |-> rows[Nth(S, k)]]
  BY <1>1, <1>3 DEF Picked
<1>5. Len(p) = c /\ p[c] = rows[m]
  BY <1>2, <1>4
<1>6. p # <<>>
  BY <1>2, <1>5
<1>7. QED
  BY <1>3, <1>5, <1>6 DEF Last

--------------------------------------------------------------------------------
(* Recursion over the elements of a list. *)

\* What the i-th element of a list of n does to a value.
Steps(V, n) == [1..n -> [V -> V]]

Solves(f, V, n, base, step) ==
  /\ f \in [0..n -> V]
  /\ f[0] = base
  /\ \A i \in 1..n : f[i] = step[i][f[i - 1]]

\* There is a function of the values before, between and behind the elements.
LEMMA StepsDefine ==
  ASSUME NEW V, NEW n \in Nat, NEW base \in V, NEW step \in Steps(V, n)
  PROVE  \E f : Solves(f, V, n, base, step)
<1> DEFINE Upto(f, m) == /\ f \in [0..m -> V]
                         /\ f[0] = base
                         /\ \A i \in 1..m : f[i] = step[i][f[i - 1]]
           S == {m \in 0..n : ~ \E f : Upto(f, m)}
<1>1. CASE S = {}
  <2>1. n \in 0..n
    OBVIOUS
  <2>2. ~(n \in S)
    BY <1>1, Zenon
  <2>3. PICK f : Upto(f, n)
    BY <2>1, <2>2
  <2>4. QED
    BY <2>3 DEF Solves
<1>2. CASE S # {}
  <2>1. S \subseteq Nat
    OBVIOUS
  <2>2. PICK m \in S : \A k \in S : m <= k
    <3> HIDE DEF S
    <3>1. QED
      BY <1>2, <2>1, LeastNat
  <2>3. m \in 0..n /\ ~ \E f : Upto(f, m)
    OBVIOUS
  <2>4. m # 0
    <3>1. Upto([i \in 0..0 |-> base], 0)
      OBVIOUS
    <3> HIDE DEF Upto
    <3>2. QED
      BY <2>3, <3>1
  <2>5. m - 1 \in 0..n /\ m - 1 \notin S
    <3>1. m \in Nat /\ m - 1 \in 0..n /\ ~(m <= m - 1)
      BY <2>3, <2>4
    <3> HIDE DEF S
    <3>2. QED
      BY <2>2, <3>1
  <2>6. PICK f : Upto(f, m - 1)
    <3> HIDE DEF Upto
    <3>1. QED
      BY <2>5
  <2> DEFINE g == [i \in 0..m |-> IF i = m THEN step[m][f[m - 1]] ELSE f[i]]
  <2>7. m \in 1..n /\ step[m] \in [V -> V] /\ f[m - 1] \in V
    BY <2>3, <2>4, <2>6 DEF Steps
  <2>8. g \in [0..m -> V] /\ g[0] = base
    <3>1. \A i \in 0..m : i = m \/ i \in 0..(m - 1)
      BY <2>7
    <3>2. QED
      BY <2>4, <2>6, <2>7, <3>1
  <2>9. \A i \in 1..m : g[i] = step[i][g[i - 1]]
    <3>1. TAKE i \in 1..m
    <3>2. i - 1 \in 0..m /\ i - 1 # m /\ g[i - 1] = f[i - 1]
      BY <2>7
    <3>3. CASE i = m
      BY <2>7, <3>2, <3>3
    <3>4. CASE i # m
      BY <2>6, <2>7, <3>2, <3>4
    <3>5. QED
      BY <3>3, <3>4
  <2>10. Upto(g, m)
    <3> HIDE DEF g
    <3>1. QED
      BY <2>8, <2>9
  <2>11. QED
    <3> HIDE DEF Upto, g
    <3>1. QED
      BY <2>3, <2>10
<1>3. QED
  BY <1>1, <1>2

\* There is only one, also among functions of another list that begins in the same way.
Alike(f, g, m) ==
  /\ f[0] = g[0]
  /\ \A i \in 1..m : f[i - 1] = g[i - 1] => f[i] = g[i]

LEMMA StepsAgree ==
  ASSUME NEW m \in Nat, NEW f, NEW g, Alike(f, g, m)
  PROVE  \A i \in 0..m : f[i] = g[i]
<1> DEFINE S == {i \in 0..m : f[i] # g[i]}
<1>1. CASE S = {}
  BY <1>1 DEF Alike
<1>2. CASE S # {}
  <2>1. S \subseteq Nat
    OBVIOUS
  <2>2. PICK k \in S : \A i \in S : k <= i
    <3> HIDE DEF S
    <3>1. QED
      BY <1>2, <2>1, LeastNat
  <2>3. k \in 1..m /\ f[k] # g[k]
    BY DEF Alike
  <2>4. k - 1 \notin S /\ k - 1 \in 0..m
    <3>1. k \in Nat /\ k - 1 \in 0..m /\ ~(k <= k - 1)
      BY <2>3
    <3> HIDE DEF S
    <3>2. QED
      BY <2>2, <3>1
  <2>5. f[k - 1] = g[k - 1]
    BY <2>4
  <2>6. QED
    BY <2>3, <2>5 DEF Alike
<1>3. QED
  BY <1>1, <1>2

LEMMA TotalSolved ==
  ASSUME NEW values \in Seq(Int)
  PROVE  \E f \in [0..Len(values) -> Int] :
           /\ f[0] = 0
           /\ \A i \in 1..Len(values) : f[i] = f[i - 1] + values[i]
           /\ Total(values) = f[Len(values)]
<1>1. PICK n : n = Len(values)
  OBVIOUS
<1>2. n \in Nat /\ \A i \in 1..n : values[i] \in Int
  BY <1>1
<1> DEFINE step == [i \in 1..n |-> [x \in Int |-> x + values[i]]]
<1>3. step \in Steps(Int, n) /\ 0 \in Int
  BY <1>2 DEF Steps
<1>4. \A i \in 1..n, x \in Int : step[i][x] = x + values[i]
  BY <1>2
<1>5. PICK f : Solves(f, Int, n, 0, step)
  <2> HIDE DEF step
  <2>1. QED
    BY <1>2, <1>3, StepsDefine
<1>6. f \in [0..n -> Int] /\ f[0] = 0 /\ \A i \in 1..n : f[i] = f[i - 1] + values[i]
  <2> HIDE DEF step
  <2>1. f \in [0..n -> Int] /\ f[0] = 0 /\ \A i \in 1..n : f[i] = step[i][f[i - 1]]
    BY <1>5 DEF Solves
  <2>2. \A i \in 1..n : i - 1 \in 0..n
    BY <1>2
  <2>3. QED
    BY <1>4, <2>1, <2>2
<1> DEFINE Eq(sum) == sum = [i \in 0..n |-> IF i = 0 THEN 0 ELSE sum[i - 1] + values[i]]
<1>7. Eq(f)
  <2>1. \A i \in 0..n : i = 0 \/ i \in 1..n
    OBVIOUS
  <2>2. \A i \in 0..n : f[i] = IF i = 0 THEN 0 ELSE f[i - 1] + values[i]
    BY <1>6, <2>1
  <2>3. QED
    BY <1>6, <2>2
<1>8. PICK g : g = CHOOSE sum : Eq(sum)
  OBVIOUS
<1>9. Eq(g)
  <2> HIDE DEF Eq
  <2>1. QED
    BY <1>7, <1>8
<1>10. Total(values) = g[n]
  BY <1>1, <1>8 DEF Total
<1>11. g[0] = 0 /\ \A i \in 1..n : g[i] = g[i - 1] + values[i]
  <2>1. \A i \in 1..n : i \in 0..n /\ i # 0
    BY <1>2
  <2>2. 0 \in 0..n
    BY <1>2
  <2>3. QED
    BY <1>9, <2>1, <2>2
<1>12. \A i \in 0..n : f[i] = g[i]
  <2>1. Alike(f, g, n)
    BY <1>6, <1>11 DEF Alike
  <2>2. QED
    BY <1>2, <2>1, StepsAgree
<1>13. n \in 0..n
  BY <1>2
<1>14. QED
  BY <1>1, <1>6, <1>10, <1>12, <1>13

LEMMA TotalEmpty == Total(<<>>) = 0
<1>1. <<>> \in Seq(Int) /\ Len(<<>>) = 0
  OBVIOUS
<1>2. QED
  BY <1>1, TotalSolved

LEMMA TotalAppend ==
  ASSUME NEW values \in Seq(Int), NEW v \in Int
  PROVE  /\ Total(values) \in Int
         /\ Total(Append(values, v)) = Total(values) + v
<1>1. PICK n, longer : n = Len(values) /\ longer = Append(values, v)
  OBVIOUS
<1>2. /\ n \in Nat /\ longer \in Seq(Int) /\ Len(longer) = n + 1
      /\ longer[n + 1] = v /\ \A i \in 1..n : longer[i] = values[i]
  BY <1>1
<1>3. PICK f \in [0..n -> Int] :
        /\ f[0] = 0
        /\ \A i \in 1..n : f[i] = f[i - 1] + values[i]
        /\ Total(values) = f[n]
  BY <1>1, TotalSolved
<1>4. PICK g \in [0..(n + 1) -> Int] :
        /\ g[0] = 0
        /\ \A i \in 1..(n + 1) : g[i] = g[i - 1] + longer[i]
        /\ Total(longer) = g[n + 1]
  BY <1>2, TotalSolved
<1>5. \A i \in 1..n : i \in 1..(n + 1)
  BY <1>2
<1>6. \A i \in 0..n : f[i] = g[i]
  <2>1. Alike(f, g, n)
    BY <1>2, <1>3, <1>4, <1>5 DEF Alike
  <2>2. n \in Nat
    BY <1>2
  <2>3. QED
    BY <2>1, <2>2, StepsAgree, Zenon
<1>7. n \in 0..n /\ n + 1 \in 1..(n + 1) /\ (n + 1) - 1 = n
  BY <1>2
<1>8. f[n] = g[n] /\ g[n + 1] = g[n] + v
  BY <1>2, <1>4, <1>6, <1>7
<1>9. QED
  BY <1>1, <1>3, <1>4, <1>7, <1>8

--------------------------------------------------------------------------------
(* Events as they are stored and as they are delivered. *)

Delivery ==
  [type : EventType, by : Author, app : App, outcome : Recommendation,
   score : Score \cup {0}, model : {"v2", NoModel, "legacy-pre-2026"},
   confidence : Score \cup {Null}, version : Nat, cause : Nat]

\* What upcasting leaves as it is.
SameBut(e, u) ==
  /\ u.type = e.type /\ u.by = e.by /\ u.app = e.app /\ u.outcome = e.outcome
  /\ u.score = e.score /\ u.confidence = e.confidence /\ u.cause = e.cause

LEMMA UpgradeKeeps ==
  ASSUME NEW e \in Delivery
  PROVE  Upgrade(e) \in Delivery /\ SameBut(e, Upgrade(e))
<1>1. PICK m : m = IF e.type = "CreditAnalysisCompleted" /\ e.model = NoModel
                   THEN "legacy-pre-2026" ELSE e.model
  OBVIOUS
<1>2. Upgrade(e) = [e EXCEPT !.version = e.version + 1, !.model = m]
  BY <1>1 DEF Upgrade
<1>3. m \in {"v2", NoModel, "legacy-pre-2026"} /\ e.version + 1 \in Nat
  BY <1>1 DEF Delivery
<1>4. QED
  BY <1>2, <1>3 DEF Delivery, SameBut

LEMMA UpcastKeeps ==
  ASSUME NEW e \in Delivery
  PROVE  Upcast(e) \in Delivery /\ SameBut(e, Upcast(e))
<1>1. PICK c : c = Cardinality(Registered)
  OBVIOUS
<1>2. c = 2
  <2>1. PICK p, q : p = <<"CreditAnalysisCompleted", 1>> /\ q = <<"DecisionGenerated", 1>>
    OBVIOUS
  <2>2. q \notin {p}
    BY <2>1
  <2>3. IsFiniteSet({p}) /\ Cardinality({p}) = 1
    BY FS_Singleton
  <2>4. Cardinality({p} \cup {q}) = 2
    BY <2>2, <2>3, FS_AddElement
  <2>5. Registered = {p} \cup {q}
    BY <2>1 DEF Registered
  <2>6. QED
    BY <1>1, <2>4, <2>5
<1> DEFINE Step(x) == IF <<x.type, x.version>> \in Registered THEN Upgrade(x) ELSE x
           Eq(walk) == walk = [n \in 0..c |-> IF n = 0 THEN e ELSE Step(walk[n - 1])]
           g == [n \in 0..2 |-> IF n = 0 THEN e ELSE IF n = 1 THEN Step(e) ELSE Step(Step(e))]
<1>3. Eq(g)
  <2> HIDE DEF Step
  <2>1. \A n \in 0..2 : n = 0 \/ n = 1 \/ n = 2
    OBVIOUS
  <2>2. QED
    BY <1>2, <2>1
<1>4. PICK w : w = CHOOSE walk : Eq(walk)
  OBVIOUS
<1>5. Eq(w)
  BY <1>3, <1>4
<1>6. Upcast(e) = w[c]
  BY <1>1, <1>4 DEF Upcast
<1>7. w[2] = Step(Step(e))
  <2> HIDE DEF Step
  <2>1. w[0] = e /\ w[1] = Step(w[0]) /\ w[2] = Step(w[1])
    BY <1>2, <1>5
  <2>2. QED
    BY <2>1
<1>8. \A x \in Delivery : Step(x) \in Delivery /\ SameBut(x, Step(x))
  <2>1. TAKE x \in Delivery
  <2>2. Upgrade(x) \in Delivery /\ SameBut(x, Upgrade(x)) /\ SameBut(x, x)
    BY UpgradeKeeps DEF SameBut
  <2>3. QED
    BY <2>2
<1>9. QED
  <2> HIDE DEF Step
  <2>1. Upcast(e) = Step(Step(e))
    BY <1>2, <1>6, <1>7
  <2>2. QED
    BY <1>8, <2>1 DEF SameBut

SummaryRow ==
  [state : SummaryState, risk_tier : Score \cup {0},
   compliance_status : {"none", "CLEARED"}, decision : Recommendation \cup {"none"},
   last_event_type : EventType \cup {"none"}]

ReadTypeOK ==
  /\ log \in Seq(Event)
  /\ projection \in Projection
  /\ row \in [App -> SummaryRow]
  /\ ledger = [k \in Keys |-> ledger[k]]
  /\ checkpoint \in Nat
  /\ next \in Nat \ {0}
  /\ handled \in Seq(1..Len(log))

LEMMA EventDelivered ==
  ASSUME NEW e \in Event
  PROVE  e \in Delivery /\ Upcast(e) \in Delivery /\ SameBut(e, Upcast(e))
<1>1. e \in Delivery
  BY DEF Event, Delivery
<1>2. QED
  BY <1>1, UpcastKeeps

\* A row in a state.
RowIn(r, s) == r \in SummaryRow /\ r.state = s

\* What the handler of each type does to a row: the state it sets, and a row again.
LEMMA HandlerEffects ==
  ASSUME NEW r \in SummaryRow, NEW e \in Delivery
  PROVE  /\ e.type = "ApplicationSubmitted" => RowIn(SummaryAfter(r, e), "SUBMITTED")
         /\ e.type = "CreditAnalysisRequested" => RowIn(Updated(r, e), "AWAITING_ANALYSIS")
         /\ e.type = "CreditAnalysisCompleted" => RowIn(Updated(r, e), "ANALYSIS_COMPLETE")
         /\ e.type = "FraudScreeningCompleted" => RowIn(Updated(r, e), r.state)
         /\ e.type = "ComplianceCheckRequested" => RowIn(Updated(r, e), "COMPLIANCE_REVIEW")
         /\ e.type \in {"ComplianceRulePassed", "ComplianceRuleFailed"} =>
              RowIn(Updated(r, e), r.state)
         /\ e.type = "ComplianceClearanceIssued" => RowIn(Updated(r, e), "PENDING_DECISION")
         /\ e.type = "DecisionGenerated" =>
              RowIn(Updated(r, e), IF e.outcome = "APPROVE" THEN "APPROVED_PENDING_HUMAN"
                                                            ELSE "DECLINED_PENDING_HUMAN")
         /\ e.type = "HumanReviewCompleted" =>
              RowIn(Updated(r, e), IF e.outcome = "APPROVE" THEN "FINAL_APPROVED"
                                                            ELSE "FINAL_DECLINED")
         /\ e.type = "ApplicationApproved" => RowIn(Updated(r, e), "FINAL_APPROVED")
         /\ e.type = "ApplicationDeclined" => RowIn(Updated(r, e), "FINAL_DECLINED")
<1>1. e.type \in EventType /\ e.outcome \in Recommendation /\ e.score \in Score \cup {0}
  BY DEF Delivery
<1>2. PICK t : t = Touched(r, e)
  OBVIOUS
<1>3. t \in SummaryRow /\ t.state = r.state
  BY <1>1, <1>2 DEF Touched, SummaryRow
<1>4. ASSUME NEW s \in SummaryState
      PROVE  RowIn([t EXCEPT !.state = s], s)
  BY <1>3 DEF SummaryRow, RowIn
<1>5. /\ {"SUBMITTED", "AWAITING_ANALYSIS", "COMPLIANCE_REVIEW", "ANALYSIS_COMPLETE",
          "PENDING_DECISION", "APPROVED_PENDING_HUMAN", "DECLINED_PENDING_HUMAN",
          "FINAL_APPROVED", "FINAL_DECLINED"} \subseteq SummaryState
  BY DEF SummaryState
<1>6. RowIn(t, r.state)
  BY <1>3 DEF RowIn
<1>7. PICK u : u = Updated(r, e)
  OBVIOUS
<1>8. CASE e.type = "ApplicationSubmitted"
  <2>1. SummaryAfter(r, e) = [t EXCEPT !.state = "SUBMITTED"]
    BY <1>2, <1>8 DEF SummaryAfter, _SUBSCRIBED_EVENTS, _handle_ApplicationSubmitted
  <2>2. QED
    BY <1>4, <1>5, <1>8, <2>1
<1>9. CASE e.type = "CreditAnalysisRequested"
  <2>1. u = [t EXCEPT !.state = "AWAITING_ANALYSIS"]
    BY <1>2, <1>7, <1>9 DEF Updated, _handle_generic
  <2>2. QED
    BY <1>4, <1>5, <1>7, <1>9, <2>1
<1>10. CASE e.type = "CreditAnalysisCompleted"
  <2>1. PICK v : v = IF e.by = "handlers" THEN e.score ELSE 0
    OBVIOUS
  <2>2. v \in Score \cup {0}
    BY <1>1, <2>1
  <2>3. u = [t EXCEPT !.state = "ANALYSIS_COMPLETE", !.risk_tier = v]
    BY <1>2, <1>7, <1>10, <2>1 DEF Updated, _handle_CreditAnalysisCompleted
  <2>4. RowIn([t EXCEPT !.state = "ANALYSIS_COMPLETE", !.risk_tier = v], "ANALYSIS_COMPLETE")
    BY <1>3, <1>5, <2>2 DEF SummaryRow, RowIn
  <2>5. QED
    BY <1>7, <1>10, <2>3, <2>4
<1>11. CASE e.type = "FraudScreeningCompleted"
  <2>1. u = t
    BY <1>2, <1>7, <1>11 DEF Updated, _handle_FraudScreeningCompleted
  <2>2. QED
    BY <1>6, <1>7, <1>11, <2>1
<1>12. CASE e.type = "ComplianceCheckRequested"
  <2>1. u = [t EXCEPT !.state = "COMPLIANCE_REVIEW"]
    BY <1>2, <1>7, <1>12 DEF Updated, _handle_generic
  <2>2. QED
    BY <1>4, <1>5, <1>7, <1>12, <2>1
<1>13. CASE e.type \in {"ComplianceRulePassed", "ComplianceRuleFailed"}
  <2>1. u = [t EXCEPT !.state = t.state]
    BY <1>2, <1>7, <1>13 DEF Updated, _handle_generic
  <2>2. [t EXCEPT !.state = t.state] = t
    BY <1>3 DEF SummaryRow
  <2>3. QED
    BY <1>6, <1>7, <1>13, <2>1, <2>2
<1>14. CASE e.type = "ComplianceClearanceIssued"
  <2>1. u = [t EXCEPT !.state = "PENDING_DECISION", !.compliance_status = "CLEARED"]
    BY <1>2, <1>7, <1>14 DEF Updated, _handle_ComplianceClearanceIssued
  <2>2. RowIn([t EXCEPT !.state = "PENDING_DECISION", !.compliance_status = "CLEARED"],
              "PENDING_DECISION")
    BY <1>3, <1>5 DEF SummaryRow, RowIn
  <2>3. QED
    BY <1>7, <1>14, <2>1, <2>2
<1>15. CASE e.type = "DecisionGenerated"
  <2>1. PICK s : s = IF e.outcome = "APPROVE" THEN "APPROVED_PENDING_HUMAN"
                                              ELSE "DECLINED_PENDING_HUMAN"
    OBVIOUS
  <2>2. s \in SummaryState
    BY <1>5, <2>1
  <2>3. u = [t EXCEPT !.state = s, !.decision = e.outcome]
    BY <1>2, <1>7, <1>15, <2>1 DEF Updated, _handle_DecisionGenerated
  <2>4. RowIn([t EXCEPT !.state = s, !.decision = e.outcome], s)
    BY <1>1, <1>3, <2>2 DEF SummaryRow, RowIn
  <2>5. QED
    BY <1>7, <1>15, <2>1, <2>3, <2>4
<1>16. CASE e.type = "HumanReviewCompleted"
  <2>1. PICK s : s = IF e.outcome = "APPROVE" THEN "FINAL_APPROVED" ELSE "FINAL_DECLINED"
    OBVIOUS
  <2>2. s \in SummaryState
    BY <1>5, <2>1
  <2>3. u = [t EXCEPT !.state = s]
    BY <1>2, <1>7, <1>16, <2>1 DEF Updated, _handle_HumanReviewCompleted
  <2>4. QED
    BY <1>4, <1>7, <1>16, <2>1, <2>2, <2>3
<1>17. CASE e.type = "ApplicationApproved"
  <2>1. u = [t EXCEPT !.state = "FINAL_APPROVED"]
    BY <1>2, <1>7, <1>17 DEF Updated, _handle_ApplicationApproved
  <2>2. QED
    BY <1>4, <1>5, <1>7, <1>17, <2>1
<1>18. CASE e.type = "ApplicationDeclined"
  <2>1. u = [t EXCEPT !.state = "FINAL_DECLINED"]
    BY <1>2, <1>7, <1>18 DEF Updated, _handle_ApplicationDeclined
  <2>2. QED
    BY <1>4, <1>5, <1>7, <1>18, <2>1
<1>19. QED
  BY <1>8, <1>9, <1>10, <1>11, <1>12, <1>13, <1>14, <1>15, <1>16, <1>17, <1>18

\* The state an event that moves the loan leads to, type by type.
LEMMA StatesAfter ==
  ASSUME NEW e
  PROVE  /\ e.type = "ApplicationSubmitted" => StateAfter(e) = "SUBMITTED"
         /\ e.type = "CreditAnalysisRequested" => StateAfter(e) = "AWAITING_ANALYSIS"
         /\ e.type = "CreditAnalysisCompleted" => StateAfter(e) = "ANALYSIS_COMPLETE"
         /\ e.type = "ComplianceCheckRequested" => StateAfter(e) = "COMPLIANCE_REVIEW"
         /\ e.type = "ComplianceClearanceIssued" => StateAfter(e) = "PENDING_DECISION"
         /\ e.type = "ApplicationApproved" => StateAfter(e) = "FINAL_APPROVED"
         /\ e.type = "ApplicationDeclined" => StateAfter(e) = "FINAL_DECLINED"
         /\ e.type = "DecisionGenerated" =>
              StateAfter(e) = IF e.outcome = "APPROVE" THEN "APPROVED_PENDING_HUMAN"
                                                       ELSE "DECLINED_PENDING_HUMAN"
         /\ e.type = "HumanReviewCompleted" =>
              StateAfter(e) = IF e.outcome = "APPROVE" THEN "FINAL_APPROVED"
                                                       ELSE "FINAL_DECLINED"
<1>1. PICK t : t = e.type
  OBVIOUS
<1>2. DOMAIN StateOn = {"ApplicationSubmitted", "CreditAnalysisRequested",
        "CreditAnalysisCompleted", "FraudScreeningRequested", "ComplianceCheckRequested",
        "ComplianceClearanceIssued", "ApplicationApproved", "ApplicationDeclined"}
  BY DEF StateOn
<1>3. /\ StateOn["ApplicationSubmitted"] = "SUBMITTED"
      /\ StateOn["CreditAnalysisRequested"] = "AWAITING_ANALYSIS"
      /\ StateOn["CreditAnalysisCompleted"] = "ANALYSIS_COMPLETE"
      /\ StateOn["ComplianceCheckRequested"] = "COMPLIANCE_REVIEW"
      /\ StateOn["ComplianceClearanceIssued"] = "PENDING_DECISION"
      /\ StateOn["ApplicationApproved"] = "FINAL_APPROVED"
      /\ StateOn["ApplicationDeclined"] = "FINAL_DECLINED"
  BY DEF StateOn
<1>4. QED
  BY <1>2, <1>3 DEF StateAfter

LEMMA SummaryTyped ==
  ASSUME NEW r \in SummaryRow, NEW e \in Delivery
  PROVE  SummaryAfter(r, e) \in SummaryRow
<1>1. e.type \in _SUBSCRIBED_EVENTS \ {"ApplicationSubmitted"} => Updated(r, e) \in SummaryRow
  BY HandlerEffects DEF _SUBSCRIBED_EVENTS, RowIn
<1>2. QED
  BY <1>1, HandlerEffects DEF SummaryAfter, RowIn

\* What handling an event does to the state of a row that is there, or is made by it.
LEMMA SummaryMoves ==
  ASSUME NEW r \in SummaryRow, NEW e \in Delivery, r = NoRow \/ r.state # "NONE"
  PROVE  LET after == SummaryAfter(r, e)
             there == r # NoRow \/ e.type = "ApplicationSubmitted"
         IN  /\ ~there => after = NoRow
             /\ there => after.state # "NONE"
             /\ there /\ e.type \in LoanEventType \ {"FraudScreeningRequested"} =>
                  after.state = StateAfter(e)
             /\ e.type \notin LoanEventType \ {"FraudScreeningRequested"} =>
                  after.state = r.state
<1> DEFINE after == SummaryAfter(r, e)
<1>1. e.type \in EventType /\ e.outcome \in Recommendation
  BY DEF Delivery
<1>2. NoRow.state = "NONE"
  BY DEF NoRow
<1>4. CASE e.type \notin _SUBSCRIBED_EVENTS
  <2>1. after = r
    BY <1>4 DEF SummaryAfter
  <2>2. e.type \notin LoanEventType \ {"FraudScreeningRequested"}
    BY <1>4 DEF _SUBSCRIBED_EVENTS, LoanEventType, StateOn
  <2>3. e.type # "ApplicationSubmitted"
    BY <1>4 DEF _SUBSCRIBED_EVENTS
  <2>4. QED
    BY <2>1, <2>2, <2>3
<1>5. CASE e.type = "ApplicationSubmitted"
  <2>2. after.state = "SUBMITTED"
    BY <1>5, HandlerEffects DEF RowIn
  <2>3. StateAfter(e) = "SUBMITTED" /\ e.type \in LoanEventType \ {"FraudScreeningRequested"}
    BY <1>5, StatesAfter DEF StateOn, LoanEventType
  <2>4. QED
    BY <1>5, <2>2, <2>3
<1>6. CASE e.type \in _SUBSCRIBED_EVENTS \ {"ApplicationSubmitted"} /\ r = NoRow
  <2>1. after = NoRow
    BY <1>6 DEF SummaryAfter
  <2>2. QED
    BY <1>6, <2>1
<1>7. CASE e.type \in _SUBSCRIBED_EVENTS \ {"ApplicationSubmitted"} /\ r # NoRow
  <2>1. after = Updated(r, e)
    BY <1>7 DEF SummaryAfter
  <2>2. r.state # "NONE"
    BY <1>7
  <2>3. CASE e.type \notin LoanEventType
    <3>1. e.type \in {"FraudScreeningCompleted", "ComplianceRulePassed", "ComplianceRuleFailed"}
      BY <1>1, <1>7, <2>3 DEF _SUBSCRIBED_EVENTS, LoanEventType, StateOn
    <3>2. Updated(r, e).state = r.state
      BY <3>1, HandlerEffects DEF RowIn
    <3>3. QED
      BY <1>7, <2>1, <2>2, <2>3, <3>2
  <2>4. CASE e.type \in LoanEventType
    <3>1. e.type # "FraudScreeningRequested"
      BY <1>7 DEF _SUBSCRIBED_EVENTS
    <3>2. Updated(r, e).state = StateAfter(e)
      <4>1. e.type \in {"CreditAnalysisRequested", "CreditAnalysisCompleted",
                       "ComplianceCheckRequested", "ComplianceClearanceIssued",
                       "DecisionGenerated", "HumanReviewCompleted",
                       "ApplicationApproved", "ApplicationDeclined"}
        BY <1>7, <2>4, <3>1 DEF LoanEventType, StateOn
      <4>2. PICK u, v : u = Updated(r, e).state /\ v = StateAfter(e)
        OBVIOUS
      <4>3. QED
        BY <4>1, <4>2, HandlerEffects, StatesAfter DEF RowIn
    <3>3. StateAfter(e) # "NONE"
      BY <2>4 DEF StateAfter, LoanEventType, StateOn
    <3>4. QED
      BY <1>7, <2>1, <2>4, <3>1, <3>2, <3>3
  <2>5. QED
    BY <2>3, <2>4
<1>8. QED
  BY <1>1, <1>4, <1>5, <1>6, <1>7


LEMMA PlainTyped ==
  ASSUME NEW type \in EventType, NEW a \in App
  PROVE  /\ Plain(type, a) \in Event
         /\ Plain(type, a).type = type /\ Plain(type, a).app = a
<1>1. /\ "handlers" \in Author /\ "REFER" \in Recommendation
      /\ Null \in Score \cup {Null} /\ 1 \in 1..2
  BY DEF Author, Recommendation
<1>2. QED
  BY <1>1 DEF Plain, Event, Null

\* What is written are events of the application they are written for.
LEMMA EventsTyped ==
  ASSUME NEW a \in App, log \in Seq(Event)
  PROVE  HandlerEvents(a) \cup AgentEvents(a) \subseteq Event
<1> DEFINE Analysis(s, c, v) ==
             [Plain("CreditAnalysisCompleted", a) EXCEPT
                !.score = s, !.cause = c, !.version = v,
                !.model = IF v = 1 THEN NoModel ELSE "v2",
                !.confidence = IF v = 1 THEN Null ELSE s]
           Decision(o, c, v) ==
             [Plain("DecisionGenerated", a) EXCEPT
                !.outcome = o, !.cause = c, !.version = v,
                !.model = IF v = 1 THEN NoModel ELSE "v2"]
           Review(o, c) ==
             [Plain("HumanReviewCompleted", a) EXCEPT !.outcome = o, !.cause = c]
<1>1. {"ApplicationSubmitted", "CreditAnalysisRequested",
        "CreditAnalysisCompleted", "FraudScreeningRequested", "ComplianceCheckRequested",
        "ComplianceClearanceIssued", "ApplicationApproved", "ApplicationDeclined",
        "DecisionGenerated", "HumanReviewCompleted", "AgentContextLoaded",
        "FraudScreeningCompleted", "ComplianceRulePassed", "ComplianceRuleFailed"}
      \subseteq EventType
  BY DEF EventType, LoanEventType, StateOn
<1>2. \A c \in Causes(a) : c \in Nat
  BY DEF Causes
<1>3. /\ "handlers" \in Author /\ "agents" \in Author
      /\ {"APPROVE", "DECLINE", "REFER"} \subseteq Recommendation
      /\ Null \in Score \cup {Null} /\ {1, 2} \subseteq 1..2
      /\ {"v2", NoModel} \subseteq {"v2", NoModel} /\ 0 \in Nat /\ 0 \in Score \cup {0}
  BY DEF Author, Recommendation
<1>4. \A type \in EventType : Plain(type, a) \in Event
  BY PlainTyped
<1>5. [Plain("AgentContextLoaded", a) EXCEPT !.model = "v2"] \in Event
  <2>1. Plain("AgentContextLoaded", a) \in Event
    BY <1>1, <1>4
  <2>2. QED
    BY <2>1 DEF Event
<1>6. \A s \in Score, c \in Causes(a), v \in 1..2 : Analysis(s, c, v) \in Event
  <2>1. TAKE s \in Score, c \in Causes(a), v \in 1..2
  <2>2. PICK p, m, n : /\ p = Plain("CreditAnalysisCompleted", a)
                       /\ m = (IF v = 1 THEN NoModel ELSE "v2")
                       /\ n = (IF v = 1 THEN Null ELSE s)
    OBVIOUS
  <2>3. p \in Event /\ m \in {"v2", NoModel} /\ n \in Score \cup {Null} /\ c \in Nat
    BY <1>1, <1>2, <1>4, <2>2
  <2>4. [p EXCEPT !.score = s, !.cause = c, !.version = v, !.model = m,
                  !.confidence = n] \in Event
    BY <2>3 DEF Event
  <2>5. QED
    BY <2>2, <2>4
<1>7. \A c \in Causes(a), type \in EventType : [Plain(type, a) EXCEPT !.cause = c] \in Event
  <2>1. TAKE c \in Causes(a), type \in EventType
  <2>2. Plain(type, a) \in Event /\ c \in Nat
    BY <1>2, <1>4
  <2>3. QED
    BY <2>2 DEF Event
<1>8. \A o \in Recommendation, c \in Causes(a), v \in 1..2 : Decision(o, c, v) \in Event
  <2>1. TAKE o \in Recommendation, c \in Causes(a), v \in 1..2
  <2>2. PICK p, m : /\ p = Plain("DecisionGenerated", a)
                    /\ m = (IF v = 1 THEN NoModel ELSE "v2")
    OBVIOUS
  <2>3. p \in Event /\ m \in {"v2", NoModel} /\ c \in Nat
    BY <1>1, <1>2, <1>4, <2>2
  <2>4. [p EXCEPT !.outcome = o, !.cause = c, !.version = v, !.model = m] \in Event
    BY <2>3 DEF Event
  <2>5. QED
    BY <2>2, <2>4
<1>9. \A o \in {"APPROVE", "DECLINE"}, c \in Causes(a) : Review(o, c) \in Event
  <2>1. TAKE o \in {"APPROVE", "DECLINE"}, c \in Causes(a)
  <2>2. Plain("HumanReviewCompleted", a) \in Event /\ o \in Recommendation /\ c \in Nat
    BY <1>1, <1>2, <1>3, <1>4
  <2>3. QED
    BY <2>2 DEF Event
<1>10. HandlerEvents(a) \subseteq Event
  <2> DEFINE loan == Loan(a)
             Loading == {[Plain("AgentContextLoaded", a) EXCEPT !.model = "v2"]}
             Requesting == {e \in {Plain("CreditAnalysisRequested", a)} :
                              Has(loan, "ApplicationSubmitted")}
             Analysing == {Analysis(s, c, v) : s \in Score, c \in Causes(a), v \in 1..2}
             Screening == {[Plain("FraudScreeningRequested", a) EXCEPT !.cause = c] :
                             c \in Causes(a)}
             Screened == {[Plain("FraudScreeningCompleted", a) EXCEPT !.cause = c] :
                            c \in Causes(a)}
             Checking == {[Plain("ComplianceCheckRequested", a) EXCEPT !.cause = c] :
                            c \in Causes(a)}
             Rules == {Plain(type, a) : type \in {"ComplianceRulePassed", "ComplianceRuleFailed"}}
             Deciding ==
               {Decision(o, c, v) : o \in Recommendation, c \in Causes(a), v \in 1..2}
             Reviewing == {Review(o, c) : o \in {"APPROVE", "DECLINE"}, c \in Causes(a)}
  <2>1. HandlerEvents(a) =
          {Plain("ApplicationSubmitted", a)}
          \cup Loading
          \cup Requesting
          \cup {e \in Analysing : MayCompleteCredit(loan)}
          \cup {e \in Screening :
                  loan # <<>> /\ Last(loan).type = "CreditAnalysisCompleted"}
          \cup Screened
          \cup {e \in Checking : MayRequestCompliance(loan)}
          \cup Rules
          \cup {e \in {Plain("ComplianceClearanceIssued", a)} :
                  StateOf(loan) = "COMPLIANCE_REVIEW"}
          \cup {e \in Deciding : MayDecide(loan, TRUE, e.outcome)}
          \cup {e \in Reviewing : MayReview(loan)}
    BY DEF HandlerEvents
  <2>2. Loading \subseteq Event
    BY <1>5
  <2>3. /\ Plain("ApplicationSubmitted", a) \in Event
        /\ Plain("CreditAnalysisRequested", a) \in Event
        /\ Plain("ComplianceClearanceIssued", a) \in Event
    BY <1>1, <1>4
  <2>4. Requesting \subseteq Event
    BY <2>3
  <2>5. ASSUME NEW e \in Analysing PROVE e \in Event
    <3> HIDE DEF Analysis
    <3>1. PICK s \in Score, c \in Causes(a), v \in 1..2 : e = Analysis(s, c, v)
      OBVIOUS
    <3>2. QED
      BY <1>6, <3>1
  <2>6. Screening \subseteq Event /\ Screened \subseteq Event /\ Checking \subseteq Event
    <3>1. /\ "FraudScreeningRequested" \in EventType /\ "FraudScreeningCompleted" \in EventType
          /\ "ComplianceCheckRequested" \in EventType
      BY <1>1
    <3>2. QED
      BY <1>7, <3>1
  <2>7. Rules \subseteq Event
    BY <1>1, <1>4
  <2>8. ASSUME NEW e \in Deciding PROVE e \in Event
    <3> HIDE DEF Decision
    <3>1. PICK o \in Recommendation, c \in Causes(a), v \in 1..2 : e = Decision(o, c, v)
      OBVIOUS
    <3>2. QED
      BY <1>8, <3>1
  <2>9. ASSUME NEW e \in Reviewing PROVE e \in Event
    <3> HIDE DEF Review
    <3>1. PICK o \in {"APPROVE", "DECLINE"}, c \in Causes(a) : e = Review(o, c)
      OBVIOUS
    <3>2. QED
      BY <1>9, <3>1
  <2> HIDE DEF loan, Loading, Requesting, Analysis, Analysing, Screening, Screened,
               Checking, Rules, Decision, Deciding, Review, Reviewing
  <2>10. QED
    BY <2>1, <2>2, <2>3, <2>4, <2>5, <2>6, <2>7, <2>8, <2>9
<1>11. \A e \in Event : [e EXCEPT !.by = "agents"] \in Event
  BY <1>3 DEF Event
<1>12. \A s \in Score :
         [Plain("CreditAnalysisCompleted", a) EXCEPT
            !.score = s, !.version = 2, !.model = "v2", !.confidence = s] \in Event
  <2>1. TAKE s \in Score
  <2>2. PICK p : p = Plain("CreditAnalysisCompleted", a)
    OBVIOUS
  <2>3. p \in Event
    BY <1>1, <1>4, <2>2
  <2>4. [p EXCEPT !.score = s, !.version = 2, !.model = "v2", !.confidence = s] \in Event
    BY <1>3, <2>3 DEF Event
  <2>5. QED
    BY <2>2, <2>4
<1>13. \A o \in Recommendation :
         [Plain("DecisionGenerated", a) EXCEPT !.outcome = o, !.version = 2] \in Event
  <2>1. TAKE o \in Recommendation
  <2>2. PICK p : p = Plain("DecisionGenerated", a)
    OBVIOUS
  <2>3. p \in Event
    BY <1>1, <1>4, <2>2
  <2>4. [p EXCEPT !.outcome = o, !.version = 2] \in Event
    BY <1>3, <2>3 DEF Event
  <2>5. QED
    BY <2>2, <2>4
<1>14. AgentEvents(a) \subseteq Event
  <2>1. \A e \in AgentEvents(a) : \E x \in Event : e = [x EXCEPT !.by = "agents"]
    BY <1>1, <1>4, <1>12, <1>13 DEF AgentEvents
  <2>2. QED
    BY <1>11, <2>1
<1>15. QED
  BY <1>10, <1>14

--------------------------------------------------------------------------------

\* Histories stay histories, rows and checkpoints what their tables hold, and only
\* positions of the store are handled, through stops, retries and rebuilds.
THEOREM ReadTyped == ReadSpec => []ReadTypeOK
<1>1. ReadInit => ReadTypeOK
  <2> SUFFICES ASSUME ReadInit PROVE ReadTypeOK
    OBVIOUS
  <2>1. log \in Seq(Event)
    BY ReadModelsAssumption DEF ReadInit
  <2>2. NoRow \in SummaryRow
    BY DEF NoRow, SummaryRow, SummaryState
  <2>3. row \in [App -> SummaryRow]
    BY <2>2 DEF ReadInit
  <2>4. ledger = [k \in Keys |-> ledger[k]]
    BY DEF ReadInit
  <2>5. QED
    BY <2>1, <2>3, <2>4 DEF ReadInit, ReadTypeOK
<1>2. ASSUME ReadTypeOK, [ReadNext]_readVars PROVE ReadTypeOK'
  <2> USE <1>2 DEF ReadTypeOK
  <2>1. ASSUME NEW a \in App, NEW e \in HandlerEvents(a) \cup AgentEvents(a), WriteEvent(e)
        PROVE  ReadTypeOK'
    <3>1. e \in Event
      BY EventsTyped
    <3>2. log' = Append(log, e) /\ log' \in Seq(Event) /\ Len(log') = Len(log) + 1
      BY <2>1, <3>1 DEF WriteEvent
    <3>3. UNCHANGED <<projection, row, ledger, checkpoint, next, handled>>
      BY <2>1 DEF WriteEvent, tables
    <3>4. handled' \in Seq(1..Len(log'))
      <4>1. PICK m, n : m = Len(log) /\ n = Len(log')
        OBVIOUS
      <4>2. 1..m \subseteq 1..n
        BY <3>2, <4>1
      <4>3. handled \in Seq(1..m)
        BY <4>1
      <4>4. handled \in Seq(1..n)
        BY <4>2, <4>3, SeqWider
      <4>5. QED
        BY <3>3, <4>1, <4>4
    <3>5. QED
      BY <3>2, <3>3, <3>4
  <2>2. ASSUME Applied, log' = log
        PROVE  /\ row' \in [App -> SummaryRow]
               /\ ledger' = [k \in Keys |-> ledger'[k]]
               /\ handled' \in Seq(1..Len(log'))
               /\ next \in 1..Len(log)
    <3>1. next \in 1..Len(log) /\ handled' = Append(handled, next)
      BY <2>2 DEF Applied
    <3>2. log[next] \in Event
      BY <3>1
    <3>3. Delivered \in Delivery
      BY <3>2, EventDelivered DEF Delivered
    <3>4. row' \in [App -> SummaryRow]
      <4>1. CASE projection = "application_summary"
        <5>1. row' = [row EXCEPT ![Delivered.app] = SummaryAfter(row[Delivered.app], Delivered)]
          BY <2>2, <4>1 DEF Applied
        <5>2. Delivered.app \in App
          BY <3>3 DEF Delivery
        <5>3. SummaryAfter(row[Delivered.app], Delivered) \in SummaryRow
          BY <3>3, <5>2, SummaryTyped
        <5>4. QED
          BY <5>1, <5>2, <5>3
      <4>2. CASE projection # "application_summary"
        BY <2>2, <4>2 DEF Applied
      <4>3. QED
        BY <4>1, <4>2
    <3>5. ledger' = [k \in Keys |-> ledger'[k]]
      BY <2>2 DEF Applied
    <3>6. QED
      BY <2>2, <3>1, <3>4, <3>5
  <2>3. CASE Handle
    BY <2>2, <2>3 DEF Handle
  <2>4. CASE HandleAndStop
    BY <2>2, <2>4 DEF HandleAndStop
  <2>5. CASE GiveUp
    BY <2>5 DEF GiveUp, tables
  <2>6. CASE NextBatch
    BY <2>6 DEF NextBatch, tables
  <2>7. CASE Rebuild
    <3>1. NoRow \in SummaryRow
      BY DEF NoRow, SummaryRow, SummaryState
    <3>2. /\ row' \in [App -> SummaryRow]
          /\ ledger' = [k \in Keys |-> ledger'[k]]
      BY <2>7, <3>1 DEF Rebuild
    <3>3. QED
      BY <2>7, <3>2 DEF Rebuild
  <2>8. CASE UNCHANGED readVars
    BY <2>8 DEF readVars, tables
  <2>9. QED
    BY <1>2, <2>1, <2>3, <2>4, <2>5, <2>6, <2>7, <2>8 DEF ReadNext
<1>3. QED
  BY <1>1, <1>2, PTL DEF ReadSpec

--------------------------------------------------------------------------------

\* When the events that move a loan were handled.
Mine(a) == {n \in DOMAIN handled : handled[n] \in StateEvents(a)}

Submitted(a) == \E n \in Mine(a) : log[handled[n]].type = "ApplicationSubmitted"

\* The row is there once the submission is, and has the state the event handled last
\* leads to, if it is one the projection knows.
SummaryInv ==
  projection = "application_summary" =>
  \A a \in App :
    /\ Submitted(a) <=> row[a] # NoRow
    /\ row[a] # NoRow => row[a].state # "NONE"
    /\ \A m \in Mine(a) :
         row[a] # NoRow /\ (\A n \in Mine(a) : n <= m)
                        /\ log[handled[m]].type # "FraudScreeningRequested"
         => row[a].state = StateAfter(log[handled[m]])

\* Handling the event at a position adds it to the events of its application.
LEMMA MineAfter ==
  ASSUME ReadTypeOK, log' = log, NEW p \in 1..Len(log), handled' = Append(handled, p),
         NEW a \in App
  PROVE  /\ Mine(a)' = Mine(a) \cup {n \in {Len(handled) + 1} : p \in StateEvents(a)}
         /\ \A n \in Mine(a) : n \in 1..Len(handled) /\ handled'[n] = handled[n]
         /\ handled'[Len(handled) + 1] = p
<1>1. StateEvents(a)' = StateEvents(a)
  BY DEF StateEvents
<1>2. PICK c : c = Len(handled)
  OBVIOUS
<1>3. c \in Nat /\ DOMAIN handled = 1..c /\ DOMAIN handled' = 1..(c + 1)
  BY <1>2 DEF ReadTypeOK
<1>4. handled'[c + 1] = p /\ \A n \in 1..c : handled'[n] = handled[n]
  BY <1>2 DEF ReadTypeOK
<1>5. \A n \in 1..(c + 1) : n \in 1..c \/ n = c + 1
  BY <1>3
<1>6. \A n : n \in Mine(a)' <=> n \in 1..(c + 1) /\ handled'[n] \in StateEvents(a)
  BY <1>1, <1>3 DEF Mine
<1>7. \A n : n \in Mine(a) <=> n \in 1..c /\ handled[n] \in StateEvents(a)
  BY <1>3 DEF Mine
<1>8. 1..c \subseteq 1..(c + 1) /\ c + 1 \in 1..(c + 1)
  BY <1>3
<1>9. Mine(a)' = Mine(a) \cup {n \in {c + 1} : p \in StateEvents(a)}
  BY <1>4, <1>5, <1>6, <1>7, <1>8
<1>10. QED
  BY <1>2, <1>4, <1>7, <1>9

LEMMA SummaryStep ==
  ASSUME ReadTypeOK, SummaryInv, Applied, log' = log, projection' = projection
  PROVE  SummaryInv'
<1> SUFFICES ASSUME projection = "application_summary", NEW a \in App
             PROVE  /\ Submitted(a)' <=> row'[a] # NoRow
                    /\ row'[a] # NoRow => row'[a].state # "NONE"
                    /\ \A m \in Mine(a)' :
                         row'[a] # NoRow /\ (\A n \in Mine(a)' : n <= m)
                                         /\ log[handled'[m]].type # "FraudScreeningRequested"
                         => row'[a].state = StateAfter(log[handled'[m]])
  BY DEF SummaryInv
<1>1. PICK p, e, u, c : p = next /\ e = log[next] /\ u = Delivered /\ c = Len(handled)
  OBVIOUS
<1>2. p \in 1..Len(log) /\ e = log[p] /\ handled' = Append(handled, p) /\ e \in Event
  BY <1>1 DEF Applied, ReadTypeOK
<1>3. u \in Delivery /\ SameBut(e, u)
  BY <1>1, <1>2, EventDelivered DEF Delivered
<1>4. StateAfter(u) = StateAfter(e)
  BY <1>3 DEF SameBut, StateAfter
<1>5. PICK r : r = row[a]
  OBVIOUS
<1>6. r \in SummaryRow /\ (r = NoRow \/ r.state # "NONE")
  BY <1>5 DEF ReadTypeOK, SummaryInv
<1>7. PICK after : after = row'[a]
  OBVIOUS
<1>8. after = IF e.app = a THEN SummaryAfter(r, u) ELSE r
  <2>1. row' = [row EXCEPT ![u.app] = SummaryAfter(row[u.app], u)]
    BY <1>1 DEF Applied
  <2>2. u.app = e.app /\ u.app \in App
    BY <1>3 DEF SameBut, Delivery
  <2>3. QED
    BY <1>5, <1>7, <2>1, <2>2 DEF ReadTypeOK
<1>9. PICK mine, mineAfter : mine = Mine(a) /\ mineAfter = Mine(a)'
  OBVIOUS
<1>10. /\ mineAfter = mine \cup {n \in {c + 1} : p \in StateEvents(a)}
       /\ \A n \in mine : n \in 1..c /\ handled'[n] = handled[n]
       /\ handled'[c + 1] = p /\ c \in Nat
  BY <1>1, <1>2, <1>9, MineAfter DEF ReadTypeOK
<1>11. /\ Submitted(a) <=> \E n \in mine : log[handled[n]].type = "ApplicationSubmitted"
       /\ Submitted(a)' <=> \E n \in mineAfter : log[handled'[n]].type = "ApplicationSubmitted"
  BY <1>9 DEF Submitted
<1>12. /\ Submitted(a) <=> r # NoRow
       /\ \A m \in mine :
            r # NoRow /\ (\A n \in mine : n <= m)
                      /\ log[handled[m]].type # "FraudScreeningRequested"
            => r.state = StateAfter(log[handled[m]])
  BY <1>5, <1>9 DEF SummaryInv
<1>13. p \in StateEvents(a) <=> e.app = a /\ e.type \in LoanEventType
  BY <1>2 DEF StateEvents, ReadTypeOK
<1>14. "ApplicationSubmitted" \in LoanEventType
  BY DEF LoanEventType, StateOn
<1>15. NoRow.state = "NONE"
  BY DEF NoRow
<1> HIDE DEF Submitted, Mine, NoRow, LoanEventType
<1>16. CASE e.app # a
  <2>1. mineAfter = mine /\ after = r
    BY <1>8, <1>10, <1>13, <1>16
  <2>2. QED
    BY <1>6, <1>7, <1>9, <1>10, <1>11, <1>12, <2>1
<1>17. CASE e.app = a
  <2>1. LET there == r # NoRow \/ e.type = "ApplicationSubmitted"
        IN  /\ ~there => after = NoRow
            /\ there => after.state # "NONE"
            /\ there /\ e.type \in LoanEventType \ {"FraudScreeningRequested"} =>
                 after.state = StateAfter(e)
            /\ e.type \notin LoanEventType \ {"FraudScreeningRequested"} =>
                 after.state = r.state
    BY <1>3, <1>4, <1>6, <1>8, <1>17, SummaryMoves DEF SameBut
  <2>2. after # NoRow <=> r # NoRow \/ e.type = "ApplicationSubmitted"
    BY <1>15, <2>1
  <2>3. after # NoRow => after.state # "NONE"
    BY <2>1, <2>2
  <2>4. CASE e.type \in LoanEventType
    <3>1. mineAfter = mine \cup {c + 1}
      BY <1>10, <1>13, <1>17, <2>4
    <3>2. Submitted(a)' <=> Submitted(a) \/ e.type = "ApplicationSubmitted"
      BY <1>2, <1>10, <1>11, <3>1
    <3>3. ASSUME NEW m \in mineAfter, \A n \in mineAfter : n <= m PROVE m = c + 1
      BY <1>10, <3>1, <3>3
    <3>4. ASSUME NEW m \in mineAfter, after # NoRow, \A n \in mineAfter : n <= m,
                 log[handled'[m]].type # "FraudScreeningRequested"
          PROVE  after.state = StateAfter(log[handled'[m]])
      <4>1. m = c + 1
        BY <3>3, <3>4
      <4>2. log[handled'[m]] = e
        BY <1>2, <1>10, <4>1
      <4>3. QED
        BY <2>1, <2>2, <2>4, <3>4, <4>2
    <3>5. QED
      BY <1>7, <1>9, <1>12, <2>2, <2>3, <3>2, <3>4
  <2>5. CASE e.type \notin LoanEventType
    <3>1. mineAfter = mine
      BY <1>10, <1>13, <2>5
    <3>2. e.type # "ApplicationSubmitted"
      BY <1>14, <2>5
    <3>3. Submitted(a)' <=> Submitted(a)
      BY <1>10, <1>11, <3>1
    <3>4. after.state = r.state
      BY <2>1, <2>5
    <3>5. \A m \in mineAfter :
            after # NoRow /\ (\A n \in mineAfter : n <= m)
                          /\ log[handled'[m]].type # "FraudScreeningRequested"
            => after.state = StateAfter(log[handled'[m]])
      BY <1>10, <1>12, <2>2, <3>1, <3>2, <3>4
    <3>6. QED
      BY <1>7, <1>9, <1>12, <2>2, <2>3, <3>2, <3>3, <3>5
  <2>6. QED
    BY <2>4, <2>5
<1>18. QED
  BY <1>16, <1>17

LEMMA SummaryKept ==
  ReadTypeOK /\ SummaryInv /\ [ReadNext]_readVars => SummaryInv'
<1> SUFFICES ASSUME ReadTypeOK, SummaryInv, [ReadNext]_readVars PROVE SummaryInv'
  OBVIOUS
<1>1. ASSUME UNCHANGED <<row, projection, handled>>,
             \A a \in App : Mine(a)' = Mine(a),
             \A n \in DOMAIN handled : log'[handled[n]] = log[handled[n]]
      PROVE  SummaryInv'
  <2> SUFFICES ASSUME projection = "application_summary", NEW a \in App
               PROVE  /\ Submitted(a)' <=> row[a] # NoRow
                      /\ row[a] # NoRow => row[a].state # "NONE"
                      /\ \A m \in Mine(a) :
                           row[a] # NoRow /\ (\A n \in Mine(a) : n <= m)
                                          /\ log'[handled[m]].type # "FraudScreeningRequested"
                           => row[a].state = StateAfter(log'[handled[m]])
    BY <1>1 DEF SummaryInv
  <2>1. \A n \in Mine(a) : log'[handled[n]] = log[handled[n]]
    BY <1>1 DEF Mine
  <2>2. Submitted(a)' <=> Submitted(a)
    BY <1>1, <2>1 DEF Submitted
  <2>3. QED
    BY <2>1, <2>2 DEF SummaryInv
<1>2. ASSUME UNCHANGED <<row, projection, handled, log>> PROVE SummaryInv'
  BY <1>1, <1>2 DEF Mine, StateEvents
<1>3. ASSUME NEW a \in App, NEW e \in HandlerEvents(a) \cup AgentEvents(a), WriteEvent(e)
      PROVE  SummaryInv'
  <2>1. UNCHANGED <<row, projection, handled>> /\ log' = Append(log, e)
    BY <1>3 DEF WriteEvent, tables
  <2>2. PICK c : c = Len(log)
    OBVIOUS
  <2>3. /\ c \in Nat /\ DOMAIN log = 1..c /\ DOMAIN log' = 1..(c + 1)
        /\ \A i \in 1..c : log'[i] = log[i]
    BY <2>1, <2>2 DEF ReadTypeOK
  <2>4. \A n \in DOMAIN handled : handled[n] \in 1..c
    BY <2>2 DEF ReadTypeOK
  <2>5. \A b \in App : \A i \in 1..c : i \in StateEvents(b)' <=> i \in StateEvents(b)
    <3>1. 1..c \subseteq 1..(c + 1)
      BY <2>3
    <3>2. QED
      BY <2>3, <3>1 DEF StateEvents
  <2>6. \A b \in App : Mine(b)' = Mine(b)
    BY <2>1, <2>4, <2>5 DEF Mine
  <2>7. QED
    BY <1>1, <2>1, <2>3, <2>4, <2>6
<1>4. CASE Handle
  BY <1>4, SummaryStep DEF Handle
<1>5. CASE HandleAndStop
  BY <1>5, SummaryStep DEF HandleAndStop
<1>6. CASE GiveUp
  BY <1>2, <1>6 DEF GiveUp, tables
<1>7. CASE NextBatch
  BY <1>2, <1>7 DEF NextBatch, tables
<1>8. CASE Rebuild
  <2>1. handled' = <<>> /\ projection' = projection
    BY <1>8 DEF Rebuild
  <2>2. \A a \in App : Mine(a)' = {} /\ ~Submitted(a)'
    BY <2>1 DEF Mine, Submitted
  <2>3. projection = "application_summary" => \A a \in App : row'[a] = NoRow
    BY <1>8 DEF Rebuild
  <2>4. QED
    BY <2>1, <2>2, <2>3 DEF SummaryInv
<1>9. CASE UNCHANGED readVars
  BY <1>2, <1>9 DEF readVars, tables
<1>10. QED
  BY <1>3, <1>4, <1>5, <1>6, <1>7, <1>8, <1>9 DEF ReadNext

LEMMA LoanEventsMove ==
  ASSUME ReadTypeOK, NEW a \in App
  PROVE  On("loan", a) \subseteq StateEvents(a)
<1>1. ASSUME NEW e \in Event, Stream(e) = "loan" PROVE e.type \in LoanEventType
  <2>1. e.type \in EventType
    BY DEF Event
  <2>2. /\ e.type \notin {"FraudScreeningCompleted", "AgentContextLoaded"}
        /\ e.type \notin {"ComplianceRulePassed", "ComplianceRuleFailed"}
    BY <1>1 DEF Stream
  <2>3. QED
    BY <2>1, <2>2 DEF EventType
<1>2. \A i \in DOMAIN log : log[i] \in Event
  BY DEF ReadTypeOK
<1>3. QED
  BY <1>1, <1>2 DEF On, StateEvents

\* The row of an application follows its loan stream.
LEMMA SummaryFollows ==
  ASSUME ReadTypeOK, SummaryInv
  PROVE  SummaryFollowsAggregate
<1> SUFFICES ASSUME projection = "application_summary", NEW a \in App
    PROVE  LET mine == {n \in DOMAIN handled : handled[n] \in StateEvents(a)}
               there == \E n \in mine : log[handled[n]].type = "ApplicationSubmitted"
               last == Max(StateEvents(a))
           IN  /\ there <=> row[a] # NoRow
               /\ /\ there /\ handled[Max(mine)] = last
                  /\ Stream(log[last]) = "loan" /\ log[last].type # "FraudScreeningRequested"
                  => row[a].state = StateOf(Loan(a))
  BY DEF SummaryFollowsAggregate
<1>1. PICK last : last = Max(StateEvents(a))
  OBVIOUS
<1>2. Submitted(a) <=> row[a] # NoRow
  BY DEF SummaryInv
<1>3. ASSUME Submitted(a), handled[Max(Mine(a))] = last,
             Stream(log[last]) = "loan", log[last].type # "FraudScreeningRequested"
      PROVE  row[a].state = StateOf(Loan(a))
  <2>1. PICK c, h : c = Len(log) /\ h = Len(handled)
    OBVIOUS
  <2>2. c \in Nat /\ h \in Nat /\ DOMAIN log = 1..c /\ DOMAIN handled = 1..h
    BY <2>1 DEF ReadTypeOK
  <2>3. Mine(a) \subseteq 1..h /\ Mine(a) # {}
    BY <1>3, <2>2 DEF Mine, Submitted
  <2>4. PICK m \in Mine(a) : \A n \in Mine(a) : n <= m
    BY <2>2, <2>3, Greatest
  <2>5. Max(Mine(a)) = m
    <3>1. Mine(a) \subseteq Int
      BY <2>2, <2>3
    <3>2. QED
      BY <2>4, <3>1, MaxIs
  <2>6. handled[m] = last /\ last \in StateEvents(a)
    BY <1>3, <2>5 DEF Mine
  <2>7. StateEvents(a) \subseteq 1..c
    BY <2>2 DEF StateEvents
  <2>8. PICK g \in StateEvents(a) : \A y \in StateEvents(a) : y <= g
    BY <2>2, <2>6, <2>7, Greatest
  <2>9. g = last
    <3>1. StateEvents(a) \subseteq Int
      BY <2>2, <2>7
    <3>2. QED
      BY <1>1, <2>8, <3>1, MaxIs
  <2>10. last \in On("loan", a)
    BY <1>3, <2>6 DEF On, StateEvents
  <2>11. On("loan", a) \subseteq 1..c /\ \A y \in On("loan", a) : y <= last
    BY <2>7, <2>8, <2>9, LoanEventsMove
  <2>12. Loan(a) # <<>> /\ Last(Loan(a)) = log[last]
    BY <2>2, <2>10, <2>11, LastPicked DEF Loan
  <2>13. StateOf(Loan(a)) = StateAfter(log[last])
    BY <2>12 DEF StateOf
  <2>14. QED
    BY <1>2, <1>3, <2>4, <2>6, <2>13 DEF SummaryInv
<1>4. QED
  BY <1>1, <1>2, <1>3 DEF Mine, Submitted

\* Whenever the last event that moves a loan is the last one handled for it, the row of
\* application_summary is in the state the aggregate replays to, for every history,
\* every order of handling, repetition and omission (application_summary.py).
THEOREM SummaryFollowsStream == ReadSpec => []SummaryFollowsAggregate
<1>1. ReadInit => SummaryInv
  BY DEF ReadInit, SummaryInv, Submitted, Mine
<1>2. ReadTypeOK /\ SummaryInv => SummaryFollowsAggregate
  BY SummaryFollows
<1>3. QED
  BY <1>1, <1>2, SummaryKept, ReadTyped, PTL DEF ReadSpec

--------------------------------------------------------------------------------
(* Averages. *)

Fraction == Nat \X (Nat \ {0})

\* Among the values and a new one is one not above, and one not below, the new average.
LEMMA LowStep ==
  ASSUME NEW p \in Nat, NEW q \in Nat, NEW c \in Nat, NEW v \in Nat, NEW w \in Nat,
         w * q <= p
  PROVE  \/ v * (q * (c + 1)) <= p * c + v * q
         \/ w * (q * (c + 1)) <= p * c + v * q
<1>1. PICK x, y, z, a : x = w * q /\ y = v * q /\ z = p * c /\ a = x * c
  OBVIOUS
<1>2. x \in Nat /\ y \in Nat /\ z \in Nat /\ a \in Nat
  BY <1>1
<1>3. a <= z
  BY <1>1, <1>2
<1>4. w * (q * (c + 1)) = a + x
  BY <1>1
<1>5. v * (q * (c + 1)) = y * c + y
  BY <1>1
<1>6. CASE v <= w
  <2>1. y <= x
    BY <1>1, <1>6
  <2>2. y * c <= a
    BY <1>1, <1>2, <2>1
  <2>3. QED
    BY <1>1, <1>2, <1>3, <1>5, <2>2
<1>7. CASE w <= v
  <2>1. x <= y
    BY <1>1, <1>7
  <2>2. QED
    BY <1>1, <1>2, <1>3, <1>4, <2>1
<1>8. QED
  BY <1>6, <1>7

LEMMA HighStep ==
  ASSUME NEW p \in Nat, NEW q \in Nat, NEW c \in Nat, NEW v \in Nat, NEW w \in Nat,
         p <= w * q
  PROVE  \/ p * c + v * q <= v * (q * (c + 1))
         \/ p * c + v * q <= w * (q * (c + 1))
<1>1. PICK x, y, z, a : x = w * q /\ y = v * q /\ z = p * c /\ a = x * c
  OBVIOUS
<1>2. x \in Nat /\ y \in Nat /\ z \in Nat /\ a \in Nat
  BY <1>1
<1>3. z <= a
  BY <1>1, <1>2
<1>4. w * (q * (c + 1)) = a + x
  BY <1>1
<1>5. v * (q * (c + 1)) = y * c + y
  BY <1>1
<1>6. CASE w <= v
  <2>1. x <= y
    BY <1>1, <1>6
  <2>2. a <= y * c
    BY <1>1, <1>2, <2>1
  <2>3. QED
    BY <1>1, <1>2, <1>3, <1>5, <2>2
<1>7. CASE v <= w
  <2>1. y <= x
    BY <1>1, <1>7
  <2>2. QED
    BY <1>1, <1>2, <1>3, <1>4, <2>1
<1>8. QED
  BY <1>6, <1>7

\* An average that is there is the mean of what was counted.
Averaged(avg, times, values) ==
  IF times = {} THEN avg = <<>> /\ Total(values) = 0
                ELSE avg \in Fraction /\ IsMean(avg, times, values)

\* A rate is there from the start.
Rated(rate, times, values) == rate \in Fraction /\ IsMean(rate, times, values)

\* What was known lies around the average, which is the mean if all was known.
Bracketed(avg, times, known, values) ==
  IF known = {} THEN avg = <<>> /\ Total(values) = 0
  ELSE /\ avg \in Fraction
       /\ \E n \in known : values[n] * avg[2] <= avg[1]
       /\ \E n \in known : avg[1] <= values[n] * avg[2]
       /\ known = times => IsMean(avg, times, values)

LEMMA IncludedIs ==
  ASSUME NEW p \in Nat, NEW q \in Nat \ {0}, NEW c \in Nat, NEW v \in Nat
  PROVE  /\ Included(<<p, q>>, c, v) = <<p * c + v * q, q * (c + 1)>>
         /\ Included(<<p, q>>, c, v) \in Fraction
         /\ Included(<<>>, c, v) = <<v, 1>> /\ <<v, 1>> \in Fraction
<1>1. <<p, q>> # <<>>
  OBVIOUS
<1>2. Included(<<p, q>>, c, v) = <<p * c + v * q, q * (c + 1)>>
  BY <1>1 DEF Included
<1>3. p * c + v * q \in Nat /\ q * (c + 1) \in Nat
  OBVIOUS
<1>4. q * (c + 1) # 0
  OBVIOUS
<1>5. QED
  BY <1>2, <1>3, <1>4 DEF Included, Fraction

LEMMA RatedStep ==
  ASSUME NEW rate, NEW times, NEW n, IsFiniteSet(times), n \notin times,
         NEW values \in Seq(Nat), NEW v \in Nat, Rated(rate, times, values)
  PROVE  Rated(Included(rate, Cardinality(times), v), times \cup {n}, Append(values, v))
<1>1. PICK c, t : c = Cardinality(times) /\ t = Total(values)
  OBVIOUS
<1>2. c \in Nat /\ Cardinality(times \cup {n}) = c + 1
  BY <1>1, FS_CardinalityType, FS_AddElement
<1>3. values \in Seq(Int) /\ v \in Int
  BY SeqWider
<1>4. t \in Int /\ Total(Append(values, v)) = t + v
  BY <1>1, <1>3, TotalAppend
<1>5. PICK p \in Nat, q \in Nat \ {0} : rate = <<p, q>>
  BY DEF Rated, Fraction
<1>6. p * c = t * q
  BY <1>1, <1>5 DEF Rated, IsMean
<1>7. PICK x, y : x = p * c + v * q /\ y = q * (c + 1)
  OBVIOUS
<1>8. Included(rate, c, v) = <<x, y>> /\ <<x, y>> \in Fraction
  <2>1. Included(<<p, q>>, c, v) = <<p * c + v * q, q * (c + 1)>>
    BY DEF Included
  <2>2. Included(<<p, q>>, c, v) \in Fraction
    BY <1>2, IncludedIs, Zenon
  <2>3. QED
    BY <1>5, <1>7, <2>1, <2>2
<1>9. x * (c + 1) = (t + v) * y
  <2>1. PICK z, d \in Int : z = t + v /\ d = c + 1
    BY <1>2, <1>4
  <2>2. x = z * q
    BY <1>2, <1>4, <1>6, <1>7, <2>1
  <2>3. (z * q) * d = z * (q * d)
    BY <2>1
  <2>4. QED
    BY <1>7, <2>1, <2>2, <2>3
<1>10. QED
  BY <1>1, <1>2, <1>4, <1>8, <1>9 DEF Rated, IsMean

LEMMA AveragedStep ==
  ASSUME NEW avg, NEW times, NEW n, IsFiniteSet(times), n \notin times,
         NEW values \in Seq(Nat), NEW v \in Nat, Averaged(avg, times, values)
  PROVE  Averaged(Included(avg, Cardinality(times), v), times \cup {n}, Append(values, v))
<1>1. CASE times = {}
  <2>1. avg = <<>> /\ Total(values) = 0
    BY <1>1 DEF Averaged
  <2>2. values \in Seq(Int) /\ v \in Int
    BY SeqWider
  <2>3. Total(Append(values, v)) = v
    BY <2>1, <2>2, TotalAppend
  <2>4. Cardinality({n}) = 1 /\ times \cup {n} = {n}
    BY <1>1, FS_Singleton
  <2>5. Included(avg, Cardinality(times), v) = <<v, 1>> /\ <<v, 1>> \in Fraction
    BY <2>1 DEF Included, Fraction
  <2>6. IsMean(<<v, 1>>, times \cup {n}, Append(values, v))
    BY <2>3, <2>4 DEF IsMean
  <2>7. times \cup {n} # {}
    OBVIOUS
  <2>8. QED
    BY <2>5, <2>6, <2>7 DEF Averaged
<1>2. CASE times # {}
  <2>1. Rated(avg, times, values)
    BY <1>2 DEF Averaged, Rated
  <2>2. Rated(Included(avg, Cardinality(times), v), times \cup {n}, Append(values, v))
    BY <2>1, RatedStep
  <2>3. QED
    BY <2>2 DEF Averaged, Rated
<1>3. QED
  BY <1>1, <1>2

LEMMA BracketedStep ==
  ASSUME NEW avg, NEW values \in Seq(Nat), NEW times, NEW known, times \subseteq 1..Len(values),
         known \subseteq times, NEW n, n = Len(values) + 1,
         NEW v \in Nat, Bracketed(avg, times, known, values)
  PROVE  Bracketed(Included(avg, Cardinality(times), v), times \cup {n}, known \cup {n},
                   Append(values, v))
<1>1. PICK longer, c : longer = Append(values, v) /\ c = Cardinality(times)
  OBVIOUS
<1>2. /\ n \notin times /\ longer[n] = v
      /\ \A i \in 1..Len(values) : longer[i] = values[i]
  BY <1>1
<1>3. IsFiniteSet(times) /\ c \in Nat
  <2>1. IsFiniteSet(1..Len(values))
    BY FS_Interval
  <2>2. IsFiniteSet(times)
    BY <2>1, FS_Subset
  <2>3. QED
    BY <1>1, <2>2, FS_CardinalityType
<1>4. values \in Seq(Int) /\ v \in Int
  BY SeqWider
<1>5. CASE known = {}
  <2>1. avg = <<>> /\ Total(values) = 0
    BY <1>5 DEF Bracketed
  <2>2. Included(avg, c, v) = <<v, 1>> /\ <<v, 1>> \in Fraction
    BY <2>1 DEF Included, Fraction
  <2>3. known \cup {n} = times \cup {n} => times = {}
    BY <1>2, <1>5
  <2>4. Averaged(avg, {}, values)
    BY <2>1 DEF Averaged
  <2>5. Averaged(<<v, 1>>, {n}, longer)
    <3>1. IsFiniteSet({}) /\ Cardinality({}) = 0 /\ {} \cup {n} = {n}
      BY FS_EmptySet
    <3>2. Averaged(Included(avg, 0, v), {n}, longer)
      BY <1>1, <2>4, <3>1, AveragedStep
    <3>3. QED
      BY <2>1, <3>2 DEF Included
  <2>6. times = {} => IsMean(<<v, 1>>, times \cup {n}, longer)
    <3>1. {n} # {} /\ ({} \cup {n}) = {n}
      OBVIOUS
    <3>2. IsMean(<<v, 1>>, {n}, longer)
      BY <2>5, <3>1 DEF Averaged
    <3>3. QED
      BY <3>1, <3>2
  <2>7. longer[n] * 1 <= v /\ v <= longer[n] * 1
    BY <1>2
  <2>8. QED
    BY <1>1, <1>5, <2>2, <2>3, <2>6, <2>7 DEF Bracketed
<1>6. CASE known # {}
  <2>0. avg \in Fraction
    BY <1>6 DEF Bracketed
  <2>1. PICK p \in Nat, q \in Nat \ {0} : avg = <<p, q>>
    BY <2>0 DEF Fraction
  <2>2. PICK x, y : x = p * c + v * q /\ y = q * (c + 1)
    OBVIOUS
  <2>3. Included(avg, c, v) = <<x, y>> /\ <<x, y>> \in Fraction
    <3>1. Included(<<p, q>>, c, v) = <<p * c + v * q, q * (c + 1)>>
      BY DEF Included
    <3>2. Included(<<p, q>>, c, v) \in Fraction
      BY <1>3, IncludedIs, Zenon
    <3>3. QED
      BY <2>1, <2>2, <3>1, <3>2
  <2>4. \E i \in known \cup {n} : longer[i] * y <= x
    <3>1. PICK i \in known : values[i] * q <= p
      BY <1>6, <2>1 DEF Bracketed
    <3>2. PICK w : w = values[i]
      OBVIOUS
    <3>3. w \in Nat /\ longer[i] = w
      BY <1>2, <3>2
    <3>4. v * y <= x \/ w * y <= x
      BY <1>3, <2>1, <2>2, <3>1, <3>2, <3>3, LowStep
    <3>5. QED
      BY <1>2, <3>3, <3>4
  <2>5. \E i \in known \cup {n} : x <= longer[i] * y
    <3>1. PICK i \in known : p <= values[i] * q
      BY <1>6, <2>1 DEF Bracketed
    <3>2. PICK w : w = values[i]
      OBVIOUS
    <3>3. w \in Nat /\ longer[i] = w
      BY <1>2, <3>2
    <3>4. x <= v * y \/ x <= w * y
      BY <1>3, <2>1, <2>2, <3>1, <3>2, <3>3, HighStep
    <3>5. QED
      BY <1>2, <3>3, <3>4
  <2>6. known \cup {n} = times \cup {n} => IsMean(<<x, y>>, times \cup {n}, longer)
    <3>1. SUFFICES ASSUME known \cup {n} = times \cup {n}
                   PROVE  IsMean(<<x, y>>, times \cup {n}, longer)
      OBVIOUS
    <3>2. known = times
      BY <1>2, <3>1
    <3>3. Rated(avg, times, values)
      BY <1>6, <3>2 DEF Bracketed, Rated
    <3>4. Rated(Included(avg, c, v), times \cup {n}, longer)
      BY <1>1, <1>2, <1>3, <3>3, RatedStep
    <3>5. QED
      BY <2>3, <3>4 DEF Rated
  <2>7. Included(avg, c, v)[1] = x /\ Included(avg, c, v)[2] = y /\ known \cup {n} # {}
    BY <2>3
  <2>8. QED
    BY <1>1, <2>3, <2>4, <2>5, <2>6, <2>7 DEF Bracketed
<1>7. QED
  BY <1>5, <1>6

--------------------------------------------------------------------------------
(* The row of a key and what was handled for it. *)

LedgerRow ==
  [analyses_completed : Nat, decisions_generated : Nat,
   avg_confidence_score : Fraction \cup {<<>>}, avg_duration_ms : Fraction \cup {<<>>},
   approve_rate : Fraction, decline_rate : Fraction, refer_rate : Fraction]

\* scores, confidences and shares[outcome] note for each time something was handled what
\* it adds to an average, 0 if nothing.
RowMatches(r, analyses, known, decisions, scores, confidences, shares) ==
  /\ r \in LedgerRow
  /\ scores \in Seq(Nat)
  /\ confidences \in Seq(Nat) /\ Len(confidences) = Len(scores)
  /\ \A o \in Recommendation : shares[o] \in Seq(Nat)
  /\ analyses \subseteq 1..Len(scores) /\ known \subseteq analyses
  /\ decisions \subseteq 1..Len(scores)
  /\ r.analyses_completed = Cardinality(analyses)
  /\ r.decisions_generated = Cardinality(decisions)
  /\ Averaged(r.avg_duration_ms, analyses, scores)
  /\ Bracketed(r.avg_confidence_score, analyses, known, confidences)
  /\ Rated(r.approve_rate, decisions, shares["APPROVE"])
  /\ Rated(r.decline_rate, decisions, shares["DECLINE"])
  /\ Rated(r.refer_rate, decisions, shares["REFER"])

LEMMA TotalSame ==
  ASSUME NEW values \in Seq(Nat)
  PROVE  Total(Append(values, 0)) = Total(values)
<1>1. values \in Seq(Int) /\ 0 \in Int
  BY SeqWider
<1>2. Total(values) \in Int /\ Total(Append(values, 0)) = Total(values) + 0
  BY <1>1, TotalAppend
<1>3. QED
  BY <1>2

\* An event that adds nothing.
LEMMA NothingAdded ==
  ASSUME NEW values \in Seq(Nat), NEW avg, NEW times, NEW known
  PROVE  /\ Averaged(avg, times, values) => Averaged(avg, times, Append(values, 0))
         /\ Rated(avg, times, values) => Rated(avg, times, Append(values, 0))
         /\ Bracketed(avg, times, known, values) /\ known \subseteq 1..Len(values) =>
              Bracketed(avg, times, known, Append(values, 0))
<1>1. PICK longer : longer = Append(values, 0)
  OBVIOUS
<1>2. Total(longer) = Total(values) /\ \A i \in 1..Len(values) : longer[i] = values[i]
  BY <1>1, TotalSame
<1>3. IsMean(avg, times, longer) <=> IsMean(avg, times, values)
  BY <1>2 DEF IsMean
<1>4. Averaged(avg, times, values) => Averaged(avg, times, longer)
  BY <1>2, <1>3 DEF Averaged
<1>5. Rated(avg, times, values) => Rated(avg, times, longer)
  BY <1>3 DEF Rated
<1>6. Bracketed(avg, times, known, values) /\ known \subseteq 1..Len(values) =>
        Bracketed(avg, times, known, longer)
  <2>1. SUFFICES ASSUME Bracketed(avg, times, known, values), known \subseteq 1..Len(values)
                 PROVE  Bracketed(avg, times, known, longer)
    OBVIOUS
  <2>2. \A i \in known : longer[i] = values[i]
    BY <1>2, <2>1
  <2>3. QED
    BY <1>2, <1>3, <2>1, <2>2 DEF Bracketed
<1>7. QED
  BY <1>1, <1>4, <1>5, <1>6

\* One more time, that counts or not.
OneMore(times, n) ==
  /\ times \subseteq 1..n /\ times \cup {n} \subseteq 1..n
  /\ IsFiniteSet(times) /\ n \notin times
  /\ Cardinality(times) \in Nat
  /\ Cardinality(times \cup {n}) = Cardinality(times) + 1

LEMMA TimesLonger ==
  ASSUME NEW c \in Nat, NEW n \in Nat, c < n, NEW times, times \subseteq 1..c
  PROVE  OneMore(times, n)
<1>1. IsFiniteSet(times)
  <2>1. IsFiniteSet(1..c)
    BY FS_Interval
  <2>2. QED
    BY <2>1, FS_Subset
<1>2. n \notin times /\ times \subseteq 1..n /\ n \in 1..n
  OBVIOUS
<1>3. Cardinality(times) \in Nat /\ Cardinality(times \cup {n}) = Cardinality(times) + 1
  BY <1>1, <1>2, FS_CardinalityType, FS_AddElement
<1>4. QED
  BY <1>1, <1>2, <1>3 DEF OneMore

LEMMA ValuesLonger ==
  ASSUME NEW values \in Seq(Nat), NEW v \in Nat, NEW n, n = Len(values) + 1
  PROVE  Append(values, v) \in Seq(Nat) /\ Len(Append(values, v)) = n
OBVIOUS

LEMMA OtherMatches ==
  ASSUME NEW r, NEW analyses, NEW known, NEW decisions, NEW scores, NEW confidences, NEW shares,
         RowMatches(r, analyses, known, decisions, scores, confidences, shares)
  PROVE  RowMatches(r, analyses, known, decisions, Append(scores, 0), Append(confidences, 0),
                    [o \in Recommendation |-> Append(shares[o], 0)])
<1>1. PICK n : n = Len(scores) + 1
  OBVIOUS
<1>1a. /\ scores \in Seq(Nat) /\ confidences \in Seq(Nat) /\ Len(confidences) = Len(scores)
       /\ analyses \subseteq 1..Len(scores) /\ decisions \subseteq 1..Len(scores)
       /\ Len(scores) \in Nat /\ n \in Nat /\ Len(scores) < n
  BY <1>1 DEF RowMatches
<1>2. /\ Append(scores, 0) \in Seq(Nat) /\ Len(Append(scores, 0)) = n
      /\ analyses \subseteq 1..n /\ decisions \subseteq 1..n
  BY <1>1, <1>1a, TimesLonger, ValuesLonger DEF OneMore
<1>3. Append(confidences, 0) \in Seq(Nat) /\ Len(Append(confidences, 0)) = n
  BY <1>1, <1>1a, ValuesLonger
<1>4. PICK longer : longer = [o \in Recommendation |-> Append(shares[o], 0)]
  OBVIOUS
<1>5. /\ \A o \in Recommendation : longer[o] = Append(shares[o], 0) /\ longer[o] \in Seq(Nat)
      /\ "APPROVE" \in Recommendation /\ "DECLINE" \in Recommendation
      /\ "REFER" \in Recommendation
  BY <1>4 DEF RowMatches, Recommendation
<1>6. Averaged(r.avg_duration_ms, analyses, Append(scores, 0))
  BY NothingAdded DEF RowMatches
<1>7. Bracketed(r.avg_confidence_score, analyses, known, Append(confidences, 0))
  <2>1. known \subseteq 1..Len(confidences)
    BY DEF RowMatches
  <2>2. QED
    BY <2>1, NothingAdded DEF RowMatches
<1>8. /\ Rated(r.approve_rate, decisions, longer["APPROVE"])
      /\ Rated(r.decline_rate, decisions, longer["DECLINE"])
      /\ Rated(r.refer_rate, decisions, longer["REFER"])
  BY <1>5, NothingAdded DEF RowMatches
<1>9. QED
  BY <1>2, <1>3, <1>4, <1>5, <1>6, <1>7, <1>8 DEF RowMatches

KnownAfter(known, n, confidence) == IF confidence = Null THEN known ELSE known \cup {n}

AnalysisAdded(r, analyses, known, decisions, scores, confidences, shares, e, n) ==
  RowMatches(AnalysisIncluded(r, e), analyses \cup {n}, KnownAfter(known, n, e.confidence),
             decisions, Append(scores, e.score), Append(confidences, e.confidence),
             [o \in Recommendation |-> Append(shares[o], 0)])

LEMMA AnalysisMatches ==
  ASSUME NEW r, NEW analyses, NEW known, NEW decisions, NEW scores, NEW confidences, NEW shares,
         RowMatches(r, analyses, known, decisions, scores, confidences, shares),
         NEW e \in Delivery, NEW n, n = Len(scores) + 1
  PROVE  AnalysisAdded(r, analyses, known, decisions, scores, confidences, shares, e, n)
<1>0. /\ scores \in Seq(Nat) /\ confidences \in Seq(Nat) /\ Len(confidences) = Len(scores)
      /\ analyses \subseteq 1..Len(scores) /\ decisions \subseteq 1..Len(scores)
      /\ n = Len(scores) + 1 /\ n = Len(confidences) + 1
      /\ Len(scores) \in Nat /\ n \in Nat /\ Len(scores) < n
  BY DEF RowMatches
<1>1. PICK v, w, c : v = e.score /\ w = e.confidence /\ c = Cardinality(analyses)
  OBVIOUS
<1>2. v \in Nat /\ w \in Nat
  BY <1>1, ReadModelsAssumption DEF Delivery, Null
<1>3. /\ Append(scores, v) \in Seq(Nat) /\ Len(Append(scores, v)) = n
      /\ analyses \cup {n} \subseteq 1..n
      /\ IsFiniteSet(analyses) /\ n \notin analyses /\ c \in Nat
      /\ Cardinality(analyses \cup {n}) = c + 1
  <2>1. c = Cardinality(analyses)
    BY <1>1
  <2>2. /\ IsFiniteSet(analyses) /\ n \notin analyses /\ Cardinality(analyses) \in Nat
        /\ Cardinality(analyses \cup {n}) = Cardinality(analyses) + 1
        /\ analyses \cup {n} \subseteq 1..n
    <3>1. OneMore(analyses, n)
      BY <1>0, TimesLonger
    <3>2. QED
      BY <3>1 DEF OneMore
  <2>3. Append(scores, v) \in Seq(Nat) /\ Len(Append(scores, v)) = n
    BY <1>0, <1>2, ValuesLonger
  <2>4. QED
    BY <2>1, <2>2, <2>3
<1>4. decisions \subseteq 1..n
  BY <1>0, TimesLonger DEF OneMore
<1>5. Append(confidences, w) \in Seq(Nat) /\ Len(Append(confidences, w)) = n
  BY <1>0, <1>2, ValuesLonger
<1>6. PICK longer : longer = [o \in Recommendation |-> Append(shares[o], 0)]
  OBVIOUS
<1>7. /\ \A o \in Recommendation : longer[o] = Append(shares[o], 0) /\ longer[o] \in Seq(Nat)
      /\ "APPROVE" \in Recommendation /\ "DECLINE" \in Recommendation
      /\ "REFER" \in Recommendation
  BY <1>6 DEF RowMatches, Recommendation
<1>8. PICK d, f : /\ d = Included(r.avg_duration_ms, c, v)
                  /\ f = IF w = Null THEN r.avg_confidence_score
                                     ELSE Included(r.avg_confidence_score, c, w)
  OBVIOUS
<1>9. Averaged(d, analyses \cup {n}, Append(scores, v))
  BY <1>1, <1>2, <1>3, <1>8, AveragedStep DEF RowMatches
<1>10. PICK now : now = KnownAfter(known, n, w)
  OBVIOUS
<1>11. Bracketed(f, analyses \cup {n}, now, Append(confidences, w))
  <2>1. CASE w = Null
    <3>1. w = 0 /\ now = known /\ f = r.avg_confidence_score
      BY <1>8, <1>10, <2>1 DEF Null, KnownAfter
    <3>2. known \subseteq 1..Len(confidences)
      BY DEF RowMatches
    <3>3. Bracketed(f, analyses, known, Append(confidences, w))
      BY <3>1, <3>2, NothingAdded DEF RowMatches
    <3>4. known # analyses \cup {n}
      BY <1>3 DEF RowMatches
    <3>5. QED
      BY <3>1, <3>3, <3>4 DEF Bracketed
  <2>2. CASE w # Null
    <3>1. now = known \cup {n} /\ f = Included(r.avg_confidence_score, c, w)
      BY <1>8, <1>10, <2>2 DEF KnownAfter
    <3>2. /\ confidences \in Seq(Nat) /\ n = Len(confidences) + 1
          /\ analyses \subseteq 1..Len(confidences) /\ known \subseteq analyses
          /\ Bracketed(r.avg_confidence_score, analyses, known, confidences)
      BY DEF RowMatches
    <3>3. Bracketed(Included(r.avg_confidence_score, Cardinality(analyses), w),
                    analyses \cup {n}, known \cup {n}, Append(confidences, w))
      BY <1>2, <3>2, BracketedStep
    <3>4. QED
      BY <1>1, <3>1, <3>3
  <2>3. QED
    BY <2>1, <2>2
<1>12. /\ Rated(r.approve_rate, decisions, longer["APPROVE"])
       /\ Rated(r.decline_rate, decisions, longer["DECLINE"])
       /\ Rated(r.refer_rate, decisions, longer["REFER"])
  BY <1>7, NothingAdded DEF RowMatches
<1>13. PICK x : x = AnalysisIncluded(r, e)
  OBVIOUS
<1>14. /\ r \in LedgerRow /\ r.analyses_completed = c
       /\ r.decisions_generated = Cardinality(decisions)
  BY <1>1 DEF RowMatches
<1>15. PICK m : m = c + 1
  OBVIOUS
<1>15a. x = [r EXCEPT !.analyses_completed = m, !.avg_duration_ms = d,
                     !.avg_confidence_score = f]
  BY <1>1, <1>8, <1>13, <1>14, <1>15 DEF AnalysisIncluded, LedgerRow
<1>16. d \in Fraction \cup {<<>>} /\ f \in Fraction \cup {<<>>}
  BY <1>9, <1>11 DEF Averaged, Bracketed
<1>17. /\ x \in LedgerRow /\ x.analyses_completed = m /\ x.avg_duration_ms = d
       /\ x.avg_confidence_score = f /\ x.decisions_generated = Cardinality(decisions)
       /\ x.approve_rate = r.approve_rate /\ x.decline_rate = r.decline_rate
       /\ x.refer_rate = r.refer_rate
  <2>1. m \in Nat
    BY <1>3, <1>15
  <2>2. x \in LedgerRow
    BY <1>14, <1>15a, <1>16, <2>1 DEF LedgerRow
  <2>3. x.analyses_completed = m /\ x.avg_duration_ms = d /\ x.avg_confidence_score = f
    BY <1>14, <1>15a DEF LedgerRow
  <2>4. /\ x.decisions_generated = Cardinality(decisions)
        /\ x.approve_rate = r.approve_rate /\ x.decline_rate = r.decline_rate
        /\ x.refer_rate = r.refer_rate
    BY <1>14, <1>15a DEF LedgerRow
  <2>5. QED
    BY <2>2, <2>3, <2>4
<1>18. now \subseteq analyses \cup {n}
  BY <1>10 DEF RowMatches, KnownAfter
<1> HIDE DEF LedgerRow
<1>19. RowMatches(x, analyses \cup {n}, now, decisions, Append(scores, v),
                  Append(confidences, w), longer)
  BY <1>3, <1>4, <1>5, <1>7, <1>9, <1>11, <1>12, <1>15, <1>17, <1>18 DEF RowMatches
<1>20. QED
  BY <1>1, <1>6, <1>10, <1>13, <1>19 DEF AnalysisAdded

LEMMA DecisionMatches ==
  ASSUME NEW r, NEW analyses, NEW known, NEW decisions, NEW scores, NEW confidences, NEW shares,
         RowMatches(r, analyses, known, decisions, scores, confidences, shares),
         NEW e \in Delivery, NEW n, n = Len(scores) + 1
  PROVE  RowMatches(DecisionIncluded(r, e), analyses, known, decisions \cup {n},
                    Append(scores, 0), Append(confidences, 0),
                    [o \in Recommendation |->
                       Append(shares[o], IF e.outcome = o THEN 1 ELSE 0)])
<1>0. /\ scores \in Seq(Nat) /\ confidences \in Seq(Nat) /\ Len(confidences) = Len(scores)
      /\ analyses \subseteq 1..Len(scores) /\ decisions \subseteq 1..Len(scores)
      /\ n = Len(scores) + 1 /\ n = Len(confidences) + 1
      /\ Len(scores) \in Nat /\ n \in Nat /\ Len(scores) < n
  BY DEF RowMatches
<1>1. PICK c : c = Cardinality(decisions)
  OBVIOUS
<1>2. /\ Append(scores, 0) \in Seq(Nat) /\ Len(Append(scores, 0)) = n
      /\ decisions \cup {n} \subseteq 1..n
      /\ IsFiniteSet(decisions) /\ n \notin decisions /\ c \in Nat
      /\ Cardinality(decisions \cup {n}) = c + 1
  <2>1. c = Cardinality(decisions)
    BY <1>1
  <2>2. /\ IsFiniteSet(decisions) /\ n \notin decisions /\ Cardinality(decisions) \in Nat
        /\ Cardinality(decisions \cup {n}) = Cardinality(decisions) + 1
        /\ decisions \cup {n} \subseteq 1..n
    <3>1. OneMore(decisions, n)
      BY <1>0, TimesLonger
    <3>2. QED
      BY <3>1 DEF OneMore
  <2>3. Append(scores, 0) \in Seq(Nat) /\ Len(Append(scores, 0)) = n
    BY <1>0, ValuesLonger
  <2>4. QED
    BY <2>1, <2>2, <2>3
<1>3. analyses \subseteq 1..n
  BY <1>0, TimesLonger DEF OneMore
<1>4. Append(confidences, 0) \in Seq(Nat) /\ Len(Append(confidences, 0)) = n
  BY <1>0, ValuesLonger
<1> DEFINE One(o) == IF e.outcome = o THEN 1 ELSE 0
<1>5. \A o : One(o) \in Nat
  OBVIOUS
<1>6. PICK longer : longer = [o \in Recommendation |-> Append(shares[o], One(o))]
  OBVIOUS
<1> HIDE DEF One
<1>7. /\ \A o \in Recommendation : longer[o] = Append(shares[o], One(o)) /\ longer[o] \in Seq(Nat)
      /\ "APPROVE" \in Recommendation /\ "DECLINE" \in Recommendation
      /\ "REFER" \in Recommendation
  <2>1. \A o \in Recommendation : longer[o] = Append(shares[o], One(o))
    BY <1>6
  <2>2. \A o \in Recommendation : shares[o] \in Seq(Nat)
    BY DEF RowMatches
  <2>3. \A o \in Recommendation : Append(shares[o], One(o)) \in Seq(Nat)
    BY <1>5, <2>2
  <2>4. QED
    BY <2>1, <2>3 DEF Recommendation
<1>8. Averaged(r.avg_duration_ms, analyses, Append(scores, 0))
  BY NothingAdded DEF RowMatches
<1>9. Bracketed(r.avg_confidence_score, analyses, known, Append(confidences, 0))
  <2>1. known \subseteq 1..Len(confidences)
    BY DEF RowMatches
  <2>2. QED
    BY <2>1, NothingAdded DEF RowMatches
<1>10. PICK p, q, s : /\ p = Included(r.approve_rate, c, One("APPROVE"))
                      /\ q = Included(r.decline_rate, c, One("DECLINE"))
                      /\ s = Included(r.refer_rate, c, One("REFER"))
  OBVIOUS
<1>11. /\ Rated(p, decisions \cup {n}, longer["APPROVE"])
       /\ Rated(q, decisions \cup {n}, longer["DECLINE"])
       /\ Rated(s, decisions \cup {n}, longer["REFER"])
  <2>1. ASSUME NEW rate, NEW o \in Recommendation, Rated(rate, decisions, shares[o])
        PROVE  Rated(Included(rate, c, One(o)), decisions \cup {n}, longer[o])
    <3>1. /\ shares[o] \in Seq(Nat) /\ One(o) \in Nat
          /\ longer[o] = Append(shares[o], One(o))
      BY <1>5, <1>7 DEF RowMatches
    <3>2. QED
      BY <1>1, <1>2, <2>1, <3>1, RatedStep
  <2>2. /\ Rated(r.approve_rate, decisions, shares["APPROVE"])
        /\ Rated(r.decline_rate, decisions, shares["DECLINE"])
        /\ Rated(r.refer_rate, decisions, shares["REFER"])
    BY DEF RowMatches
  <2>3. QED
    BY <1>7, <1>10, <2>1, <2>2
<1>12. PICK x : x = DecisionIncluded(r, e)
  OBVIOUS
<1>13. /\ r \in LedgerRow /\ r.decisions_generated = c
       /\ r.analyses_completed = Cardinality(analyses)
  BY <1>1 DEF RowMatches
<1>14. PICK m : m = c + 1
  OBVIOUS
<1>14a. x = [r EXCEPT !.decisions_generated = m, !.approve_rate = p,
                     !.decline_rate = q, !.refer_rate = s]
  BY <1>10, <1>12, <1>13, <1>14 DEF DecisionIncluded, LedgerRow, One
<1>15. p \in Fraction /\ q \in Fraction /\ s \in Fraction
  BY <1>11 DEF Rated
<1>16. /\ x \in LedgerRow /\ x.decisions_generated = m
       /\ x.analyses_completed = Cardinality(analyses)
       /\ x.avg_duration_ms = r.avg_duration_ms
       /\ x.avg_confidence_score = r.avg_confidence_score
       /\ x.approve_rate = p /\ x.decline_rate = q /\ x.refer_rate = s
  <2>1. m \in Nat
    BY <1>2, <1>14
  <2>2. x \in LedgerRow
    BY <1>13, <1>14a, <1>15, <2>1 DEF LedgerRow
  <2>3. x.decisions_generated = m /\ x.approve_rate = p /\ x.decline_rate = q /\ x.refer_rate = s
    BY <1>13, <1>14a DEF LedgerRow
  <2>4. /\ x.analyses_completed = Cardinality(analyses)
        /\ x.avg_duration_ms = r.avg_duration_ms
        /\ x.avg_confidence_score = r.avg_confidence_score
    BY <1>13, <1>14a DEF LedgerRow
  <2>5. QED
    BY <2>2, <2>3, <2>4
<1>17. RowMatches(x, analyses, known, decisions \cup {n}, Append(scores, 0),
                  Append(confidences, 0), longer)
  BY <1>2, <1>3, <1>4, <1>7, <1>8, <1>9, <1>11, <1>14, <1>16 DEF RowMatches
<1>18. QED
  BY <1>6, <1>12, <1>17 DEF One

LEMMA EmptyMatches ==
  RowMatches(EmptyLedgerRow, {}, {}, {}, <<>>, <<>>, [o \in Recommendation |-> <<>>])
<1>1. <<>> \in Seq(Nat) /\ Len(<<>>) = 0
  OBVIOUS
<1>2. <<0, 1>> \in Fraction
  BY DEF Fraction
<1>3. EmptyLedgerRow \in LedgerRow
  BY <1>2 DEF EmptyLedgerRow, LedgerRow
<1>4. Cardinality({}) = 0
  BY FS_EmptySet
<1>5. /\ Averaged(<<>>, {}, <<>>) /\ Bracketed(<<>>, {}, {}, <<>>)
      /\ Rated(<<0, 1>>, {}, <<>>)
  BY <1>2, <1>4, TotalEmpty DEF Averaged, Bracketed, Rated, IsMean
<1>6. PICK shares : shares = [o \in Recommendation |-> <<>>]
  OBVIOUS
<1>7. /\ \A o \in Recommendation : shares[o] = <<>>
      /\ "APPROVE" \in Recommendation /\ "DECLINE" \in Recommendation
      /\ "REFER" \in Recommendation
  BY <1>6 DEF Recommendation
<1>8. /\ EmptyLedgerRow.analyses_completed = 0 /\ EmptyLedgerRow.decisions_generated = 0
      /\ EmptyLedgerRow.avg_confidence_score = <<>> /\ EmptyLedgerRow.avg_duration_ms = <<>>
      /\ EmptyLedgerRow.approve_rate = <<0, 1>> /\ EmptyLedgerRow.decline_rate = <<0, 1>>
      /\ EmptyLedgerRow.refer_rate = <<0, 1>>
  BY DEF EmptyLedgerRow
<1> HIDE DEF EmptyLedgerRow
<1>9. QED
  BY <1>1, <1>3, <1>4, <1>5, <1>6, <1>7, <1>8 DEF RowMatches

\* What the averages of a key are made of.
Analyses(k) == Behind(k, "CreditAnalysisCompleted")
Decisions(k) == Behind(k, "DecisionGenerated")
Known(k) == {n \in Analyses(k) : log[handled[n]].confidence # Null}
Scores(k) == [n \in DOMAIN handled |-> IF n \in Analyses(k) THEN log[handled[n]].score ELSE 0]
Confidences(k) ==
  [n \in DOMAIN handled |-> IF n \in Known(k) THEN log[handled[n]].confidence ELSE 0]
ShareOf(k, o) ==
  [n \in DOMAIN handled |->
     IF n \in Decisions(k) /\ log[handled[n]].outcome = o THEN 1 ELSE 0]
Shares(k) == [o \in Recommendation |-> ShareOf(k, o)]

Ensured(r) == IF r = NoLedgerRow THEN EmptyLedgerRow ELSE r

\* Each row has the counts and averages of what was handled for its key, a missing one
\* those of nothing.
MetricsInv ==
  /\ projection = "application_summary" => \A k \in Keys : ledger[k] = NoLedgerRow
  /\ projection = "agent_performance_ledger" =>
       \A k \in Keys :
         RowMatches(Ensured(ledger[k]), Analyses(k), Known(k), Decisions(k), Scores(k),
                    Confidences(k), Shares(k))

NothingBehind ==
  \A k \in Keys :
    RowMatches(EmptyLedgerRow, Analyses(k), Known(k), Decisions(k), Scores(k),
               Confidences(k), Shares(k))

LEMMA NothingHandled == handled = <<>> => NothingBehind
<1> SUFFICES ASSUME handled = <<>>, NEW k
             PROVE  RowMatches(EmptyLedgerRow, Analyses(k), Known(k), Decisions(k), Scores(k),
                               Confidences(k), Shares(k))
  BY DEF NothingBehind
<1>1. Analyses(k) = {} /\ Known(k) = {} /\ Decisions(k) = {}
  BY DEF Analyses, Known, Decisions, Behind
<1>2. Scores(k) = <<>> /\ Confidences(k) = <<>> /\ \A o : ShareOf(k, o) = <<>>
  BY DEF Scores, Confidences, ShareOf
<1>3. Shares(k) = [o \in Recommendation |-> <<>>]
  BY <1>2 DEF Shares
<1>4. QED
  BY <1>1, <1>2, <1>3, EmptyMatches

LEMMA NotNoRow ==
  ASSUME NEW r \in LedgerRow
  PROVE  r # NoLedgerRow /\ Ensured(r) = r
<1>1. r.analyses_completed \in Nat
  BY DEF LedgerRow
<1>2. NoLedgerRow.analyses_completed = -1
  BY DEF NoLedgerRow
<1>3. r # NoLedgerRow
  BY <1>1, <1>2
<1>4. QED
  BY <1>3 DEF Ensured

Longer(s, c, x, t) ==
  /\ t = [n \in 1..(c + 1) |-> t[n]]
  /\ \A n \in 1..c : t[n] = s[n]
  /\ t[c + 1] = x

LEMMA AppendIs ==
  ASSUME NEW S, NEW s \in Seq(S), NEW x \in S, NEW t, NEW c, c = Len(s), Longer(s, c, x, t)
  PROVE  t = Append(s, x)
<1>1. PICK a : a = Append(s, x)
  OBVIOUS
<1>2. c \in Nat /\ a = [n \in 1..(c + 1) |-> a[n]]
  <2>1. a \in Seq(S) /\ Len(a) = c + 1 /\ c \in Nat
    BY <1>1
  <2>2. a \in [1..Len(a) -> S]
    BY <2>1
  <2>3. a \in [1..(c + 1) -> S]
    BY <2>1, <2>2
  <2>4. QED
    BY <2>1, <2>3
<1>3. \A n \in 1..c : a[n] = s[n]
  BY <1>1
<1>4. a[c + 1] = x
  BY <1>1
<1>5. \A n \in 1..(c + 1) : n \in 1..c \/ n = c + 1
  BY <1>2
<1>6. \A n \in 1..(c + 1) : t[n] = a[n]
  BY <1>3, <1>4, <1>5 DEF Longer
<1>7. QED
  BY <1>1, <1>2, <1>6 DEF Longer

\* What handling the event at a position adds to what the averages are made of.
LEMMA BehindAfter ==
  ASSUME ReadTypeOK, log' = log, NEW p \in 1..Len(log), handled' = Append(handled, p),
         NEW k, NEW n, n = Len(handled) + 1
  PROVE  LET e == log[p]
             Mine_(type) == e.type = type /\ KeyOf(Upcast(e)) = k
         IN  /\ Analyses(k)' = Analyses(k) \cup {i \in {n} : Mine_("CreditAnalysisCompleted")}
             /\ Known(k)' = Known(k) \cup {i \in {n} : Mine_("CreditAnalysisCompleted")
                                                        /\ e.confidence # Null}
             /\ Decisions(k)' = Decisions(k) \cup {i \in {n} : Mine_("DecisionGenerated")}
             /\ Scores(k)' = Append(Scores(k), IF Mine_("CreditAnalysisCompleted")
                                               THEN e.score ELSE 0)
             /\ Confidences(k)' =
                  Append(Confidences(k), IF Mine_("CreditAnalysisCompleted")
                                         THEN e.confidence ELSE 0)
             /\ Shares(k)' =
                  [o \in Recommendation |->
                     Append(Shares(k)[o], IF Mine_("DecisionGenerated") /\ e.outcome = o
                                          THEN 1 ELSE 0)]
<1> DEFINE e == log[p]
           Of(type) == e.type = type /\ KeyOf(Upcast(e)) = k
<1>1. PICK c : c = Len(handled)
  OBVIOUS
<1>2. /\ c \in Nat /\ n = c + 1 /\ DOMAIN handled = 1..c /\ DOMAIN handled' = 1..n
      /\ handled'[n] = p /\ \A i \in 1..c : handled'[i] = handled[i]
      /\ \A i \in 1..n : i \in 1..c \/ i = n
      /\ 1..c \subseteq 1..n /\ n \in 1..n /\ n \notin 1..c
  BY <1>1 DEF ReadTypeOK
<1>3. ASSUME NEW type
      PROVE  /\ Behind(k, type)' = Behind(k, type) \cup {i \in {n} : Of(type)}
             /\ Behind(k, type) \subseteq 1..c
  <2>1. \A i : i \in Behind(k, type)' <=>
                 i \in 1..n /\ log[handled'[i]].type = type
                            /\ KeyOf(Upcast(log[handled'[i]])) = k
    BY <1>2 DEF Behind
  <2>2. \A i : i \in Behind(k, type) <=>
                 i \in 1..c /\ log[handled[i]].type = type
                            /\ KeyOf(Upcast(log[handled[i]])) = k
    BY <1>2 DEF Behind
  <2>3. QED
    BY <1>2, <2>1, <2>2
<1>4. /\ Analyses(k)' = Analyses(k) \cup {i \in {n} : Of("CreditAnalysisCompleted")}
      /\ Analyses(k) \subseteq 1..c
  BY <1>3 DEF Analyses
<1>5. /\ Decisions(k)' = Decisions(k) \cup {i \in {n} : Of("DecisionGenerated")}
      /\ Decisions(k) \subseteq 1..c
  BY <1>3 DEF Decisions
<1> HIDE DEF Of
<1>6. /\ Known(k)' = Known(k) \cup {i \in {n} : Of("CreditAnalysisCompleted")
                                                /\ e.confidence # Null}
      /\ Known(k) \subseteq 1..c
  <2>1. \A i : i \in Known(k)' <=> i \in Analyses(k)' /\ log[handled'[i]].confidence # Null
    BY DEF Known
  <2>2. \A i : i \in Known(k) <=> i \in Analyses(k) /\ log[handled[i]].confidence # Null
    BY DEF Known
  <2>3. QED
    BY <1>2, <1>4, <2>1, <2>2
<1>7. \A i \in 1..Len(log) : log[i] \in Event
  BY DEF ReadTypeOK
<1>8. \A x \in Event : x.score \in Nat /\ x.confidence \in Nat
  <2>1. Score \subseteq Nat /\ Null = 0
    BY ReadModelsAssumption DEF Null
  <2>2. \A x \in Event : x.score \in Score \cup {0} /\ x.confidence \in Score \cup {Null}
    BY DEF Event
  <2>3. Score \cup {0} \subseteq Nat /\ Score \cup {Null} \subseteq Nat
    BY <2>1
  <2>4. QED
    BY <2>2, <2>3
<1>9. \A i \in 1..c : log[handled[i]] \in Event
  BY <1>1, <1>7 DEF ReadTypeOK
<1>10. Scores(k)' = Append(Scores(k), IF Of("CreditAnalysisCompleted") THEN e.score ELSE 0)
  <2>1. PICK a, b : a = Scores(k) /\ b = Scores(k)'
    OBVIOUS
  <2>2. a = [i \in 1..c |-> IF i \in Analyses(k) THEN log[handled[i]].score ELSE 0]
    BY <1>2, <2>1 DEF Scores
  <2>3. b = [i \in 1..n |-> IF i \in Analyses(k)' THEN log[handled'[i]].score ELSE 0]
    BY <1>2, <2>1 DEF Scores
  <2>4. a \in Seq(Nat) /\ Len(a) = c
    <3>1. \A i \in 1..c : log[handled[i]].score \in Nat
      BY <1>8, <1>9
    <3>2. \A i \in 1..c : a[i] \in Nat
      BY <2>2, <3>1
    <3>3. c \in Nat /\ a = [i \in 1..c |-> a[i]]
      BY <1>2, <2>2
    <3>4. QED
      BY <3>2, <3>3
  <2>5. PICK x : x = IF Of("CreditAnalysisCompleted") THEN e.score ELSE 0
    OBVIOUS
  <2>6. x \in Nat
    BY <1>7, <1>8, <2>5
  <2>7. \A i \in 1..c : b[i] = a[i]
    BY <1>2, <1>4, <2>2, <2>3
  <2>8. b[n] = x
    BY <1>2, <1>4, <2>3, <2>5
  <2>9. b = [i \in 1..(c + 1) |-> b[i]]
    BY <1>2, <2>3
  <2>10. b = Append(a, x)
    <3>1. Longer(a, c, x, b)
      BY <1>2, <2>7, <2>8, <2>9 DEF Longer
    <3>2. QED
      BY <2>4, <2>6, <3>1, AppendIs
  <2>11. QED
    BY <2>1, <2>5, <2>10
<1>11. Confidences(k)' =
         Append(Confidences(k), IF Of("CreditAnalysisCompleted") THEN e.confidence ELSE 0)
  <2>1. PICK a, b : a = Confidences(k) /\ b = Confidences(k)'
    OBVIOUS
  <2>2. a = [i \in 1..c |-> IF i \in Known(k) THEN log[handled[i]].confidence ELSE 0]
    BY <1>2, <2>1 DEF Confidences
  <2>3. b = [i \in 1..n |-> IF i \in Known(k)' THEN log[handled'[i]].confidence ELSE 0]
    BY <1>2, <2>1 DEF Confidences
  <2>4. a \in Seq(Nat) /\ Len(a) = c
    <3>1. \A i \in 1..c : log[handled[i]].confidence \in Nat
      BY <1>8, <1>9
    <3>2. \A i \in 1..c : a[i] \in Nat
      BY <2>2, <3>1
    <3>3. c \in Nat /\ a = [i \in 1..c |-> a[i]]
      BY <1>2, <2>2
    <3>4. QED
      BY <3>2, <3>3
  <2>5. PICK x : x = IF Of("CreditAnalysisCompleted") THEN e.confidence ELSE 0
    OBVIOUS
  <2>6. x \in Nat
    BY <1>7, <1>8, <2>5
  <2>7. \A i \in 1..c : b[i] = a[i]
    BY <1>2, <1>6, <2>2, <2>3
  <2>8. b[n] = x
    BY <1>2, <1>6, <2>3, <2>5 DEF Null
  <2>9. b = [i \in 1..(c + 1) |-> b[i]]
    BY <1>2, <2>3
  <2>10. b = Append(a, x)
    <3>1. Longer(a, c, x, b)
      BY <1>2, <2>7, <2>8, <2>9 DEF Longer
    <3>2. QED
      BY <2>4, <2>6, <3>1, AppendIs
  <2>11. QED
    BY <2>1, <2>5, <2>10
<1>12. ASSUME NEW o \in Recommendation
       PROVE  ShareOf(k, o)' =
                Append(ShareOf(k, o), IF Of("DecisionGenerated") /\ e.outcome = o
                                      THEN 1 ELSE 0)
  <2>1. PICK a, b : a = ShareOf(k, o) /\ b = ShareOf(k, o)'
    OBVIOUS
  <2>2. a = [i \in 1..c |->
               IF i \in Decisions(k) /\ log[handled[i]].outcome = o THEN 1 ELSE 0]
    BY <1>2, <2>1 DEF ShareOf
  <2>3. b = [i \in 1..n |->
               IF i \in Decisions(k)' /\ log[handled'[i]].outcome = o THEN 1 ELSE 0]
    BY <1>2, <2>1 DEF ShareOf
  <2>4. a \in Seq(Nat) /\ Len(a) = c
    BY <1>2, <2>2
  <2>5. PICK x : x = IF Of("DecisionGenerated") /\ e.outcome = o THEN 1 ELSE 0
    OBVIOUS
  <2>6. x \in Nat
    BY <2>5
  <2>7. \A i \in 1..c : b[i] = a[i]
    BY <1>2, <1>5, <2>2, <2>3
  <2>8. b[n] = x
    BY <1>2, <1>5, <2>3, <2>5
  <2>9. b = [i \in 1..(c + 1) |-> b[i]]
    BY <1>2, <2>3
  <2>10. b = Append(a, x)
    <3>1. Longer(a, c, x, b)
      BY <1>2, <2>7, <2>8, <2>9 DEF Longer
    <3>2. QED
      BY <2>4, <2>6, <3>1, AppendIs
  <2>11. QED
    BY <2>1, <2>5, <2>10
<1>13. Shares(k)' = [o \in Recommendation |->
                       Append(Shares(k)[o], IF Of("DecisionGenerated") /\ e.outcome = o
                                            THEN 1 ELSE 0)]
  <2>1. \A o \in Recommendation : Shares(k)[o] = ShareOf(k, o)
    BY DEF Shares
  <2>2. Shares(k)' = [o \in Recommendation |-> ShareOf(k, o)']
    BY DEF Shares
  <2>3. QED
    BY <1>12, <2>1, <2>2
<1>14. QED
  BY <1>4, <1>5, <1>6, <1>10, <1>11, <1>13 DEF Of

LEMMA MetricsStep ==
  ASSUME ReadTypeOK, MetricsInv, Applied, log' = log, projection' = projection
  PROVE  MetricsInv'
<1>1. CASE projection = "application_summary"
  <2>1. ledger' = ledger
    BY <1>1 DEF Applied
  <2>2. projection # "agent_performance_ledger"
    BY <1>1
  <2>3. QED
    BY <1>1, <2>1, <2>2 DEF MetricsInv
<1>2. CASE projection = "agent_performance_ledger"
  <2> SUFFICES ASSUME NEW k \in Keys
               PROVE  RowMatches(Ensured(ledger'[k]), Analyses(k)', Known(k)', Decisions(k)',
                                 Scores(k)', Confidences(k)', Shares(k)')
    BY <1>2 DEF MetricsInv
  <2>1. PICK p, e, u, n : p = next /\ e = log[next] /\ u = Delivered /\ n = Len(handled) + 1
    OBVIOUS
  <2>2. p \in 1..Len(log) /\ e = log[p] /\ handled' = Append(handled, p) /\ e \in Event
    BY <2>1 DEF Applied, ReadTypeOK
  <2>3. u \in Delivery /\ SameBut(e, u) /\ u = Upcast(e)
    BY <2>1, <2>2, EventDelivered DEF Delivered
  <2>4. PICK r, s : r = Ensured(ledger[k]) /\ s = ledger'[k]
    OBVIOUS
  <2>5. PICK an, kn, de, sc, co, sh :
          /\ an = Analyses(k) /\ kn = Known(k) /\ de = Decisions(k)
          /\ sc = Scores(k) /\ co = Confidences(k) /\ sh = Shares(k)
    OBVIOUS
  <2>6. RowMatches(r, an, kn, de, sc, co, sh)
    BY <1>2, <2>4, <2>5 DEF MetricsInv
  <2>7. s = IF KeyOf(u) = k THEN LedgerAfter(ledger[k], u) ELSE ledger[k]
    <3>1. projection # "application_summary"
      BY <1>2
    <3>2. ledger' = [ledger EXCEPT ![KeyOf(u)] = LedgerAfter(ledger[KeyOf(u)], u)]
      BY <2>1, <3>1 DEF Applied
    <3>3. QED
      BY <2>4, <3>2 DEF ReadTypeOK
  <2>8. n = Len(sc) + 1
    <3>1. DOMAIN Scores(k) = DOMAIN handled /\ Len(handled) \in Nat
      BY DEF Scores, ReadTypeOK
    <3>2. DOMAIN sc = 1..Len(handled)
      BY <2>5, <3>1 DEF ReadTypeOK
    <3>3. sc \in Seq(Nat)
      BY <2>6 DEF RowMatches
    <3>4. Len(sc) = Len(handled)
      BY <3>1, <3>2, <3>3
    <3>5. QED
      BY <2>1, <3>4
  <2>9. PICK an1, kn1, de1, sc1, co1, sh1 :
          /\ an1 = Analyses(k)' /\ kn1 = Known(k)' /\ de1 = Decisions(k)'
          /\ sc1 = Scores(k)' /\ co1 = Confidences(k)' /\ sh1 = Shares(k)'
    OBVIOUS
  <2> DEFINE Of(type) == e.type = type /\ KeyOf(u) = k
  <2>10. /\ an1 = an \cup {i \in {n} : Of("CreditAnalysisCompleted")}
         /\ kn1 = kn \cup {i \in {n} : Of("CreditAnalysisCompleted") /\ e.confidence # Null}
         /\ de1 = de \cup {i \in {n} : Of("DecisionGenerated")}
         /\ sc1 = Append(sc, IF Of("CreditAnalysisCompleted") THEN e.score ELSE 0)
         /\ co1 = Append(co, IF Of("CreditAnalysisCompleted") THEN e.confidence ELSE 0)
         /\ sh1 = [o \in Recommendation |->
                     Append(sh[o], IF Of("DecisionGenerated") /\ e.outcome = o THEN 1 ELSE 0)]
    <3>1. /\ ReadTypeOK /\ log' = log /\ p \in 1..Len(log)
          /\ handled' = Append(handled, p) /\ n = Len(handled) + 1
      BY <2>1, <2>2
    <3> DEFINE Mine_(type) == log[p].type = type /\ KeyOf(Upcast(log[p])) = k
    <3>2. /\ Analyses(k)' = Analyses(k) \cup {i \in {n} : Mine_("CreditAnalysisCompleted")}
          /\ Known(k)' = Known(k) \cup {i \in {n} : Mine_("CreditAnalysisCompleted")
                                                     /\ log[p].confidence # Null}
          /\ Decisions(k)' = Decisions(k) \cup {i \in {n} : Mine_("DecisionGenerated")}
          /\ Scores(k)' = Append(Scores(k), IF Mine_("CreditAnalysisCompleted")
                                            THEN log[p].score ELSE 0)
          /\ Confidences(k)' = Append(Confidences(k), IF Mine_("CreditAnalysisCompleted")
                                                      THEN log[p].confidence ELSE 0)
          /\ Shares(k)' =
               [o \in Recommendation |->
                  Append(Shares(k)[o], IF Mine_("DecisionGenerated") /\ log[p].outcome = o
                                       THEN 1 ELSE 0)]
      BY <3>1, BehindAfter
    <3>3. log[p] = e /\ KeyOf(Upcast(log[p])) = KeyOf(u)
      BY <2>2, <2>3
    <3>4. QED
      BY <2>5, <2>9, <3>2, <3>3
  <2>11. CASE Of("CreditAnalysisCompleted")
    <3>1. PICK x : x = AnalysisIncluded(r, u)
      OBVIOUS
    <3>2. s = x
      BY <2>3, <2>4, <2>7, <2>11, <3>1 DEF LedgerAfter, Ensured, SameBut
    <3>3. /\ an1 = an \cup {n} /\ de1 = de
          /\ kn1 = KnownAfter(kn, n, u.confidence)
          /\ sc1 = Append(sc, u.score) /\ co1 = Append(co, u.confidence)
          /\ sh1 = [o \in Recommendation |-> Append(sh[o], 0)]
      BY <2>3, <2>10, <2>11 DEF SameBut, KnownAfter
    <3>4. RowMatches(x, an1, kn1, de1, sc1, co1, sh1)
      <4>1. u \in Delivery
        BY <2>3
      <4>2. AnalysisAdded(r, an, kn, de, sc, co, sh, u, n)
        BY <2>6, <2>8, <4>1, AnalysisMatches
      <4>3. QED
        BY <3>1, <3>3, <4>2 DEF AnalysisAdded
    <3>5. x \in LedgerRow
      BY <3>4 DEF RowMatches
    <3>6. QED
      BY <2>4, <2>9, <3>2, <3>4, <3>5, NotNoRow
  <2>12. CASE Of("DecisionGenerated")
    <3>1. PICK x : x = DecisionIncluded(r, u)
      OBVIOUS
    <3>2. s = x
      BY <2>3, <2>4, <2>7, <2>12, <3>1 DEF LedgerAfter, Ensured, SameBut
    <3>3. /\ an1 = an /\ kn1 = kn /\ de1 = de \cup {n}
          /\ sc1 = Append(sc, 0) /\ co1 = Append(co, 0)
          /\ sh1 = [o \in Recommendation |-> Append(sh[o], IF u.outcome = o THEN 1 ELSE 0)]
      BY <2>3, <2>10, <2>12 DEF SameBut
    <3>4. RowMatches(x, an1, kn1, de1, sc1, co1, sh1)
      <4>1. RowMatches(DecisionIncluded(r, u), an, kn, de \cup {n}, Append(sc, 0), Append(co, 0),
                       [o \in Recommendation |->
                          Append(sh[o], IF u.outcome = o THEN 1 ELSE 0)])
        BY <2>3, <2>6, <2>8, DecisionMatches
      <4>2. QED
        BY <3>1, <3>3, <4>1
    <3>5. x \in LedgerRow
      BY <3>4 DEF RowMatches
    <3>6. QED
      BY <2>4, <2>9, <3>2, <3>4, <3>5, NotNoRow
  <2>13. CASE ~Of("CreditAnalysisCompleted") /\ ~Of("DecisionGenerated")
    <3>1. Ensured(s) = r
      <4>1. EmptyLedgerRow \in LedgerRow
        BY EmptyMatches DEF RowMatches
      <4>2. Ensured(EmptyLedgerRow) = EmptyLedgerRow
        BY <4>1, NotNoRow
      <4>3. Ensured(r) = r
        BY <2>4, <4>2 DEF Ensured
      <4>4. CASE KeyOf(u) # k
        BY <2>4, <2>7, <4>4
      <4>5. CASE KeyOf(u) = k
        <5>1. u.type # "CreditAnalysisCompleted" /\ u.type # "DecisionGenerated"
          BY <2>3, <2>13, <4>5 DEF SameBut
        <5>2. s = r \/ s = ledger[k]
          BY <2>4, <2>7, <4>5, <5>1 DEF LedgerAfter, Ensured
        <5>3. QED
          BY <2>4, <4>3, <5>2
      <4>6. QED
        BY <4>4, <4>5
    <3>2. /\ an1 = an /\ kn1 = kn /\ de1 = de /\ sc1 = Append(sc, 0) /\ co1 = Append(co, 0)
          /\ sh1 = [o \in Recommendation |-> Append(sh[o], 0)]
      BY <2>10, <2>13
    <3>3. RowMatches(r, an1, kn1, de1, sc1, co1, sh1)
      BY <2>6, <3>2, OtherMatches
    <3>4. QED
      BY <2>4, <2>9, <3>1, <3>3
  <2>14. QED
    BY <2>11, <2>12, <2>13
<1>3. QED
  BY <1>1, <1>2 DEF ReadTypeOK, Projection

LEMMA MetricsKept ==
  ReadTypeOK /\ MetricsInv /\ [ReadNext]_readVars => MetricsInv'
<1> SUFFICES ASSUME ReadTypeOK, MetricsInv, [ReadNext]_readVars PROVE MetricsInv'
  OBVIOUS
<1>1. ASSUME UNCHANGED <<ledger, projection, handled>>,
             \A n \in DOMAIN handled : log'[handled[n]] = log[handled[n]]
      PROVE  MetricsInv'
  <2>1. ASSUME NEW k
        PROVE  /\ Analyses(k)' = Analyses(k) /\ Known(k)' = Known(k)
               /\ Decisions(k)' = Decisions(k) /\ Scores(k)' = Scores(k)
               /\ Confidences(k)' = Confidences(k) /\ Shares(k)' = Shares(k)
    <3>1. \A type : Behind(k, type)' = Behind(k, type)
      BY <1>1 DEF Behind
    <3>2. Analyses(k)' = Analyses(k) /\ Decisions(k)' = Decisions(k)
      BY <3>1 DEF Analyses, Decisions
    <3>3. Analyses(k) \subseteq DOMAIN handled
      BY DEF Analyses, Behind
    <3>4. Known(k)' = Known(k)
      BY <1>1, <3>2, <3>3 DEF Known
    <3>5. Scores(k)' = Scores(k)
      BY <1>1, <3>2 DEF Scores
    <3>6. Confidences(k)' = Confidences(k)
      BY <1>1, <3>4 DEF Confidences
    <3>7. \A o : ShareOf(k, o)' = ShareOf(k, o)
      BY <1>1, <3>2 DEF ShareOf
    <3>8. Shares(k)' = Shares(k)
      BY <3>7 DEF Shares
    <3>9. QED
      BY <3>2, <3>4, <3>5, <3>6, <3>8
  <2>2. QED
    BY <1>1, <2>1 DEF MetricsInv
<1>2. ASSUME UNCHANGED <<ledger, projection, handled, log>> PROVE MetricsInv'
  BY <1>1, <1>2
<1>3. ASSUME NEW a \in App, NEW e \in HandlerEvents(a) \cup AgentEvents(a), WriteEvent(e)
      PROVE  MetricsInv'
  <2>1. UNCHANGED <<ledger, projection, handled>> /\ log' = Append(log, e)
    BY <1>3 DEF WriteEvent, tables
  <2>2. PICK c : c = Len(log)
    OBVIOUS
  <2>3. \A i \in 1..c : log'[i] = log[i]
    BY <2>1, <2>2 DEF ReadTypeOK
  <2>4. \A n \in DOMAIN handled : handled[n] \in 1..c
    BY <2>2 DEF ReadTypeOK
  <2>5. QED
    BY <1>1, <2>1, <2>3, <2>4
<1>4. CASE Handle
  BY <1>4, MetricsStep DEF Handle
<1>5. CASE HandleAndStop
  BY <1>5, MetricsStep DEF HandleAndStop
<1>6. CASE GiveUp
  BY <1>2, <1>6 DEF GiveUp, tables
<1>7. CASE NextBatch
  BY <1>2, <1>7 DEF NextBatch, tables
<1>8. CASE Rebuild
  <2>1. handled' = <<>> /\ projection' = projection
    BY <1>8 DEF Rebuild
  <2>2. CASE projection = "application_summary"
    <3>1. ledger' = ledger /\ projection' # "agent_performance_ledger"
      BY <1>8, <2>1, <2>2 DEF Rebuild
    <3>2. QED
      BY <2>1, <2>2, <3>1 DEF MetricsInv
  <2>3. CASE projection # "application_summary"
    <3>1. \A k \in Keys : ledger'[k] = NoLedgerRow /\ Ensured(ledger'[k]) = EmptyLedgerRow
      BY <1>8, <2>3 DEF Rebuild, Ensured
    <3>2. \A k \in Keys : RowMatches(EmptyLedgerRow, Analyses(k)', Known(k)', Decisions(k)',
                                     Scores(k)', Confidences(k)', Shares(k)')
      <4>1. (handled = <<>>)' => NothingBehind'
        BY NothingHandled, PTL
      <4>2. QED
        BY <2>1, <4>1 DEF NothingBehind
    <3>3. QED
      BY <2>1, <2>3, <3>1, <3>2 DEF MetricsInv
  <2>4. QED
    BY <2>2, <2>3
<1>9. CASE UNCHANGED readVars
  BY <1>2, <1>9 DEF readVars, tables
<1>10. QED
  BY <1>3, <1>4, <1>5, <1>6, <1>7, <1>8, <1>9 DEF ReadNext

\* The rows of agent_performance_ledger follow what was handled.
LEMMA MetricsMatch ==
  ASSUME MetricsInv, ReadTypeOK
  PROVE  MetricsMatchHistory
<1> SUFFICES ASSUME NEW k \in Keys, ledger[k] # NoLedgerRow
    PROVE  LET analyses == Behind(k, "CreditAnalysisCompleted")
               decisions == Behind(k, "DecisionGenerated")
               Scored(n) == log[handled[n]].score
               Confidence(n) == log[handled[n]].confidence
               known == {n \in analyses : Confidence(n) # Null}
               scores == [n \in DOMAIN handled |-> IF n \in analyses THEN Scored(n) ELSE 0]
               confidences ==
                 [n \in DOMAIN handled |-> IF n \in known THEN Confidence(n) ELSE 0]
               Share(outcome) ==
                 [n \in DOMAIN handled |->
                    IF n \in decisions /\ log[handled[n]].outcome = outcome THEN 1 ELSE 0]
           IN  /\ ledger[k].analyses_completed = Cardinality(analyses)
               /\ ledger[k].decisions_generated = Cardinality(decisions)
               /\ analyses # {} => IsMean(ledger[k].avg_duration_ms, analyses, scores)
               /\ (ledger[k].avg_confidence_score = <<>>) <=> (known = {})
               /\ known # {} =>
                    LET avg == ledger[k].avg_confidence_score
                    IN  IF known = analyses THEN IsMean(avg, known, confidences)
                        ELSE /\ \E n \in known : Confidence(n) * avg[2] <= avg[1]
                             /\ \E n \in known : avg[1] <= Confidence(n) * avg[2]
               /\ decisions # {} =>
                    /\ IsMean(ledger[k].approve_rate, decisions, Share("APPROVE"))
                    /\ IsMean(ledger[k].decline_rate, decisions, Share("DECLINE"))
                    /\ IsMean(ledger[k].refer_rate, decisions, Share("REFER"))
  BY DEF MetricsMatchHistory
<1>1. projection = "agent_performance_ledger"
  BY DEF MetricsInv, ReadTypeOK, Projection
<1>2. PICK r : r = ledger[k]
  OBVIOUS
<1>3. Ensured(ledger[k]) = r
  BY <1>2 DEF Ensured
<1>4. RowMatches(r, Analyses(k), Known(k), Decisions(k), Scores(k), Confidences(k), Shares(k))
  BY <1>1, <1>3 DEF MetricsInv
<1>5. /\ Shares(k)["APPROVE"] = ShareOf(k, "APPROVE")
      /\ Shares(k)["DECLINE"] = ShareOf(k, "DECLINE")
      /\ Shares(k)["REFER"] = ShareOf(k, "REFER")
  BY DEF Shares, Recommendation
<1>6. /\ r.analyses_completed = Cardinality(Analyses(k))
      /\ r.decisions_generated = Cardinality(Decisions(k))
      /\ Analyses(k) # {} => IsMean(r.avg_duration_ms, Analyses(k), Scores(k))
      /\ IsMean(r.approve_rate, Decisions(k), ShareOf(k, "APPROVE"))
      /\ IsMean(r.decline_rate, Decisions(k), ShareOf(k, "DECLINE"))
      /\ IsMean(r.refer_rate, Decisions(k), ShareOf(k, "REFER"))
  BY <1>4, <1>5 DEF RowMatches, Averaged, Rated
<1>7. PICK avg : avg = r.avg_confidence_score
  OBVIOUS
<1>8. Bracketed(avg, Analyses(k), Known(k), Confidences(k))
  BY <1>4, <1>7 DEF RowMatches
<1>9. avg = <<>> <=> Known(k) = {}
  <2>1. ASSUME NEW f \in Fraction PROVE f # <<>>
    <3>1. PICK p \in Nat, q \in Nat \ {0} : f = <<p, q>>
      BY DEF Fraction
    <3>2. QED
      BY <3>1
  <2>2. QED
    BY <1>8, <2>1 DEF Bracketed
<1>10. Known(k) # {} /\ Known(k) = Analyses(k) => IsMean(avg, Known(k), Confidences(k))
  BY <1>8 DEF Bracketed
<1>11. Known(k) # {} =>
         /\ \E n \in Known(k) : log[handled[n]].confidence * avg[2] <= avg[1]
         /\ \E n \in Known(k) : avg[1] <= log[handled[n]].confidence * avg[2]
  <2>1. SUFFICES ASSUME Known(k) # {}
                 PROVE  /\ \E n \in Known(k) : log[handled[n]].confidence * avg[2] <= avg[1]
                        /\ \E n \in Known(k) : avg[1] <= log[handled[n]].confidence * avg[2]
    OBVIOUS
  <2>2. \A n \in Known(k) : n \in DOMAIN handled
    BY DEF Known, Analyses, Behind
  <2>3. \A n \in Known(k) : Confidences(k)[n] = log[handled[n]].confidence
    BY <2>2 DEF Confidences
  <2>4. /\ \E n \in Known(k) : Confidences(k)[n] * avg[2] <= avg[1]
        /\ \E n \in Known(k) : avg[1] <= Confidences(k)[n] * avg[2]
    BY <1>8, <2>1 DEF Bracketed
  <2>5. QED
    BY <2>3, <2>4
<1>12. QED
  BY <1>2, <1>6, <1>7, <1>9, <1>10, <1>11
     DEF Analyses, Decisions, Known, Scores, Confidences, ShareOf

\* The running counts, averages and rates of agent_performance_ledger are those of the
\* events handled since the last rebuild, for every history and every number of stops
\* (agent_performance.py, which never reads back what it averages).
THEOREM MetricsFollowHistory == ReadSpec => []MetricsMatchHistory
<1>1. ReadInit => MetricsInv
  <2> SUFFICES ASSUME ReadInit PROVE MetricsInv
    OBVIOUS
  <2>1. \A k \in Keys : ledger[k] = NoLedgerRow /\ Ensured(ledger[k]) = EmptyLedgerRow
    BY DEF ReadInit, Ensured
  <2>2. NothingBehind
    BY NothingHandled DEF ReadInit
  <2>3. QED
    BY <2>1, <2>2 DEF MetricsInv, NothingBehind
<1>2. ReadTypeOK /\ MetricsInv => MetricsMatchHistory
  BY MetricsMatch
<1>3. QED
  BY <1>1, <1>2, MetricsKept, ReadTyped, PTL DEF ReadSpec

--------------------------------------------------------------------------------
(* Alternative histories. *)

\* Nothing is lost when all rows are picked.
LEMMA PickedAll ==
  ASSUME NEW T, NEW rows \in Seq(T)
  PROVE  Picked(rows, 1..Len(rows)) = rows
<1>1. PICK n : n = Len(rows)
  OBVIOUS
<1>2. n \in Nat /\ rows = [k \in 1..n |-> rows[k]]
  <2>1. rows \in [1..Len(rows) -> T]
    OBVIOUS
  <2>2. QED
    BY <1>1, <2>1
<1>3. Cardinality(1..n) = n
  <2>1. PICK c : c = Cardinality(1..n)
    OBVIOUS
  <2>2. n \in Int /\ 1 \in Int
    BY <1>2
  <2>3. c = IF 1 > n THEN 0 ELSE n - 1 + 1
    BY <2>1, <2>2, FS_Interval
  <2>4. c = n
    BY <1>2, <2>3
  <2>5. QED
    BY <2>1, <2>4
<1>4. \A k \in 1..n : Nth(1..n, k) = k
  BY <1>2, NthAll
<1>5. Picked(rows, 1..n) = [k \in 1..n |-> rows[Nth(1..n, k)]]
  BY <1>3 DEF Picked
<1>6. [k \in 1..n |-> rows[Nth(1..n, k)]] = [k \in 1..n |-> rows[k]]
  BY <1>4
<1>7. QED
  BY <1>1, <1>2, <1>5, <1>6

\* What is picked is a list.
LEMMA PickedList ==
  ASSUME NEW rows, NEW n \in Nat, NEW S, S \subseteq 1..n
  PROVE  \E T : Picked(rows, S) \in Seq(T)
<1>1. PICK c, p : c = Cardinality(S) /\ p = Picked(rows, S)
  OBVIOUS
<1>2. c \in Nat
  <2>1. IsFiniteSet(1..n)
    BY FS_Interval
  <2>2. IsFiniteSet(S)
    BY <2>1, FS_Subset
  <2>3. QED
    BY <1>1, <2>2, FS_CardinalityType
<1>3. p = [k \in 1..c |-> rows[Nth(S, k)]]
  BY <1>1 DEF Picked
<1>4. PICK T : T = {p[k] : k \in 1..c}
  OBVIOUS
<1>5. p \in [1..c -> T]
  BY <1>3, <1>4
<1>6. p \in Seq(T)
  BY <1>2, <1>5
<1>7. QED
  BY <1>1, <1>6

--------------------------------------------------------------------------------

Outcomes(R, C, D) ==
  [final_state : {"None", "SUBMITTED", "ANALYSIS_COMPLETE", "PENDING_DECISION",
                  "FINAL_APPROVED", "FINAL_DECLINED"},
   risk_tier : R, confidence_score : C, decision : D]

LEMMA OutcomeTyped ==
  ASSUME NEW R, NEW C, NEW D, NEW x \in Outcomes(R, C, D), NEW e,
         e.score \in R, e.confidence \in C, e.outcome \in D
  PROVE  OutcomeAfter(x, e) \in Outcomes(R, C, D)
<1>1. CASE e.type = "ApplicationSubmitted"
  BY <1>1 DEF OutcomeAfter, Outcomes
<1>2. CASE e.type = "CreditAnalysisCompleted"
  BY <1>2 DEF OutcomeAfter, Outcomes
<1>3. CASE e.type = "DecisionGenerated"
  BY <1>3 DEF OutcomeAfter, Outcomes
<1>4. CASE e.type = "HumanReviewCompleted"
  <2>1. PICK s : s = IF e.outcome = "APPROVE" THEN "FINAL_APPROVED" ELSE "FINAL_DECLINED"
    OBVIOUS
  <2>2. OutcomeAfter(x, e) = [x EXCEPT !.final_state = s]
    BY <1>4, <2>1 DEF OutcomeAfter
  <2>3. s \in {"FINAL_APPROVED", "FINAL_DECLINED"}
    BY <2>1
  <2>4. QED
    BY <2>2, <2>3 DEF Outcomes
<1>5. CASE e.type = "ApplicationApproved"
  BY <1>5 DEF OutcomeAfter, Outcomes
<1>6. CASE e.type = "ApplicationDeclined"
  BY <1>6 DEF OutcomeAfter, Outcomes
<1>7. CASE e.type \notin {"ApplicationSubmitted", "CreditAnalysisCompleted",
                          "DecisionGenerated", "HumanReviewCompleted",
                          "ApplicationApproved", "ApplicationDeclined"}
  BY <1>7 DEF OutcomeAfter
<1>8. QED
  BY <1>1, <1>2, <1>3, <1>4, <1>5, <1>6, <1>7

\* Two outcomes in the same state with the same decision.
SameCourse(x, y) == x.final_state = y.final_state /\ x.decision = y.decision

\* They stay so, also when one credit analysis is put in the place of another.
LEMMA CourseKept ==
  ASSUME NEW R, NEW C, NEW D, NEW x \in Outcomes(R, C, D),
         NEW P, NEW Q, NEW S, NEW y \in Outcomes(P, Q, S), SameCourse(x, y),
         NEW e, NEW d, \/ d = e
                       \/ /\ e.type = "CreditAnalysisCompleted"
                          /\ d.type = "CreditAnalysisCompleted"
  PROVE  SameCourse(OutcomeAfter(x, e), OutcomeAfter(y, d))
<1> USE DEF SameCourse
<1>1. CASE e.type = "ApplicationSubmitted"
  BY <1>1 DEF OutcomeAfter, Outcomes
<1>2. CASE e.type = "CreditAnalysisCompleted"
  <2>1. d.type = "CreditAnalysisCompleted"
    BY <1>2
  <2>2. /\ OutcomeAfter(x, e).final_state = "ANALYSIS_COMPLETE"
        /\ OutcomeAfter(x, e).decision = x.decision
    BY <1>2 DEF OutcomeAfter, Outcomes
  <2>3. /\ OutcomeAfter(y, d).final_state = "ANALYSIS_COMPLETE"
        /\ OutcomeAfter(y, d).decision = y.decision
    BY <2>1 DEF OutcomeAfter, Outcomes
  <2>4. QED
    BY <2>2, <2>3
<1>3. CASE e.type = "DecisionGenerated"
  BY <1>3 DEF OutcomeAfter, Outcomes
<1>4. CASE e.type = "HumanReviewCompleted"
  <2>1. PICK s : s = IF e.outcome = "APPROVE" THEN "FINAL_APPROVED" ELSE "FINAL_DECLINED"
    OBVIOUS
  <2>2. d = e
    BY <1>4
  <2>3. /\ OutcomeAfter(x, e) = [x EXCEPT !.final_state = s]
        /\ OutcomeAfter(y, d) = [y EXCEPT !.final_state = s]
    BY <1>4, <2>1, <2>2 DEF OutcomeAfter
  <2>4. QED
    BY <2>3 DEF Outcomes
<1>5. CASE e.type = "ApplicationApproved"
  BY <1>5 DEF OutcomeAfter, Outcomes
<1>6. CASE e.type = "ApplicationDeclined"
  BY <1>6 DEF OutcomeAfter, Outcomes
<1>7. CASE e.type \notin {"ApplicationSubmitted", "CreditAnalysisCompleted",
                          "DecisionGenerated", "HumanReviewCompleted",
                          "ApplicationApproved", "ApplicationDeclined"}
  BY <1>7 DEF OutcomeAfter
<1>8. QED
  BY <1>1, <1>2, <1>3, <1>4, <1>5, <1>6, <1>7

\* The outcomes before, between and behind the entries of a list.
Course(f, entries, R, C, D) ==
  /\ f \in [0..Len(entries) -> Outcomes(R, C, D)]
  /\ f[0] = NoOutcome
  /\ \A i \in 1..Len(entries) : f[i] = OutcomeAfter(f[i - 1], entries[i][2])

LEMMA EvaluatedSolved ==
  ASSUME NEW entries, Len(entries) \in Nat
  PROVE  \E f, R, C, D : /\ Course(f, entries, R, C, D)
                         /\ Evaluated(entries) = f[Len(entries)]
<1>1. PICK n : n = Len(entries)
  OBVIOUS
<1>2. n \in Nat
  BY <1>1
<1>3. PICK R, C, D : /\ R = {0} \cup {entries[i][2].score : i \in 1..n}
                     /\ C = {Null} \cup {entries[i][2].confidence : i \in 1..n}
                     /\ D = {"None"} \cup {entries[i][2].outcome : i \in 1..n}
  OBVIOUS
<1>4. PICK V : V = Outcomes(R, C, D)
  OBVIOUS
<1>5. NoOutcome \in V
  BY <1>3, <1>4 DEF NoOutcome, Outcomes
<1>6. \A i \in 1..n, x \in V : OutcomeAfter(x, entries[i][2]) \in V
  <2>1. TAKE i \in 1..n, x \in V
  <2>2. PICK e : e = entries[i][2]
    OBVIOUS
  <2>3. e.score \in R /\ e.confidence \in C /\ e.outcome \in D
    BY <1>3, <2>2
  <2>4. OutcomeAfter(x, e) \in V
    BY <1>4, <2>3, OutcomeTyped
  <2>5. QED
    BY <2>2, <2>4
<1> DEFINE step == [i \in 1..n |-> [x \in V |-> OutcomeAfter(x, entries[i][2])]]
<1>7. step \in Steps(V, n)
  BY <1>6 DEF Steps
<1>8. \A i \in 1..n, x \in V : step[i][x] = OutcomeAfter(x, entries[i][2])
  OBVIOUS
<1>9. PICK f : Solves(f, V, n, NoOutcome, step)
  <2> HIDE DEF step
  <2>1. QED
    BY <1>2, <1>5, <1>7, StepsDefine
<1>10. /\ f \in [0..n -> V] /\ f[0] = NoOutcome
       /\ \A i \in 1..n : f[i] = OutcomeAfter(f[i - 1], entries[i][2])
  <2> HIDE DEF step
  <2>1. f \in [0..n -> V] /\ f[0] = NoOutcome /\ \A i \in 1..n : f[i] = step[i][f[i - 1]]
    BY <1>9 DEF Solves
  <2>2. \A i \in 1..n : i - 1 \in 0..n
    BY <1>2
  <2>3. QED
    BY <1>8, <2>1, <2>2
<1> DEFINE Eq(outcome) ==
             outcome = [i \in 0..n |->
                          IF i = 0 THEN NoOutcome
                                   ELSE OutcomeAfter(outcome[i - 1], entries[i][2])]
<1>11. Eq(f)
  <2>1. \A i \in 0..n : i = 0 \/ i \in 1..n
    OBVIOUS
  <2>2. \A i \in 0..n : f[i] = IF i = 0 THEN NoOutcome
                                        ELSE OutcomeAfter(f[i - 1], entries[i][2])
    BY <1>10, <2>1
  <2>3. QED
    BY <1>10, <2>2
<1>12. PICK g : g = CHOOSE outcome : Eq(outcome)
  OBVIOUS
<1>13. Eq(g)
  <2> HIDE DEF Eq
  <2>1. QED
    BY <1>11, <1>12
<1>14. Evaluated(entries) = g[n]
  BY <1>1, <1>12 DEF Evaluated
<1>15. g[0] = NoOutcome /\ \A i \in 1..n : g[i] = OutcomeAfter(g[i - 1], entries[i][2])
  <2>1. \A i \in 1..n : i \in 0..n /\ i # 0
    BY <1>2
  <2>2. 0 \in 0..n
    BY <1>2
  <2>3. QED
    BY <1>13, <2>1, <2>2
<1>16. Alike(f, g, n)
  BY <1>10, <1>15 DEF Alike
<1>17. \A i \in 0..n : f[i] = g[i]
  BY <1>2, <1>16, StepsAgree
<1>18. n \in 0..n
  BY <1>2
<1>19. Course(f, entries, R, C, D)
  BY <1>1, <1>4, <1>10 DEF Course
<1>20. QED
  BY <1>1, <1>14, <1>17, <1>18, <1>19

\* Another credit analysis at one place does not change the course.
LEMMA AnalysisReplaced ==
  ASSUME NEW real, NEW other, NEW n \in Nat, Len(real) = n, Len(other) = n,
         NEW m \in 1..n, real[m][2].type = "CreditAnalysisCompleted",
         other[m][2].type = "CreditAnalysisCompleted",
         \A i \in 1..n : i # m => other[i] = real[i]
  PROVE  Divergence(Evaluated(real), Evaluated(other)) \subseteq {"risk_tier", "confidence_score"}
<1>1. PICK f, R, C, D : Course(f, real, R, C, D) /\ Evaluated(real) = f[n]
  BY EvaluatedSolved
<1>2. PICK g, P, Q, S : Course(g, other, P, Q, S) /\ Evaluated(other) = g[n]
  BY EvaluatedSolved
<1>3. PICK F, G : /\ F = [i \in 0..n |-> <<f[i].final_state, f[i].decision>>]
                  /\ G = [i \in 0..n |-> <<g[i].final_state, g[i].decision>>]
  OBVIOUS
<1>4. \A i \in 0..n : F[i] = G[i] <=> SameCourse(f[i], g[i])
  BY <1>3 DEF SameCourse
<1>5. F[0] = G[0]
  <2>1. f[0] = NoOutcome /\ g[0] = NoOutcome
    BY <1>1, <1>2 DEF Course
  <2>2. QED
    BY <1>3, <2>1
<1>6. ASSUME NEW i \in 1..n, F[i - 1] = G[i - 1] PROVE F[i] = G[i]
  <2>1. i - 1 \in 0..n /\ i \in 0..n
    OBVIOUS
  <2>2. SameCourse(f[i - 1], g[i - 1])
    BY <1>4, <1>6, <2>1
  <2>3. /\ f[i - 1] \in Outcomes(R, C, D) /\ g[i - 1] \in Outcomes(P, Q, S)
        /\ f[i] = OutcomeAfter(f[i - 1], real[i][2])
        /\ g[i] = OutcomeAfter(g[i - 1], other[i][2])
    BY <1>1, <1>2, <2>1 DEF Course
  <2>4. PICK x, y, e, d : x = f[i - 1] /\ y = g[i - 1] /\ e = real[i][2] /\ d = other[i][2]
    OBVIOUS
  <2>5. d = e \/ (e.type = "CreditAnalysisCompleted" /\ d.type = "CreditAnalysisCompleted")
    BY <2>4
  <2>6. SameCourse(OutcomeAfter(x, e), OutcomeAfter(y, d))
    BY <2>2, <2>3, <2>4, <2>5, CourseKept
  <2>7. QED
    BY <1>4, <2>1, <2>3, <2>4, <2>6
<1>7. \A i \in 0..n : F[i] = G[i]
  <2>1. Alike(F, G, n)
    BY <1>5, <1>6 DEF Alike
  <2>2. QED
    BY <2>1, StepsAgree
<1>8. n \in 0..n
  OBVIOUS
<1>9. PICK x, y : x = f[n] /\ y = g[n]
  OBVIOUS
<1>10. SameCourse(x, y) /\ x \in Outcomes(R, C, D)
  BY <1>1, <1>4, <1>7, <1>8, <1>9 DEF Course
<1>11. DOMAIN x = {"final_state", "risk_tier", "confidence_score", "decision"}
  BY <1>10 DEF Outcomes
<1>12. x["final_state"] = y["final_state"] /\ x["decision"] = y["decision"]
  BY <1>10 DEF SameCourse
<1>13. QED
  BY <1>1, <1>2, <1>9, <1>11, <1>12 DEF Divergence

LEMMA MinIs ==
  ASSUME NEW S, S \subseteq Nat, S # {}
  PROVE  Min(S) \in S /\ \A y \in S : Min(S) <= y
<1>1. PICK m \in S : \A k \in S : m <= k
  BY LeastNat
<1>2. PICK x : x = Min(S)
  OBVIOUS
<1>3. x \in S /\ \A y \in S : x =< y
  BY <1>1, <1>2 DEF Min
<1>4. QED
  BY <1>2, <1>3

\* The branch point, and what is before and behind it.
LEMMA DividedParts ==
  ASSUME NEW T, NEW entries \in Seq(T), NEW type, Indexes(entries, type) # {}
  PROVE  \E at \in 1..Len(entries) :
           /\ at = Min(Indexes(entries, type))
           /\ entries[at][2].type = type
           /\ Divided(entries, type) =
                [pre |-> SubSeq(entries, 1, at - 1), branch |-> entries[at],
                 post |-> SubSeq(entries, at + 1, Len(entries))]
           /\ SubSeq(entries, 1, at - 1) \in Seq(T)
           /\ Len(SubSeq(entries, 1, at - 1)) = at - 1
           /\ SubSeq(entries, at + 1, Len(entries)) \in Seq(T)
<1>1. PICK n : n = Len(entries)
  OBVIOUS
<1>2. n \in Nat /\ DOMAIN entries = 1..n /\ \A i \in 1..n : entries[i] \in T
  BY <1>1
<1>3. PICK at : at = Min(Indexes(entries, type))
  OBVIOUS
<1>4. at \in Indexes(entries, type)
  <2>1. Indexes(entries, type) \subseteq Nat
    BY <1>2 DEF Indexes
  <2>2. QED
    BY <1>3, <2>1, MinIs
<1>5. at \in 1..n /\ entries[at][2].type = type
  BY <1>2, <1>4 DEF Indexes
<1>6. at \in Int /\ at - 1 \in Int /\ at + 1 \in Int /\ n \in Int /\ 1 \in Int
  BY <1>2, <1>5
<1>7. (\A i \in 1..(at - 1) : entries[i] \in T) /\ \A i \in (at + 1)..n : entries[i] \in T
  BY <1>2, <1>5
<1>8. /\ SubSeq(entries, 1, at - 1) \in Seq(T)
      /\ Len(SubSeq(entries, 1, at - 1)) = IF 1 <= at - 1 THEN (at - 1) - 1 + 1 ELSE 0
  BY <1>6, <1>7, SubSeqProperties
<1>9. SubSeq(entries, at + 1, n) \in Seq(T)
  BY <1>6, <1>7, SubSeqProperties
<1>10. Len(SubSeq(entries, 1, at - 1)) = at - 1
  BY <1>5, <1>8
<1>11. Divided(entries, type) =
         [pre |-> SubSeq(entries, 1, at - 1), branch |-> entries[at],
          post |-> SubSeq(entries, at + 1, n)]
  BY <1>1, <1>3 DEF Divided
<1>12. QED
  BY <1>1, <1>3, <1>5, <1>8, <1>9, <1>10, <1>11

\* One entry between two lists.
Joins(all, pre, x, rest) ==
  /\ Len(all) = Len(pre) + 1 + Len(rest)
  /\ all[Len(pre) + 1] = x
  /\ \A i \in 1..Len(pre) : all[i] = pre[i]
  /\ \A i \in 1..Len(rest) : all[Len(pre) + 1 + i] = rest[i]

LEMMA Between ==
  ASSUME NEW T, NEW pre \in Seq(T), NEW U, NEW rest \in Seq(U), NEW x, NEW all,
         all = pre \o <<x>> \o rest
  PROVE  Joins(all, pre, x, rest)
<1>1. PICK V : V = T \cup U \cup {x}
  OBVIOUS
<1>2. pre \in Seq(V) /\ rest \in Seq(V) /\ <<x>> \in Seq(V)
  <2>1. T \subseteq V /\ U \subseteq V /\ x \in V
    BY <1>1
  <2>2. QED
    BY <2>1, SeqWider
<1>3. PICK c, d, left : c = Len(pre) /\ d = Len(rest) /\ left = pre \o <<x>>
  OBVIOUS
<1>4. c \in Nat /\ d \in Nat
  BY <1>3
<1>5. left \in Seq(V) /\ Len(left) = c + 1
      /\ left[c + 1] = x /\ \A i \in 1..c : left[i] = pre[i]
  <2>1. left = Append(pre, x)
    BY <1>2, <1>3
  <2>2. QED
    BY <1>2, <1>3, <1>4, <2>1
<1>6. /\ Len(left \o rest) = Len(left) + Len(rest)
      /\ \A i \in 1..Len(left) + Len(rest) :
           (left \o rest)[i] = IF i <= Len(left) THEN left[i] ELSE rest[i - Len(left)]
  BY <1>2, <1>5, ConcatProperties
<1>7. all = left \o rest
  BY <1>3
<1>8. /\ Len(all) = c + 1 + d
      /\ \A i \in 1..(c + 1 + d) :
           all[i] = IF i <= c + 1 THEN left[i] ELSE rest[i - (c + 1)]
  BY <1>3, <1>5, <1>6, <1>7
<1>9. /\ c + 1 \in 1..(c + 1 + d) /\ c + 1 <= c + 1
      /\ \A i \in 1..c : i \in 1..(c + 1 + d) /\ i <= c + 1
      /\ \A i \in 1..d : /\ c + 1 + i \in 1..(c + 1 + d)
                         /\ ~(c + 1 + i <= c + 1)
                         /\ c + 1 + i - (c + 1) = i
  BY <1>4
<1>10. all[c + 1] = x /\ \A i \in 1..c : all[i] = pre[i]
  BY <1>5, <1>8, <1>9
<1>11. \A i \in 1..d : all[c + 1 + i] = rest[i]
  <2>1. TAKE i \in 1..d
  <2>2. PICK j : j = c + 1 + i
    OBVIOUS
  <2>3. j \in 1..(c + 1 + d) /\ ~(j <= c + 1) /\ j - (c + 1) = i
    BY <1>9, <2>2
  <2>4. all[j] = rest[i]
    BY <1>8, <2>3
  <2>5. QED
    BY <2>2, <2>4
<1>12. QED
  BY <1>3, <1>8, <1>10, <1>11 DEF Joins

\* In both replays the analysis is at the same place, in the same company.
LEMMA BranchReplaced ==
  ASSUME NEW T, NEW entries \in Seq(T), NEW other,
         other.type = "CreditAnalysisCompleted",
         Indexes(entries, "CreditAnalysisCompleted") # {}
  PROVE  Divergence(Evaluated(RealSequence(entries, "CreditAnalysisCompleted")),
                    Evaluated(CounterfactualSequence(entries, "CreditAnalysisCompleted",
                                                     <<other>>)))
           \subseteq {"risk_tier", "confidence_score"}
<1>1. PICK type : type = "CreditAnalysisCompleted"
  OBVIOUS
<1>2. PICK at \in 1..Len(entries) :
        /\ entries[at][2].type = type
        /\ Divided(entries, type) =
             [pre |-> SubSeq(entries, 1, at - 1), branch |-> entries[at],
              post |-> SubSeq(entries, at + 1, Len(entries))]
        /\ SubSeq(entries, 1, at - 1) \in Seq(T)
        /\ Len(SubSeq(entries, 1, at - 1)) = at - 1
        /\ SubSeq(entries, at + 1, Len(entries)) \in Seq(T)
  BY <1>1, DividedParts
<1>3. PICK pre, post, rest, x :
        /\ pre = SubSeq(entries, 1, at - 1) /\ post = SubSeq(entries, at + 1, Len(entries))
        /\ rest = Independent(post, entries[at]) /\ x = <<0, other>>
  OBVIOUS
<1>4. PICK real, counter :
        real = pre \o <<entries[at]>> \o rest /\ counter = pre \o <<x>> \o rest
  OBVIOUS
<1>d. PICK d : d = Divided(entries, type)
  OBVIOUS
<1>e. d.pre = pre /\ d.branch = entries[at] /\ d.post = post
  BY <1>2, <1>3, <1>d
<1>5. RealSequence(entries, type) = real
  <2>1. RealSequence(entries, type) = d.pre \o <<d.branch>> \o Independent(d.post, d.branch)
    BY <1>1, <1>d, Zenon DEF RealSequence
  <2>2. QED
    BY <1>3, <1>4, <1>e, <2>1, Zenon
<1>6. CounterfactualSequence(entries, type, <<other>>) = counter
  <2>1. PICK given : given = <<other>>
    OBVIOUS
  <2>2. PICK stored : stored = [i \in DOMAIN given |-> <<0, given[i]>>]
    OBVIOUS
  <2>3. stored = <<x>>
    BY <1>3, <2>1, <2>2
  <2>4. CounterfactualSequence(entries, type, given) =
          d.pre \o stored \o Independent(d.post, d.branch)
    BY <1>1, <1>d, <2>2, Zenon DEF CounterfactualSequence
  <2>5. QED
    BY <1>3, <1>4, <1>e, <2>1, <2>3, <2>4, Zenon
<1>7. PICK U : rest \in Seq(U)
  <2>1. PICK S : S = {i \in DOMAIN post : post[i][2].cause # entries[at][1]}
    OBVIOUS
  <2>2. Len(post) \in Nat /\ S \subseteq 1..Len(post)
    BY <1>2, <1>3, <2>1
  <2>3. rest = Picked(post, S)
    BY <1>3, <2>1 DEF Independent
  <2>4. QED
    BY <2>2, <2>3, PickedList
<1>8. at \in Nat /\ Len(pre) = at - 1 /\ pre \in Seq(T) /\ Len(pre) + 1 = at /\ Len(rest) \in Nat
  BY <1>2, <1>3, <1>7
<1>9. /\ Len(real) = at + Len(rest) /\ real[at] = entries[at]
      /\ \A i \in 1..(at - 1) : real[i] = pre[i]
      /\ \A i \in 1..Len(rest) : real[at + i] = rest[i]
  <2>1. PICK y : y = entries[at]
    OBVIOUS
  <2>2. real = pre \o <<y>> \o rest
    BY <1>4, <2>1
  <2>3. Joins(real, pre, y, rest)
    BY <1>7, <1>8, <2>2, Between
  <2>4. QED
    BY <1>8, <2>1, <2>3 DEF Joins
<1>10. /\ Len(counter) = at + Len(rest) /\ counter[at] = x
       /\ \A i \in 1..(at - 1) : counter[i] = pre[i]
       /\ \A i \in 1..Len(rest) : counter[at + i] = rest[i]
  <2>1. counter = pre \o <<x>> \o rest
    BY <1>4
  <2>2. Joins(counter, pre, x, rest)
    BY <1>7, <1>8, <2>1, Between
  <2>3. QED
    BY <1>8, <2>2 DEF Joins
<1>11. PICK n : n = at + Len(rest)
  OBVIOUS
<1>12. n \in Nat /\ at \in 1..n
  <2>1. at \in Nat \ {0}
    BY <1>2
  <2>2. QED
    BY <1>8, <1>11, <2>1
<1>13. \A i \in 1..n : i # at => counter[i] = real[i]
  <2>1. SUFFICES ASSUME NEW i \in 1..n, i # at PROVE counter[i] = real[i]
    OBVIOUS
  <2>2. CASE i < at
    <3>1. i \in 1..(at - 1)
      BY <1>8, <2>2
    <3>2. QED
      BY <1>9, <1>10, <3>1
  <2>3. CASE i > at
    <3>1. PICK k : k = i - at
      OBVIOUS
    <3>2. k \in 1..Len(rest) /\ at + k = i
      BY <1>8, <1>11, <2>3, <3>1
    <3>3. QED
      BY <1>9, <1>10, <3>2
  <2>4. QED
    BY <1>8, <2>1, <2>2, <2>3
<1>14. /\ real[at][2].type = "CreditAnalysisCompleted"
       /\ counter[at][2].type = "CreditAnalysisCompleted"
  BY <1>1, <1>2, <1>3, <1>9, <1>10
<1>15. Len(real) = n /\ Len(counter) = n
  BY <1>9, <1>10, <1>11
<1>16. Divergence(Evaluated(real), Evaluated(counter)) \subseteq {"risk_tier", "confidence_score"}
  BY <1>12, <1>13, <1>14, <1>15, AnalysisReplaced
<1>17. QED
  BY <1>1, <1>5, <1>6, <1>16

\* When nothing names the branch as its cause, the real replay is the history.
LEMMA NothingDependent ==
  ASSUME NEW T, NEW entries \in Seq(T), NEW type, Indexes(entries, type) # {},
         \A i \in DOMAIN entries :
            entries[i][2].cause # entries[Min(Indexes(entries, type))][1]
  PROVE  RealSequence(entries, type) = entries
<1>1. PICK at \in 1..Len(entries) :
        /\ at = Min(Indexes(entries, type))
        /\ Divided(entries, type) =
             [pre |-> SubSeq(entries, 1, at - 1), branch |-> entries[at],
              post |-> SubSeq(entries, at + 1, Len(entries))]
        /\ SubSeq(entries, 1, at - 1) \in Seq(T)
        /\ Len(SubSeq(entries, 1, at - 1)) = at - 1
        /\ SubSeq(entries, at + 1, Len(entries)) \in Seq(T)
  BY DividedParts
<1>2. PICK n, pre, post :
        /\ n = Len(entries)
        /\ pre = SubSeq(entries, 1, at - 1) /\ post = SubSeq(entries, at + 1, Len(entries))
  OBVIOUS
<1>3. /\ n \in Nat /\ at \in 1..n /\ DOMAIN entries = 1..n
      /\ post \in Seq(T) /\ pre \in Seq(T) /\ Len(pre) = at - 1
  BY <1>1, <1>2
<1>4. PICK c : c = Len(post)
  OBVIOUS
<1>5. at + 1 \in Int /\ n \in Int /\ at \in Nat /\ \A i \in (at + 1)..n : entries[i] \in T
  BY <1>2, <1>3
<1>6. /\ c = IF at + 1 <= n THEN n - (at + 1) + 1 ELSE 0
      /\ \A i \in 1..(n - (at + 1) + 1) : post[i] = entries[at + 1 + i - 1]
  BY <1>2, <1>4, <1>5, SubSeqProperties
<1>7. /\ c \in Nat /\ c = n - at /\ DOMAIN post = 1..c
      /\ \A i \in 1..c : i \in 1..(n - (at + 1) + 1) /\ at + 1 + i - 1 = at + i /\ at + i \in 1..n
  <2>1. c \in Nat /\ DOMAIN post = 1..c
    BY <1>3, <1>4
  <2>2. c = n - at
    BY <1>3, <1>5, <1>6
  <2>3. \A i \in 1..c : /\ i \in 1..(n - (at + 1) + 1) /\ at + 1 + i - 1 = at + i
                        /\ at + i \in 1..n
    BY <1>3, <1>5, <2>1, <2>2
  <2>4. QED
    BY <2>1, <2>2, <2>3
<1>8. \A i \in 1..c : post[i] = entries[at + i] /\ at + i \in DOMAIN entries
  BY <1>3, <1>6, <1>7
<1>9. \A i \in 1..c : post[i][2].cause # entries[at][1]
  BY <1>1, <1>8
<1>10. Independent(post, entries[at]) = post
  <2>1. {i \in DOMAIN post : post[i][2].cause # entries[at][1]} = 1..Len(post)
    BY <1>4, <1>7, <1>9
  <2>2. Picked(post, 1..Len(post)) = post
    BY <1>3, PickedAll
  <2>3. QED
    BY <2>1, <2>2 DEF Independent
<1>11. RealSequence(entries, type) = pre \o <<entries[at]>> \o post
  <2>1. PICK d : d = Divided(entries, type)
    OBVIOUS
  <2>2. d.pre = pre /\ d.branch = entries[at] /\ d.post = post
    <3>1. d = [pre |-> pre, branch |-> entries[at], post |-> post]
      BY <1>1, <1>2, <2>1
    <3>2. QED
      BY <3>1
  <2>3. RealSequence(entries, type) = d.pre \o <<d.branch>> \o Independent(d.post, d.branch)
    BY <2>1, Zenon DEF RealSequence
  <2>4. QED
    BY <1>10, <2>2, <2>3, Zenon
<1>12. PICK all : all = pre \o <<entries[at]>> \o post
  OBVIOUS
<1>13. /\ Len(all) = Len(pre) + 1 + Len(post)
       /\ all[Len(pre) + 1] = entries[at]
       /\ \A i \in 1..Len(pre) : all[i] = pre[i]
       /\ \A i \in 1..Len(post) : all[Len(pre) + 1 + i] = post[i]
  <2>1. PICK y : y = entries[at]
    OBVIOUS
  <2>2. all = pre \o <<y>> \o post
    BY <1>12, <2>1
  <2>3. Joins(all, pre, y, post)
    BY <1>3, <2>2, Between
  <2>4. QED
    BY <2>1, <2>3 DEF Joins
<1>14. Len(all) = n /\ all[at] = entries[at]
  <2>1. Len(pre) + 1 = at /\ Len(pre) + 1 + Len(post) = n
    BY <1>3, <1>4, <1>5, <1>7
  <2>2. QED
    BY <1>13, <2>1
<1>15. \A i \in 1..(at - 1) : pre[i] = entries[i]
  <2>1. at - 1 \in Int /\ 1 \in Int /\ \A i \in 1..(at - 1) : entries[i] \in T
    BY <1>3, <1>2
  <2>2. \A i \in 1..(at - 1) - 1 + 1 : pre[i] = entries[1 + i - 1]
    BY <1>2, <2>1, SubSeqProperties
  <2>3. \A i \in 1..(at - 1) : i \in 1..(at - 1) - 1 + 1 /\ 1 + i - 1 = i
    BY <1>3
  <2>4. QED
    BY <2>2, <2>3
<1>16. \A i \in 1..n : all[i] = entries[i]
  <2>1. TAKE i \in 1..n
  <2>2. CASE i < at
    <3>1. i \in 1..(at - 1) /\ i \in 1..Len(pre)
      BY <1>3, <1>5, <2>2
    <3>2. QED
      BY <1>13, <1>15, <3>1
  <2>3. CASE i = at
    BY <1>14, <2>3
  <2>4. CASE i > at
    <3>1. PICK d : d = i - at
      OBVIOUS
    <3>2. d \in 1..c /\ at + d = i /\ Len(pre) + 1 + d = i
      BY <1>3, <1>5, <1>7, <2>4, <3>1
    <3>3. QED
      BY <1>4, <1>8, <1>13, <3>2
  <2>5. QED
    BY <1>3, <1>5, <2>2, <2>3, <2>4
<1>17. all \in Seq(T)
  <2>1. PICK left : left = pre \o <<entries[at]>>
    OBVIOUS
  <2>2. <<entries[at]>> \in Seq(T)
    BY <1>1
  <2>3. left \in Seq(T)
    BY <1>3, <2>1, <2>2, ConcatProperties
  <2>4. left \o post \in Seq(T)
    BY <1>3, <2>3, ConcatProperties
  <2>5. QED
    BY <1>12, <2>1, <2>4
<1>18. all = entries
  <2>1. /\ all = [i \in 1..n |-> all[i]]
        /\ entries = [i \in 1..n |-> entries[i]]
    <3>1. all \in [1..n -> T] /\ entries \in [1..n -> T]
      BY <1>2, <1>14, <1>17
    <3>2. QED
      BY <3>1
  <2>2. QED
    BY <1>16, <2>1
<1>19. QED
  BY <1>11, <1>12, <1>18

\* An analysis put into the loan's entries leaves a list.
LEMMA ReplayedList ==
  ASSUME NEW T, NEW loan \in Seq(T), NEW credit, NEW type
  PROVE  \E U : Replayed(loan, credit, type) \in Seq(U)
<1>1. CASE type # "CreditAnalysisCompleted" \/ Indexes(loan, type) # {}
           \/ Indexes(credit, type) = {}
  <2>1. Replayed(loan, credit, type) = loan
    BY <1>1 DEF Replayed
  <2>2. QED
    BY <2>1
<1>2. CASE ~(type # "CreditAnalysisCompleted" \/ Indexes(loan, type) # {}
             \/ Indexes(credit, type) = {})
  <2>1. PICK n, requests, x :
          /\ n = Len(loan) /\ requests = Indexes(loan, "CreditAnalysisRequested")
          /\ x = credit[Max(Indexes(credit, type))]
    OBVIOUS
  <2>2. PICK at : at = IF requests = {} THEN n ELSE Max(requests)
    OBVIOUS
  <2>3. Replayed(loan, credit, type) = InsertAt(loan, at + 1, x)
    BY <1>2, <2>1, <2>2 DEF Replayed
  <2>4. n \in Nat /\ requests \subseteq 1..n /\ \A i \in 1..n : loan[i] \in T
    BY <2>1 DEF Indexes
  <2>5. at \in 0..n
    <3>1. CASE requests = {}
      BY <2>2, <2>4, <3>1
    <3>2. CASE requests # {}
      <4>1. PICK m \in requests : \A y \in requests : y <= m
        BY <2>4, <3>2, Greatest
      <4>2. requests \subseteq Int
        BY <2>4
      <4>3. Max(requests) = m
        BY <4>1, <4>2, MaxIs
      <4>4. m \in 0..n
        BY <2>4, <4>1
      <4>5. QED
        BY <2>2, <3>2, <4>3, <4>4
    <3>3. QED
      BY <3>1, <3>2
  <2>6. PICK U : U = T \cup {x}
    OBVIOUS
  <2>7. /\ (at + 1) - 1 \in Int /\ at + 1 \in Int /\ n \in Int /\ 1 \in Int
        /\ \A i \in 1..((at + 1) - 1) : loan[i] \in U
        /\ \A i \in (at + 1)..n : loan[i] \in U
    BY <2>4, <2>5, <2>6
  <2>8. SubSeq(loan, 1, (at + 1) - 1) \in Seq(U)
    BY <2>7, SubSeqProperties
  <2>9. SubSeq(loan, at + 1, n) \in Seq(U)
    BY <2>7, SubSeqProperties
  <2>10. <<x>> \in Seq(U)
    BY <2>6
  <2>11. PICK a, b : a = SubSeq(loan, 1, (at + 1) - 1) /\ b = SubSeq(loan, at + 1, Len(loan))
    OBVIOUS
  <2>12. a \o <<x>> \in Seq(U)
    BY <2>8, <2>10, <2>11, ConcatProperties
  <2>13. (a \o <<x>>) \o b \in Seq(U)
    BY <2>1, <2>9, <2>11, <2>12, ConcatProperties
  <2>14. InsertAt(loan, at + 1, x) = a \o <<x>> \o b
    <3>1. InsertAt(loan, at + 1, x)
            = SubSeq(loan, 1, (at + 1) - 1) \o <<x>> \o SubSeq(loan, at + 1, Len(loan))
      BY DEF InsertAt
    <3>2. QED
      BY <2>11, <3>1
  <2>15. QED
    BY <2>3, <2>13, <2>14
<1>3. QED
  BY <1>1, <1>2

\* What another analysis changes in the replay of a loan's entries.
KeepsTheRest(a, entries) ==
  LET type == "CreditAnalysisCompleted"
      real == Evaluated(RealSequence(entries, type))
  IN  Indexes(entries, type) # {} =>
        /\ \A s \in Score :
             LET other == [Plain(type, a) EXCEPT !.score = s, !.confidence = s]
             IN  Divergence(real, Evaluated(CounterfactualSequence(entries, type, <<other>>)))
                   \subseteq {"risk_tier", "confidence_score"}
        /\ (\A i \in DOMAIN entries :
               entries[i][2].cause # entries[Min(Indexes(entries, type))][1])
             => real = Evaluated(entries)

LEMMA EntriesKeep ==
  ASSUME NEW a, NEW T, NEW entries \in Seq(T)
  PROVE  KeepsTheRest(a, entries)
<1>1. PICK type : type = "CreditAnalysisCompleted"
  OBVIOUS
<1>2. SUFFICES ASSUME Indexes(entries, type) # {}
               PROVE  KeepsTheRest(a, entries)
  BY <1>1, Zenon DEF KeepsTheRest
<1>4. \A s \in Score :
        Divergence(Evaluated(RealSequence(entries, type)),
                   Evaluated(CounterfactualSequence(entries, type,
                      <<[Plain(type, a) EXCEPT !.score = s, !.confidence = s]>>)))
          \subseteq {"risk_tier", "confidence_score"}
  <2>1. TAKE s \in Score
  <2>2. PICK other : other = [Plain(type, a) EXCEPT !.score = s, !.confidence = s]
    OBVIOUS
  <2>3. other.type = "CreditAnalysisCompleted"
    BY <1>1, <2>2 DEF Plain
  <2>4. QED
    BY <1>1, <1>2, <2>2, <2>3, BranchReplaced
<1>5. ASSUME \A i \in DOMAIN entries :
                entries[i][2].cause # entries[Min(Indexes(entries, type))][1]
      PROVE  Evaluated(RealSequence(entries, type)) = Evaluated(entries)
  <2>1. RealSequence(entries, type) = entries
    BY <1>2, <1>5, NothingDependent
  <2>2. QED
    BY <2>1
<1>6. QED
  BY <1>1, <1>4, <1>5, Zenon DEF KeepsTheRest

LEMMA WhatIfKeeps ==
  ASSUME log \in Seq(Event)
  PROVE  WhatIfKeepsTheRest
<1>1. \A a \in App : \E T : Entries(log, On("loan", a)) \in Seq(T)
  <2>1. TAKE a \in App
  <2>2. PICK S : S = On("loan", a)
    OBVIOUS
  <2>3. Len(log) \in Nat /\ S \subseteq 1..Len(log)
    BY <2>2 DEF On
  <2>4. \E T : Picked([i \in DOMAIN log |-> <<i, Upcast(log[i])>>], S) \in Seq(T)
    BY <2>3, PickedList
  <2>5. QED
    BY <2>2, <2>4 DEF Entries
<1>2. ASSUME NEW a \in App
      PROVE  KeepsTheRest(a, Replayed(Entries(log, On("loan", a)),
                                      Entries(log, On("credit", a)), "CreditAnalysisCompleted"))
  <2>1. PICK T : Entries(log, On("loan", a)) \in Seq(T)
    BY <1>1
  <2>2. PICK entries : entries = Replayed(Entries(log, On("loan", a)),
                                          Entries(log, On("credit", a)),
                                          "CreditAnalysisCompleted")
    OBVIOUS
  <2>3. PICK U : entries \in Seq(U)
    BY <2>1, <2>2, ReplayedList
  <2>4. KeepsTheRest(a, entries)
    BY <2>3, EntriesKeep
  <2>5. QED
    BY <2>2, <2>4
<1>3. QED
  BY <1>2, Zenon DEF WhatIfKeepsTheRest, KeepsTheRest

\* A counterfactual credit analysis changes nothing of the outcome but its own fields,
\* and the replay it is compared with is the real history unless an event names the
\* analysis as its cause (projector.py), for every history.
THEOREM WhatIfKeepsDecision == ReadSpec => []WhatIfKeepsTheRest
<1>1. ReadTypeOK => WhatIfKeepsTheRest
  BY WhatIfKeeps DEF ReadTypeOK
<1>2. QED
  BY <1>1, ReadTyped, PTL

--------------------------------------------------------------------------------
(* The audit chain, and the packages built on it. *)

\* IsPrefix, element by element.
Begins(s, t) ==
  /\ Len(s) <= Len(t)
  /\ \A i \in 1..Len(s) : s[i] = t[i]

\* A record covers what the stream holds, and is its prefix while nothing changed.
RecordsCover ==
  \A i \in DOMAIN audits :
    /\ audits[i].events_verified_count = Len(audits[i].integrity_hash)
    /\ Len(audits[i].integrity_hash) <= Len(events)
    /\ changes = {} => Begins(audits[i].integrity_hash, events)

\* So does what a check has read, and no record that was there covers more.
LoadedCovers ==
  \A c \in Check : pc[c] # "load" =>
    /\ Len(loaded[c]) <= Len(events)
    /\ changes = {} => Begins(loaded[c], events)
    /\ began[c] <= Len(audits)
    /\ began[c] = Len(audits) /\ audits # <<>> =>
         Last(audits).events_verified_count <= Len(loaded[c])

\* The hash of a check covers what it read; it is chained to the last record
\* unless one was appended since the check began.
ResultCovers ==
  \A c \in Check : pc[c] \notin {"load", "audits"} =>
    /\ result[c].integrity_hash = loaded[c]
    /\ result[c].events_verified_count = Len(loaded[c])
    /\ began[c] = Len(audits) /\ audits # <<>> /\ changes = {} =>
         result[c].previous_hash = Last(audits).integrity_hash

AuditInv ==
  /\ TypeOK
  /\ RecordsCover
  /\ LoadedCovers
  /\ ResultCovers

\* The stream in a package is the beginning of the entity's stream, and of what its
\* check read later, unless a payload changed since the package was begun.
StreamCovered ==
  \A c \in Examined : package[c].status # "none" =>
    /\ altered[c] \subseteq changes
    /\ changes = altered[c] => Begins(package[c].event_stream, events)
    /\ changes = altered[c] /\ pc[c] # "load" => Begins(package[c].event_stream, loaded[c])

CheckFollowsStream ==
  \A c \in Examined :
    /\ package[c].status = "none" => pc[c] = "load"
    /\ package[c].status # "finished" => ~package[c].chain_valid
    /\ package[c].status = "finished" => pc[c] \in {"done", "conflict"}
    /\ package[c].status = "finished" /\ package[c].chain_valid =>
         /\ package[c].integrity_hash = loaded[c]
         /\ package[c].events_verified = Len(loaded[c])

PackageInv ==
  /\ PackageTypeOK
  /\ AuditInv
  /\ StreamCovered
  /\ CheckFollowsStream

--------------------------------------------------------------------------------
(* Hashes and prefixes. *)

LEMMA HashIsSeq == Hash = {s \in Seq(Payload) : Len(s) <= MaxEvents}
<1>1. ASSUME NEW s \in Hash PROVE s \in Seq(Payload) /\ Len(s) <= MaxEvents
  <2>1. PICK n \in 0..MaxEvents : s \in [1..n -> Payload]
    BY DEF Hash
  <2>2. n \in Nat /\ n <= MaxEvents
    BY AuditAssumption
  <2>3. s \in Seq(Payload) /\ Len(s) = n
    BY <2>1, <2>2, IsASeq, LenProperties
  <2>4. QED
    BY <2>2, <2>3
<1>2. ASSUME NEW s \in Seq(Payload), Len(s) <= MaxEvents PROVE s \in Hash
  <2>1. s \in [1..Len(s) -> Payload] /\ Len(s) \in 0..MaxEvents
    BY <1>2, AuditAssumption, LenProperties
  <2>2. QED
    BY <2>1 DEF Hash
<1>3. QED
  BY <1>1, <1>2

LEMMA BeginsMeansSubSeq ==
  ASSUME NEW s \in Seq(Payload), NEW t \in Seq(Payload), Begins(s, t)
  PROVE  s = SubSeq(t, 1, Len(s)) /\ IsPrefix(s, t)
<1>1. Len(s) \in Nat /\ Len(t) \in Nat /\ Len(s) <= Len(t)
  BY DEF Begins
<1>2. \A i \in 1..Len(s) : t[i] \in Payload
  BY <1>1, ElementOfSeq
<1>3. /\ SubSeq(t, 1, Len(s)) \in Seq(Payload)
      /\ Len(SubSeq(t, 1, Len(s))) = Len(s)
      /\ \A i \in 1..Len(s) : SubSeq(t, 1, Len(s))[i] = t[i]
  BY <1>1, <1>2, SubSeqProperties
<1>4. s = SubSeq(t, 1, Len(s))
  BY <1>3, SeqEqual DEF Begins
<1>5. SubSeq(s, 1, Len(s)) = s
  BY SubSeqFull
<1>6. QED
  BY <1>1, <1>4, <1>5 DEF IsPrefix

LEMMA SubSeqBegins ==
  ASSUME NEW t \in Seq(Payload), NEW n \in 0..Len(t)
  PROVE  /\ SubSeq(t, 1, n) \in Seq(Payload)
         /\ Len(SubSeq(t, 1, n)) = n
         /\ Begins(SubSeq(t, 1, n), t)
<1>1. n \in Int /\ n <= Len(t) /\ Len(t) \in Nat /\ n >= 0
  OBVIOUS
<1>2. \A i \in 1..n : t[i] \in Payload
  BY <1>1, ElementOfSeq
<1>3. /\ SubSeq(t, 1, n) \in Seq(Payload)
      /\ Len(SubSeq(t, 1, n)) = IF 1 <= n THEN n - 1 + 1 ELSE 0
      /\ \A i \in 1..(n - 1 + 1) : SubSeq(t, 1, n)[i] = t[1 + i - 1]
  BY <1>1, <1>2, SubSeqProperties
<1>4. Len(SubSeq(t, 1, n)) = n
  BY <1>1, <1>3
<1>5. \A i \in 1..n : SubSeq(t, 1, n)[i] = t[i]
  BY <1>1, <1>3
<1>6. QED
  BY <1>1, <1>3, <1>4, <1>5 DEF Begins

\* Two beginnings of one stream: the shorter is a beginning of the longer.
LEMMA BeginningsNest ==
  ASSUME NEW s \in Seq(Payload), NEW t \in Seq(Payload), NEW u \in Seq(Payload),
         Begins(s, u), Begins(t, u), Len(s) <= Len(t)
  PROVE  s = SubSeq(t, 1, Len(s))
<1>1. Begins(s, t)
  BY LenProperties DEF Begins
<1>2. QED
  BY <1>1, BeginsMeansSubSeq

\* Whatever the last record says, the hash covers the payloads that were read; it
\* is chained to the last record's hash if that covers a beginning of them.
LEMMA VerdictCovers ==
  ASSUME NEW payloads \in Hash, NEW last \in Audit
  PROVE  /\ Verdict(payloads, last) \in Audit
         /\ Verdict(payloads, last).integrity_hash = payloads
         /\ Verdict(payloads, last).events_verified_count = Len(payloads)
         /\ last.integrity_hash
              = SubSeq(payloads, 1, Smaller(last.events_verified_count, Len(payloads)))
              => Verdict(payloads, last).previous_hash = last.integrity_hash
<1> DEFINE count == Smaller(last.events_verified_count, Len(payloads))
           prefix == SubSeq(payloads, 1, count)
           rest == SubSeq(payloads, count + 1, Len(payloads))
<1>1. payloads \in Seq(Payload) /\ Len(payloads) \in Nat /\ Len(payloads) <= MaxEvents
  BY HashIsSeq
<1>2. count \in 0..Len(payloads)
  BY <1>1, AuditAssumption DEF Smaller, Audit
<1>3. prefix \in Hash
  BY <1>1, <1>2, SubSeqBegins, HashIsSeq, AuditAssumption
<1>4. prefix \o rest = payloads
  <2>1. prefix \o rest = SubSeq(payloads, 1, Len(payloads))
    BY <1>1, <1>2, ConcatAdjacentSubSeq
  <2>2. QED
    BY <1>1, <2>1, SubSeqFull
<1>5. Len(payloads) \in 0..MaxEvents
  BY <1>1, AuditAssumption
<1> HIDE DEF prefix, rest, count
<1>6. /\ Verdict(payloads, last).integrity_hash
           = IF prefix # last.integrity_hash THEN payloads ELSE last.integrity_hash \o rest
      /\ Verdict(payloads, last).events_verified_count = Len(payloads)
      /\ Verdict(payloads, last).previous_hash = prefix
  BY DEF Verdict, ChainHash, prefix, rest, count
<1>7. Verdict(payloads, last).integrity_hash = payloads
  BY <1>4, <1>6
<1>8. Verdict(payloads, last) \in Audit
  BY <1>3, <1>4, <1>5 DEF Verdict, ChainHash, Audit, prefix, rest, count
<1>9. QED
  BY <1>6, <1>7, <1>8 DEF prefix, count

--------------------------------------------------------------------------------
(* The steps of a check, and of those around it. *)

LEMMA HashLengths ==
  ASSUME AuditInv
  PROVE  /\ events \in Seq(Payload) /\ Len(events) \in 0..MaxEvents
         /\ \A c \in Check : loaded[c] \in Seq(Payload) /\ Len(loaded[c]) \in 0..MaxEvents
         /\ audits \in Seq(Audit) /\ Len(audits) \in Nat
         /\ \A i \in DOMAIN audits :
              /\ audits[i].integrity_hash \in Seq(Payload)
              /\ audits[i].events_verified_count \in 0..MaxEvents
<1> USE DEF AuditInv, TypeOK
<1>1. \A s \in Hash : s \in Seq(Payload) /\ Len(s) \in 0..MaxEvents
  BY HashIsSeq, AuditAssumption, LenProperties
<1>2. audits \in Seq(Audit) /\ Len(audits) \in Nat
  BY LenProperties
<1>3. ASSUME NEW i \in DOMAIN audits
      PROVE  /\ audits[i].integrity_hash \in Hash
             /\ audits[i].events_verified_count \in 0..MaxEvents
  <2>1. audits[i] \in Audit
    BY <1>2, LenProperties, ElementOfSeq
  <2>2. QED
    BY <2>1 DEF Audit
<1>4. QED
  BY <1>1, <1>2, <1>3

LEMMA InitAuditInv == Init => AuditInv
<1> SUFFICES ASSUME Init PROVE AuditInv
  OBVIOUS
<1>1. <<>> \in Hash
  BY HashIsSeq, AuditAssumption
<1>2. Genesis \in Audit
  BY <1>1, AuditAssumption DEF Genesis, Audit
<1>3. TypeOK
  BY <1>1, <1>2 DEF Init, TypeOK
<1>4. QED
  BY <1>3 DEF Init, AuditInv, RecordsCover, LoadedCovers, ResultCovers

LEMMA LoadEventsInv ==
  ASSUME AuditInv, NEW c \in Check, LoadEvents(c)
  PROVE  AuditInv'
<1> USE DEF LoadEvents, AuditInv
<1>1. TypeOK'
  BY HashLengths DEF TypeOK
<1>2. RecordsCover'
  BY DEF RecordsCover
<1>3. audits # <<>> => Last(audits).events_verified_count <= Len(events)
  BY HashLengths DEF RecordsCover, Last
<1>4. Begins(events, events)
  BY HashLengths DEF Begins
<1>5. LoadedCovers'
  BY <1>3, <1>4, HashLengths DEF LoadedCovers, TypeOK
<1>6. ResultCovers'
  BY DEF ResultCovers, TypeOK
<1>7. QED
  BY <1>1, <1>2, <1>5, <1>6

LEMMA LoadLastAuditInv ==
  ASSUME AuditInv, NEW c \in Check, LoadLastAudit(c)
  PROVE  AuditInv'
<1> DEFINE last == IF audits = <<>> THEN Genesis ELSE Last(audits)
           v == Verdict(loaded[c], last)
<1> USE DEF AuditInv
<1>1. /\ pc[c] = "audits"
      /\ result' = [result EXCEPT ![c] = v]
      /\ pc' = [pc EXCEPT ![c] = "ledger"]
      /\ UNCHANGED <<events, audits, loaded, version, began, changes>>
  BY DEF LoadLastAudit
<1>2. last \in Audit
  <2>1. Genesis \in Audit
    BY HashIsSeq, AuditAssumption DEF Genesis, Audit
  <2>2. audits # <<>> => Last(audits) \in Audit
    BY HashLengths DEF Last
  <2>3. QED
    BY <2>1, <2>2
<1>3. /\ v \in Audit
      /\ v.integrity_hash = loaded[c]
      /\ v.events_verified_count = Len(loaded[c])
      /\ last.integrity_hash
           = SubSeq(loaded[c], 1, Smaller(last.events_verified_count, Len(loaded[c])))
           => v.previous_hash = last.integrity_hash
  BY <1>2, VerdictCovers DEF TypeOK
<1>4. TypeOK'
  BY <1>1, <1>3 DEF TypeOK
<1>5. RecordsCover' /\ LoadedCovers'
  BY <1>1 DEF RecordsCover, LoadedCovers, TypeOK
<1>6. ASSUME began[c] = Len(audits), audits # <<>>, changes = {}
      PROVE  v.previous_hash = Last(audits).integrity_hash
  <2>1. /\ last = Last(audits) /\ last = audits[Len(audits)]
        /\ Len(audits) \in DOMAIN audits
    BY <1>6, HashLengths DEF Last
  <2>2. /\ Begins(last.integrity_hash, events)
        /\ last.events_verified_count = Len(last.integrity_hash)
    BY <1>6, <2>1 DEF RecordsCover
  <2>3. Begins(loaded[c], events) /\ last.events_verified_count <= Len(loaded[c])
    BY <1>1, <1>6, <2>1 DEF LoadedCovers
  <2>4. Smaller(last.events_verified_count, Len(loaded[c])) = last.events_verified_count
    BY <2>1, <2>3, HashLengths DEF Smaller
  <2>5. last.integrity_hash = SubSeq(loaded[c], 1, last.events_verified_count)
    BY <2>1, <2>2, <2>3, HashLengths, BeginningsNest
  <2>6. QED
    BY <1>3, <2>1, <2>4, <2>5
<1> HIDE DEF v
<1>7. ResultCovers'
  BY <1>1, <1>3, <1>6 DEF ResultCovers, TypeOK
<1>8. QED
  BY <1>4, <1>5, <1>7

LEMMA LoadLedgerInv ==
  ASSUME AuditInv, NEW c \in Check, LoadLedger(c)
  PROVE  AuditInv'
<1> USE DEF LoadLedger, AuditInv
<1>1. TypeOK'
  BY HashLengths DEF TypeOK
<1>2. QED
  BY <1>1 DEF TypeOK, RecordsCover, LoadedCovers, ResultCovers

LEMMA AppendAuditInv ==
  ASSUME AuditInv, NEW c \in Check, AppendAudit(c)
  PROVE  AuditInv'
<1> USE DEF AuditInv
<1>0. UNCHANGED <<events, loaded, result, version, began, changes>> /\ pc[c] = "append"
  BY DEF AppendAudit
<1>1. CASE pc' = [pc EXCEPT ![c] = "conflict"] /\ audits' = audits
  BY <1>0, <1>1 DEF TypeOK, RecordsCover, LoadedCovers, ResultCovers
<1>2. CASE audits' = Append(audits, result[c]) /\ pc' = [pc EXCEPT ![c] = "done"]
  <2>1. /\ audits' \in Seq(Audit) /\ Len(audits') = Len(audits) + 1
        /\ \A i \in 1..Len(audits) : audits'[i] = audits[i]
        /\ audits'[Len(audits) + 1] = result[c]
        /\ DOMAIN audits' = 1..(Len(audits) + 1) /\ DOMAIN audits = 1..Len(audits)
    BY <1>2, AppendProperties, LenProperties DEF TypeOK
  <2>2. TypeOK'
    BY <1>0, <1>2, <2>1 DEF TypeOK
  <2>3. RecordsCover'
    <3>1. /\ result[c].integrity_hash = loaded[c]
          /\ result[c].events_verified_count = Len(loaded[c])
          /\ Len(loaded[c]) <= Len(events)
          /\ changes = {} => Begins(loaded[c], events)
      BY <1>0 DEF ResultCovers, LoadedCovers
    <3>2. QED
      BY <1>0, <2>1, <3>1, HashLengths DEF RecordsCover
  <2>4. \A d \in Check : pc'[d] # "load" => began[d] <= Len(audits)
    BY <1>0, <1>2 DEF LoadedCovers, TypeOK
  <2>5. \A d \in Check : pc'[d] # "load" => began[d] # Len(audits')
    BY <2>1, <2>4, HashLengths DEF TypeOK
  <2>6. LoadedCovers'
    BY <1>0, <1>2, <2>1, <2>4, <2>5, HashLengths DEF LoadedCovers, TypeOK
  <2>7. ResultCovers'
    BY <1>0, <1>2, <2>5 DEF ResultCovers, TypeOK
  <2>8. QED
    BY <2>2, <2>3, <2>6, <2>7
<1>3. QED
  BY <1>1, <1>2 DEF AppendAudit

LEMMA RunCheckInv ==
  ASSUME AuditInv, NEW c \in Check, RunCheck(c)
  PROVE  AuditInv'
BY LoadEventsInv, LoadLastAuditInv, LoadLedgerInv, AppendAuditInv DEF RunCheck

LEMMA AppendEventInv ==
  ASSUME AuditInv, NEW p \in Payload, AppendEvent(p)
  PROVE  /\ AuditInv'
         /\ \A s \in Seq(Payload) : Begins(s, events) => Begins(s, events')
<1> USE DEF AuditInv
<1>1. /\ events' = Append(events, p) /\ Len(events) < MaxEvents
      /\ UNCHANGED <<audits, pc, loaded, result, version, began, changes>>
  BY DEF AppendEvent, check
<1>2. /\ events' \in Seq(Payload) /\ Len(events') = Len(events) + 1
      /\ \A i \in 1..Len(events) : events'[i] = events[i]
  BY <1>1, HashLengths, AppendProperties
<1>3. ASSUME NEW s \in Seq(Payload), Begins(s, events) PROVE Begins(s, events')
  BY <1>2, <1>3, HashLengths, LenProperties DEF Begins
<1>4. TypeOK'
  <2>1. Len(events') <= MaxEvents
    BY <1>1, <1>2, HashLengths, AuditAssumption
  <2>2. QED
    BY <1>1, <1>2, <2>1, HashIsSeq DEF TypeOK
<1>5. RecordsCover'
  BY <1>1, <1>2, <1>3, HashLengths, LenProperties DEF RecordsCover
<1>6. LoadedCovers'
  BY <1>1, <1>2, <1>3, HashLengths, LenProperties DEF LoadedCovers
<1>7. ResultCovers'
  BY <1>1 DEF ResultCovers
<1>8. QED
  BY <1>3, <1>4, <1>5, <1>6, <1>7

LEMMA ChangeEventInv ==
  ASSUME AuditInv, NEW i \in DOMAIN events, NEW p \in Payload, ChangeEvent(i, p)
  PROVE  AuditInv' /\ changes' = changes \cup {i} /\ i \notin changes
<1> USE DEF AuditInv
<1>1. /\ events' = [events EXCEPT ![i] = p] /\ changes' = changes \cup {i} /\ i \notin changes
      /\ UNCHANGED <<audits, pc, loaded, result, version, began>>
  BY DEF ChangeEvent, check
<1>2. /\ events' \in Seq(Payload) /\ Len(events') = Len(events)
      /\ i \in 1..MaxEvents
  <2>1. i \in 1..Len(events) /\ Len(events) \in 0..MaxEvents /\ events \in Seq(Payload)
    BY HashLengths, LenProperties
  <2>2. events' \in Seq(Payload) /\ Len(events') = Len(events)
    BY <1>1, <2>1, ExceptSeq
  <2>3. QED
    BY <2>1, <2>2, AuditAssumption
<1>3. TypeOK'
  BY <1>1, <1>2, HashIsSeq, HashLengths DEF TypeOK
<1>4. RecordsCover' /\ LoadedCovers' /\ ResultCovers'
  BY <1>1, <1>2 DEF RecordsCover, LoadedCovers, ResultCovers
<1>5. QED
  BY <1>1, <1>3, <1>4

--------------------------------------------------------------------------------
(* The packages. *)

LEMMA PackageTyped ==
  ASSUME PackageInv, NEW c \in Examined
  PROVE  /\ c \in Check
         /\ package[c].event_stream \in Seq(Payload)
         /\ altered[c] \subseteq 1..MaxEvents
         /\ package[c].status \in {"none", "begun", "finished"}
<1>1. package[c].event_stream \in Hash
  BY DEF PackageInv, PackageTypeOK
<1>2. QED
  BY <1>1, HashIsSeq, PackageAssumption DEF PackageInv, PackageTypeOK

LEMMA InitPackageInv == PackageInit => PackageInv
<1> SUFFICES ASSUME PackageInit PROVE PackageInv
  OBVIOUS
<1>1. AuditInv
  BY InitAuditInv DEF PackageInit
<1>2. <<>> \in Hash
  BY HashIsSeq, AuditAssumption
<1>3. PackageTypeOK
  BY <1>1, <1>2, AuditAssumption DEF AuditInv, PackageInit, PackageTypeOK, Unfinished
<1>4. \A c \in Examined :
        package[c].status = "none" /\ ~package[c].chain_valid /\ pc[c] = "load"
  BY PackageAssumption DEF PackageInit, Init, Unfinished
<1>5. QED
  BY <1>1, <1>3, <1>4 DEF PackageInv, StreamCovered, CheckFollowsStream

LEMMA BeginPackageInv ==
  ASSUME PackageInv, NEW c \in Examined, NEW date \in 0..MaxEvents, BeginPackage(c, date)
  PROVE  PackageInv'
<1> DEFINE stream == SubSeq(events, 1, Smaller(date, Len(events)))
<1>1. /\ UNCHANGED <<events, audits, pc, loaded, result, version, began, changes>>
      /\ package[c].status = "none"
      /\ package' = [package EXCEPT ![c] =
           [Unfinished EXCEPT !.status = "begun", !.event_stream = stream]]
      /\ altered' = [altered EXCEPT ![c] = changes]
  BY DEF BeginPackage, vars, check
<1>2. AuditInv'
  BY <1>1 DEF PackageInv, AuditInv, TypeOK, RecordsCover, LoadedCovers, ResultCovers
<1>3. events \in Seq(Payload) /\ Len(events) \in 0..MaxEvents
  BY HashLengths DEF PackageInv
<1>4. Smaller(date, Len(events)) \in 0..Len(events)
  BY <1>3, AuditAssumption DEF Smaller
<1>5. stream \in Seq(Payload) /\ Len(stream) <= MaxEvents /\ Begins(stream, events)
  BY <1>3, <1>4, SubSeqBegins, AuditAssumption
<1>6. stream \in Hash
  BY <1>5, HashIsSeq
<1> HIDE DEF stream
<1>7. changes \in SUBSET (1..MaxEvents)
  BY DEF PackageInv, PackageTypeOK, TypeOK
<1>8. PackageTypeOK'
  <2>1. [Unfinished EXCEPT !.status = "begun", !.event_stream = stream]
          \in [status : {"none", "begun", "finished"}, event_stream : Hash,
              integrity_hash : Hash, events_verified : 0..MaxEvents, chain_valid : BOOLEAN]
    <3>1. <<>> \in Hash /\ 0 \in 0..MaxEvents
      BY HashIsSeq, AuditAssumption
    <3>2. QED
      BY <1>6, <3>1 DEF Unfinished
  <2>2. QED
    BY <1>1, <1>2, <1>7, <2>1 DEF PackageInv, AuditInv, PackageTypeOK
<1>9. pc[c] = "load"
  BY <1>1 DEF PackageInv, CheckFollowsStream
<1>10. StreamCovered'
  BY <1>1, <1>5, <1>9 DEF PackageInv, PackageTypeOK, StreamCovered, Unfinished
<1>11. CheckFollowsStream'
  BY <1>1 DEF PackageInv, PackageTypeOK, CheckFollowsStream, Unfinished
<1>12. QED
  BY <1>2, <1>8, <1>10, <1>11 DEF PackageInv

LEMMA FinishPackageInv ==
  ASSUME PackageInv, NEW c \in Examined, FinishPackage(c)
  PROVE  PackageInv'
<1>1. /\ UNCHANGED <<events, audits, pc, loaded, result, version, began, changes, altered>>
      /\ package[c].status = "begun"
  BY DEF FinishPackage, vars, check
<1>2. AuditInv'
  BY <1>1 DEF PackageInv, AuditInv, TypeOK, RecordsCover, LoadedCovers, ResultCovers
<1>3. c \in Check /\ result[c] \in Audit
  BY PackageTyped DEF PackageInv, AuditInv, TypeOK
<1>4. PICK p : /\ package' = [package EXCEPT ![c] = p]
               /\ \/ pc[c] = "done" /\ p = WithIntegrity(package[c], result[c])
                  \/ pc[c] = "conflict" /\ p = WithError(package[c])
  BY DEF FinishPackage, PackageInv, PackageTypeOK
<1>5. PackageTypeOK'
  BY <1>1, <1>2, <1>3, <1>4
  DEF PackageInv, AuditInv, PackageTypeOK, WithIntegrity, WithError, Audit
<1>6. StreamCovered'
  BY <1>1, <1>4
  DEF PackageInv, PackageTypeOK, StreamCovered, WithIntegrity, WithError
<1>7. CheckFollowsStream'
  <2>1. pc[c] = "done" =>
          /\ result[c].integrity_hash = loaded[c]
          /\ result[c].events_verified_count = Len(loaded[c])
    BY <1>3 DEF PackageInv, AuditInv, ResultCovers
  <2>2. QED
    BY <1>1, <1>4, <2>1
    DEF PackageInv, PackageTypeOK, CheckFollowsStream, WithIntegrity, WithError
<1>8. QED
  BY <1>2, <1>5, <1>6, <1>7 DEF PackageInv

\* What a step of a check does to what a package looks at.
LEMMA RunCheckMoves ==
  ASSUME TypeOK, NEW c \in Check, RunCheck(c)
  PROVE  /\ UNCHANGED <<events, changes>>
         /\ pc[c] \notin {"done", "conflict"} /\ pc'[c] # "load"
         /\ loaded'[c] = IF pc[c] = "load" THEN events ELSE loaded[c]
         /\ \A d \in Check \ {c} : pc'[d] = pc[d] /\ loaded'[d] = loaded[d]
BY DEF RunCheck, LoadEvents, LoadLastAudit, LoadLedger, AppendAudit, TypeOK

LEMMA CheckForPackageInv ==
  ASSUME PackageInv, NEW c \in Check, CheckForPackage(c)
  PROVE  PackageInv'
<1>1. /\ RunCheck(c) /\ UNCHANGED <<package, altered>>
      /\ c \in Examined => package[c].status = "begun"
  BY DEF CheckForPackage, packageVars
<1>2. AuditInv' /\ TypeOK
  BY <1>1, RunCheckInv DEF PackageInv, AuditInv
<1>3. PackageTypeOK'
  BY <1>1, <1>2 DEF PackageInv, AuditInv, PackageTypeOK
<1>4. /\ UNCHANGED <<events, changes>>
      /\ pc[c] \notin {"done", "conflict"} /\ pc'[c] # "load"
      /\ loaded'[c] = IF pc[c] = "load" THEN events ELSE loaded[c]
      /\ \A d \in Check \ {c} : pc'[d] = pc[d] /\ loaded'[d] = loaded[d]
  BY <1>1, <1>2, RunCheckMoves
<1>5. StreamCovered'
  BY <1>1, <1>4, PackageTyped DEF PackageInv, StreamCovered
<1>6. CheckFollowsStream'
  BY <1>1, <1>4, PackageTyped DEF PackageInv, CheckFollowsStream
<1>7. QED
  BY <1>2, <1>3, <1>5, <1>6 DEF PackageInv

LEMMA AroundPackagesInv ==
  ASSUME PackageInv, AroundPackages
  PROVE  PackageInv'
<1>0. UNCHANGED <<package, altered>>
  BY DEF AroundPackages, packageVars
<1>1. ASSUME NEW p \in Payload, AppendEvent(p) PROVE PackageInv'
  <2>1. /\ AuditInv' /\ UNCHANGED <<pc, loaded, changes>>
        /\ \A s \in Seq(Payload) : Begins(s, events) => Begins(s, events')
    BY <1>1, AppendEventInv DEF PackageInv, AppendEvent, check
  <2>2. QED
    BY <1>0, <2>1, PackageTyped
    DEF PackageInv, AuditInv, PackageTypeOK, StreamCovered, CheckFollowsStream
<1>2. ASSUME NEW i \in DOMAIN events, NEW p \in Payload, ChangeEvent(i, p)
      PROVE  PackageInv'
  <2>1. /\ AuditInv' /\ UNCHANGED <<pc, loaded>>
        /\ changes' = changes \cup {i} /\ i \notin changes
    BY <1>2, ChangeEventInv DEF PackageInv, ChangeEvent, check
  <2>2. \A c \in Examined : package[c].status # "none" => changes' # altered[c]
    BY <2>1 DEF PackageInv, StreamCovered
  <2>3. StreamCovered'
    BY <1>0, <2>1, <2>2 DEF PackageInv, StreamCovered
  <2>4. QED
    BY <1>0, <2>1, <2>3 DEF PackageInv, AuditInv, PackageTypeOK, CheckFollowsStream
<1>3. QED
  BY <1>1, <1>2 DEF AroundPackages

LEMMA NextPackageInv == PackageInv /\ [PackageNext]_allVars => PackageInv'
<1> SUFFICES ASSUME PackageInv, [PackageNext]_allVars PROVE PackageInv'
  OBVIOUS
<1>1. CASE UNCHANGED allVars
  BY <1>1 DEF allVars, vars, check, PackageInv, PackageTypeOK, AuditInv, TypeOK,
    RecordsCover, LoadedCovers, ResultCovers, StreamCovered, CheckFollowsStream
<1>2. CASE PackagesDone
  BY <1>1, <1>2 DEF PackagesDone, Quiescent, packageVars, allVars
<1>3. QED
  BY <1>1, <1>2, BeginPackageInv, FinishPackageInv, CheckForPackageInv, AroundPackagesInv
  DEF PackageNext

LEMMA PackageInvariance == PackageSpec => []PackageInv
<1>1. PackageInit => PackageInv
  BY InitPackageInv
<1>2. PackageInv /\ [PackageNext]_allVars => PackageInv'
  BY NextPackageInv
<1>3. QED
  BY <1>1, <1>2, PTL DEF PackageSpec

--------------------------------------------------------------------------------

\* Hashes, records and packages have their types, whatever runs at once.
THEOREM PackageTypeCorrect == PackageSpec => []PackageTypeOK
<1>1. PackageInv => PackageTypeOK
  BY DEF PackageInv
<1>2. QED
  BY <1>1, PackageInvariance, PTL

\* As long as no stored payload changes, every record run_integrity_check appends is
\* the hash of the prefix it counts.
THEOREM RecordsHashPrefixes == PackageSpec => []RecordsArePrefixes
<1>1. PackageInv => RecordsArePrefixes
  <2> SUFFICES ASSUME PackageInv, changes = {}, NEW i \in DOMAIN audits
               PROVE  audits[i].integrity_hash
                        = SubSeq(events, 1, audits[i].events_verified_count)
    BY DEF RecordsArePrefixes
  <2>1. /\ audits[i].events_verified_count = Len(audits[i].integrity_hash)
        /\ Begins(audits[i].integrity_hash, events)
    BY DEF PackageInv, AuditInv, RecordsCover
  <2>2. QED
    BY <2>1, HashLengths, BeginsMeansSubSeq DEF PackageInv
<1>2. QED
  BY <1>1, PackageInvariance, PTL

\* The events of a package are the first of those its integrity hash covers.
THEOREM PackagesAreVerifiable == PackageSpec => []PackageVerifiable
<1>1. PackageInv => PackageVerifiable
  <2> SUFFICES ASSUME PackageInv, NEW c \in Examined,
                      package[c].status = "finished", package[c].chain_valid
               PROVE  /\ package[c].events_verified = Len(package[c].integrity_hash)
                      /\ changes = altered[c] =>
                           IsPrefix(package[c].event_stream, package[c].integrity_hash)
    BY DEF PackageVerifiable
  <2>1. /\ package[c].integrity_hash = loaded[c]
        /\ package[c].events_verified = Len(loaded[c])
        /\ pc[c] # "load"
    BY DEF PackageInv, CheckFollowsStream
  <2>2. changes = altered[c] => Begins(package[c].event_stream, loaded[c])
    BY <2>1 DEF PackageInv, StreamCovered
  <2>3. package[c].event_stream \in Seq(Payload) /\ loaded[c] \in Seq(Payload)
    BY PackageTyped, HashLengths DEF PackageInv
  <2>4. QED
    BY <2>1, <2>2, <2>3, BeginsMeansSubSeq
<1>2. QED
  BY <1>1, PackageInvariance, PTL

\* A check that no other overlaps extends the chain: forks need two at once.
THEOREM OnlyOverlapForks == PackageSpec => ForksNeedOverlap
<1> DEFINE Extends ==
      \A c \in Check :
        /\ pc[c] = "append" /\ pc'[c] = "done"
        /\ began[c] = Len(audits)
        /\ changes = {}
        => Linked(audits', Len(audits'))
<1>1. PackageInv /\ [PackageNext]_allVars => [Extends]_vars
  <2> SUFFICES ASSUME PackageInv, [PackageNext]_allVars, NEW c \in Check,
                      pc[c] = "append", pc'[c] = "done",
                      began[c] = Len(audits), changes = {}
               PROVE  Linked(audits', Len(audits'))
    OBVIOUS
  <2>1. PICK d \in Check : RunCheck(d)
    <3>1. pc' # pc
      OBVIOUS
    <3>2. QED
      BY <3>1 DEF PackageNext, BeginPackage, FinishPackage, CheckForPackage, AroundPackages,
        AppendEvent, ChangeEvent, PackagesDone, Quiescent, allVars, vars, check
  <2>2. c = d
    BY <2>1, RunCheckMoves DEF PackageInv, AuditInv
  <2>3. audits' = Append(audits, result[c])
    BY <2>1, <2>2 DEF RunCheck, LoadEvents, LoadLastAudit, LoadLedger, AppendAudit,
      PackageInv, AuditInv, TypeOK
  <2>4. result[c] \in Audit /\ audits \in Seq(Audit)
    BY DEF PackageInv, AuditInv, TypeOK
  <2>5. /\ Len(audits') = Len(audits) + 1 /\ Len(audits) \in Nat
        /\ audits'[Len(audits) + 1] = result[c]
        /\ \A i \in 1..Len(audits) : audits'[i] = audits[i]
    BY <2>3, <2>4, AppendProperties, LenProperties
  <2>6. audits # <<>> =>
          /\ result[c].previous_hash = Last(audits).integrity_hash
          /\ Last(audits).events_verified_count <= result[c].events_verified_count
    BY DEF PackageInv, AuditInv, LoadedCovers, ResultCovers
  <2>7. Len(audits) > 0 => audits # <<>> /\ Last(audits) = audits'[Len(audits)]
    BY <2>4, <2>5 DEF Last
  <2>8. audits # <<>> => Last(audits).events_verified_count \in Int
                         /\ result[c].events_verified_count \in Int
    BY <2>4, HashLengths DEF Audit, Last, PackageInv
  <2>9. QED
    BY <2>5, <2>6, <2>7, <2>8 DEF Linked
<1>2. QED
  BY <1>1, PackageInvariance, PTL DEF PackageSpec, ForksNeedOverlap

================================================================================
