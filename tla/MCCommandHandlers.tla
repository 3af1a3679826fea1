-------------------------- MODULE MCCommandHandlers ---------------------------
(* Instances of CommandHandlers for TLC. *)
EXTENDS CommandHandlers, TLC

CONSTANTS c1, c2, c3, c4, c5, s1, s2, m1, m2, rule1, rule2

\* Parameters a kind of request does not look at have these values.
Blank ==
  [kind |-> "submit", session |-> s1, model |-> m1, rule |-> rule1,
   outcome |-> "APPROVE", confident |-> TRUE, explained |-> TRUE, contributing |-> {}]

A(kind) == [Blank EXCEPT !.kind = kind]

\* Requests of every kind, and two sessions that start, analyse and screen at once.
AnyRequest ==
  {A(k) : k \in Kind} \cup {[A(k) EXCEPT !.session = s2] :
                              k \in {"start_session", "credit", "fraud"}}

AnyRequests ==
  {c1 :> A("submit") @@ c2 :> A("start_session") @@ c3 :> x @@ c4 :> y :
     x, y \in AnyRequest}

\* Decisions and reviews, sound and unsound, after one screening.
Decision ==
  {[A("decision") EXCEPT !.outcome = o, !.confident = b, !.contributing = S] :
     o \in {"APPROVE", "REFER"}, b \in BOOLEAN, S \in {{s1}, {s2}}}
Review1 ==
  {[A("review") EXCEPT !.outcome = o, !.explained = b] :
     o \in {"APPROVE", "DECLINE"}, b \in BOOLEAN}

DecisionRequests ==
  {c1 :> A("start_session") @@ c2 :> A("fraud") @@ c3 :> x @@ c4 :> y :
     x \in Decision, y \in Decision \cup Review1}

MCRequests == AnyRequests \cup DecisionRequests

\* What the counterexample needs.
FraudAfterReview ==
  {c1 :> A("start_session") @@ c2 :> A("fraud")
     @@ c3 :> [A("decision") EXCEPT !.contributing = {s1}]
     @@ c4 :> A("review") @@ c5 :> A("fraud")}

================================================================================
