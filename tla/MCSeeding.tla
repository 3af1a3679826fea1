------------------------------- MODULE MCSeeding --------------------------------
(* Instances of Seeding for TLC. *)
EXTENDS Seeding

\* A company that fails soft rules, and gets a decision, one that is blocked, and
\* targets that end before.  A script may stop at any line, and the files of the other
\* early targets are prefixes of these; the other decisions differ in one line.
MCScenarios ==
  {[target |-> "DECLINED", failing |-> {1, 4}],
   [target |-> "DECLINED_COMPLIANCE", failing |-> {3}]}
  \cup {[target |-> STATES[i], failing |-> {}] : i \in 1..3}

MCTouched == {<<"loan", 0>>, <<"credit", 0>>}

================================================================================
