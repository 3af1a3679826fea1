---------------------------- MODULE MCEventStore ------------------------------
(* Instances of EventStore for TLC. *)
EXTENDS EventStore, TLC

CONSTANTS c1, c2, c3, s1, s2

\* Calls are interchangeable, and so are streams, wherever no liveness property
\* is checked.
Symmetry == Permutations(Call) \cup Permutations(Stream)

================================================================================
