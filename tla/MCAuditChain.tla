----------------------------- MODULE MCAuditChain ------------------------------
(* Instances of RegulatoryPackage, and the AuditChain in it, for TLC. *)
EXTENDS RegulatoryPackage, TLC

CONSTANTS k1, k2, k3, a, b

\* Checks of the tool are interchangeable.
Symmetry == Permutations(Check \ Examined)

================================================================================
