-------------------------- MODULE MCComplianceAudit ---------------------------
(* Instances of ComplianceAudit for TLC. *)
EXTENDS ComplianceAudit

CONSTANTS aml

\* Two faults of any kinds: what more of them do to one another is left to the proofs.
TwoFaults == raises + restarts + rebuilds <= 2

================================================================================
