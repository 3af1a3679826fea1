-------------------------- MODULE MCOutboxPublisher ---------------------------
(* Instances of OutboxPublisher for TLC. *)
EXTENDS OutboxPublisher

CONSTANTS r1, r2, r3, d1, d2

\* Two publishers, or a publisher beside a dry run.
MCConfigs == {{}, {d2}}

================================================================================
