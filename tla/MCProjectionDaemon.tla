-------------------------- MODULE MCProjectionDaemon ---------------------------
(* Instances of ProjectionDaemon for TLC. *)
EXTENDS ProjectionDaemon

CONSTANTS d1, d2, summary, performance

MCProjection == <<summary, performance>>
MCOneProjection == <<summary>>

================================================================================
