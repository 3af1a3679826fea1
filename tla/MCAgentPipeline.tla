---------------------------- MODULE MCAgentPipeline ----------------------------
(* Instances of AgentPipeline for TLC. *)
EXTENDS AgentPipeline, TLC

CONSTANTS p1, p2, p3, p4, p5, x

A(kind, after, prior, breaks) ==
  [kind |-> kind, after |-> after, prior |-> prior, breaks |-> breaks]

Order == <<p1, p2, p3, p4, p5>>

\* run_src_pipeline.py, x left out.
Chain ==
  p1 :> A("document", Nobody, Nobody, FALSE) @@ p2 :> A("credit", p1, Nobody, FALSE)
    @@ p3 :> A("fraud", p2, Nobody, FALSE) @@ p4 :> A("compliance", p3, Nobody, FALSE)
    @@ p5 :> A("decision", p4, Nobody, FALSE)

\* Agent n is also started by hand, and that run may break, unless it is the compliance
\* agent's; the pipeline stops one agent later.  A run that waits for itself is never
\* started.
Repeated(n) ==
  [p \in {Order[m] : m \in n + 2..5} |-> A("document", p, Nobody, FALSE)]
    @@ Chain @@ x :> [Chain[Order[n]] EXCEPT !.breaks = (n # 4)]

\* Run n breaks, is recovered, and the pipeline goes on after the recovery.
Recovered(n) ==
  [p \in DOMAIN Chain |->
     [Chain[p] EXCEPT !.breaks = (p = Order[n]), !.after = IF @ = Order[n] THEN x ELSE @]]
    @@ x :> A(Chain[Order[n]].kind, Nobody, Order[n], TRUE)

\* Only the document agent tells the seeds apart.
MCSetups ==
  LET Given(n) == IF n = 1 THEN Seeds ELSE {s \in Seeds : Len(s) = 2}
  IN  UNION {{Repeated(n), Recovered(n)} \X Given(n) : n \in 1..5}

================================================================================
