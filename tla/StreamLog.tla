------------------------------- MODULE StreamLog -------------------------------
(***************************************************************************)
(* What the event store promises its callers, with no transaction, row     *)
(* lock or sequence in sight: every stream is a log, a call either adds    *)
(* its whole batch at the end of one log in a single step or leaves no     *)
(* trace, it is accepted only if the version it named is the log's length  *)
(* at that very step (or it named none), it is accepted at most once, and  *)
(* a closed log never changes again.                                       *)
(***************************************************************************)
EXTENDS Integers, Sequences

CONSTANTS
  Stream,     \* stream identifiers
  Call,       \* invocations of append
  AnyVersion  \* the expected version that names no version

VARIABLES
  log,        \* log[s] is the sequence of calls whose events make up stream s
  closed,     \* archived streams
  req         \* req[c] is the request of call c, fixed from the start

vars == <<log, closed, req>>

Occurs(c) == \E s \in Stream : \E p \in DOMAIN log[s] : log[s][p] = c

Init ==
  /\ log = [s \in Stream |-> <<>>]
  /\ closed = {}

\* One call is accepted: its batch becomes the tail of its stream.
Accept(c) ==
  LET s == req[c].stream
  IN  /\ s \notin closed
      /\ req[c].expected \in {AnyVersion, Len(log[s])}
      /\ ~Occurs(c)
      /\ log' = [log EXCEPT ![s] = @ \o [i \in 1..req[c].size |-> c]]
      /\ UNCHANGED <<closed, req>>

\* A stream that holds events is archived.
Close(s) ==
  /\ s \notin closed
  /\ log[s] # <<>>
  /\ closed' = closed \cup {s}
  /\ UNCHANGED <<log, req>>

Next ==
  \/ \E c \in Call : Accept(c)
  \/ \E s \in Stream : Close(s)

Spec == Init /\ [][Next]_vars

================================================================================
