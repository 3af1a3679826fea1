------------------------- MODULE ProjectionDaemonProofs ------------------------
(***************************************************************************)
(* Proofs about ProjectionDaemon, for every sequence of projections, every *)
(* number of events and every value of the other bounds.  What the daemon  *)
(* skips is proved for any number of daemons; in which order and how often *)
(* it applies events, for one.                                             *)
(***************************************************************************)
EXTENDS ProjectionDaemon, TLAPS, FiniteSetTheorems, SequenceTheorems

--------------------------------------------------------------------------------

\* The positions a batch has yet to handle for a projection.
Left(d, p) == {g \in Position : \E w \in todo[d] : Projection[w[1]] = p /\ w[2] = g}

Settled(p, g) == g \in Applied(p) \cup errors[p]

Busy(d) == pc[d] \in {"handle", "checkpoint"}

InFlight(d, p) == pc[d] = "checkpoint" /\ Handling(d) = p

\* A batch has work exactly while it is handling events, and works on committed
\* events only.
BatchShape ==
  /\ \A d \in Daemon : Busy(d) <=> todo[d] # {}
  /\ \A d \in Daemon : \A w \in todo[d] : w[2] \in committed

\* Every position the tables mention was visible.
PositionsVisible ==
  \A p \in Name :
    /\ checkpoint[p] \in committed \cup {0}
    /\ Applied(p) \subseteq committed
    /\ \A d \in Daemon : next[d][p] = 0 \/ next[d][p] - 1 \in committed

\* Below what a batch still has to handle for p there is nothing it does not know of.
NoGapIn(p) ==
  /\ Covered(p)
  /\ \A d \in Daemon :
       /\ pc[d] = "fetch" => \A g \in committed : g < next[d][p] => Settled(p, g)
       /\ \A e \in Left(d, p), g \in committed :
            g < e => Settled(p, g) \/ g \in Left(d, p)
       /\ InFlight(d, p) => Handled(d) \in Applied(p)

NoGap == \A p \in Name \ disturbed : NoGapIn(p)

IInv == TypeOK /\ BatchShape /\ PositionsVisible

SkipInv == IInv /\ NoGap

--------------------------------------------------------------------------------

\* One daemon: what it is about to handle lies above the checkpoint.
AboveCheckpoint ==
  \A d \in Daemon : \A p \in Name :
    /\ \A e \in Left(d, p) : e > checkpoint[p]
    /\ pc[d] = "fetch" => checkpoint[p] = 0 \/ checkpoint[p] < next[d][p]

\* Without a rebuild in between, all that lies between the checkpoint and what has
\* been, or is to be, applied has been given up or is to be handled before it.
OnlyGivenUpBetween ==
  \A d \in Daemon : \A p \in Name \ disturbed :
    /\ pc[d] = "fetch" => next[d][p] = NextPosition(checkpoint[p])
    /\ \A e \in Left(d, p), g \in committed :
         checkpoint[p] < g /\ g < e => g \in errors[p] \cup Left(d, p)
    /\ \A v \in Applied(p), g \in committed :
         checkpoint[p] < g /\ g < v => g \in errors[p]

\* Without an interrupt the checkpoint is behind by at most the event in flight.
CheckpointKeepsUp ==
  interrupts = 0 => \A d \in Daemon : \A p \in Name : \A v \in Applied(p) :
    v <= checkpoint[p] \/ (InFlight(d, p) /\ v = Handled(d))

OrderInv ==
  /\ IInv
  /\ AboveCheckpoint
  /\ OnlyGivenUpBetween
  /\ CheckpointKeepsUp
  /\ AppliedInOrder

\* The applied events the checkpoint has caught up with.
Saved(p) == {g \in Applied(p) : g <= checkpoint[p]}

\* Unless a rebuild emptied the table, what is in flight has been applied.
InFlightApplied ==
  \A d \in Daemon : \A p \in Name :
    InFlight(d, p) => view[p] = <<>> \/ Handled(d) \in Applied(p)

Flying(d, p) == IF InFlight(d, p) THEN 1 ELSE 0

\* Each application not caught up with is the one in flight, or was cut off.
Counted ==
  \A d \in Daemon : \A p \in Name :
    Len(view[p]) - Cardinality(Saved(p)) <= interrupts + Flying(d, p)

CountInv == IInv /\ AboveCheckpoint /\ InFlightApplied /\ Counted

--------------------------------------------------------------------------------

LEMMA NameFacts ==
  /\ DOMAIN Projection = 1..Len(Projection)
  /\ Len(Projection) \in Nat \ {0}
  /\ \A i \in DOMAIN Projection : Projection[i] \in Name
  /\ Name # {}
<1>1. /\ DOMAIN Projection = 1..Len(Projection)
      /\ Len(Projection) \in Nat
      /\ Projection # <<>>
  BY DaemonAssumption
<1>2. Len(Projection) # 0
  BY <1>1, DaemonAssumption, EmptySeq
<1>3. \A i \in DOMAIN Projection : Projection[i] \in Name
  BY DEF Name, Range
<1>4. Projection[1] \in Name
  BY <1>1, <1>2, <1>3
<1>5. QED
  BY <1>1, <1>2, <1>3, <1>4

LEMMA Bounds ==
  /\ MaxEvents \in Nat /\ MaxFaults \in Nat /\ MaxInterrupts \in Nat /\ MaxRebuilds \in Nat
  /\ BatchSize \in Nat \ {0} /\ MaxRetries \in Nat \ {0}
BY DaemonAssumption

\* A non-empty set of natural numbers has a least element.
LEMMA LeastNatural ==
  ASSUME NEW T \in SUBSET Nat, T # {}
  PROVE  \E m \in T : \A k \in T : m <= k
<1> DEFINE R == OpToRel(<, Nat)
<1>1. PICK m \in T : \A k \in T : ~ (<<k, m>> \in R)
  <2>1. IsWellFoundedOn(R, Nat)
    BY NatLessThanWellFounded
  <2> HIDE DEF R
  <2>2. QED
    BY <2>1, WFMin
<1>2. \A k, l \in Nat : <<k, l>> \in R <=> k < l
  BY DEF OpToRel
<1>3. \A k \in T : m <= k
  <2> HIDE DEF R
  <2>1. TAKE k \in T
  <2>2. k \in Nat /\ m \in Nat
    OBVIOUS
  <2>3. ~(k < m)
    BY <2>2, <1>1, <1>2
  <2>4. QED
    BY <2>2, <2>3
<1>4. QED
  BY <1>3

\* The loops have a first pair as long as any is left.
LEMMA FirstIsLeast ==
  ASSUME NEW work \in SUBSET Item, work # {}
  PROVE  /\ First(work) \in work
         /\ \A v \in work : v = First(work) \/ Before(First(work), v)
<1>1. \A w \in work : /\ w = <<w[1], w[2]>>
                      /\ w[1] \in Nat
                      /\ w[2] \in Nat
  BY NameFacts DEF Item, Position
<1> DEFINE I == {w[1] : w \in work}
<1>2. PICK i \in I : \A k \in I : i <= k
  <2>1. I \in SUBSET Nat /\ I # {}
    BY <1>1
  <2> HIDE DEF I
  <2>2. QED
    BY <2>1, LeastNatural
<1> DEFINE G == {w[2] : w \in {v \in work : v[1] = i}}
<1>3. G \in SUBSET Nat /\ G # {}
  BY <1>1
<1>4. PICK g \in G : \A k \in G : g <= k
  <2> HIDE DEF G
  <2>1. QED
    BY <1>3, LeastNatural
<1>5. PICK w \in work : w[1] = i /\ w[2] = g
  OBVIOUS
<1>6. \A v \in work : v = w \/ Before(w, v)
  <2> TAKE v \in work
  <2>1. v[1] \in Nat /\ v[2] \in Nat /\ i \in Nat /\ g \in Nat /\ i <= v[1]
    BY <1>1, <1>2, <1>5
  <2>2. CASE v[1] = i
    <3>1. g <= v[2]
      BY <2>2, <1>4
    <3>2. v[2] = g => v = w
      BY <2>2, <1>1, <1>5
    <3>3. QED
      BY <3>1, <3>2, <2>1, <2>2, <1>5 DEF Before
  <2>3. CASE v[1] # i
    BY <2>1, <2>3, <1>5 DEF Before
  <2>4. QED
    BY <2>2, <2>3
<1>7. QED
  BY <1>6 DEF First

\* load_all returns committed positions only, and none without the ones before it.
LEMMA PageFacts ==
  ASSUME FeedTypeOK, NEW from \in Nat
  PROVE  /\ Page(from) \subseteq {g \in committed : g >= from}
         /\ \A g \in Page(from), h \in committed : from <= h /\ h < g => h \in Page(from)
<1> DEFINE visible == {g \in committed : g >= from}
           Lower(g) == {h \in visible : h < g}
<1>1. committed \subseteq Nat /\ sequence \in Nat
  BY DaemonAssumption DEF FeedTypeOK
<1>2. IsFiniteSet(visible)
  <2>1. IsFiniteSet(1..sequence)
    BY <1>1, FS_Interval
  <2>2. visible \in SUBSET (1..sequence)
    BY DEF FeedTypeOK
  <2>3. QED
    BY <2>1, <2>2, FS_Subset
<1>3. ASSUME NEW g \in Page(from), NEW h \in committed, from <= h, h < g
      PROVE  h \in Page(from)
  <2>1. Cardinality(Lower(g)) < BatchSize /\ g \in committed
    BY DEF Page
  <2>2. IsFiniteSet(Lower(g)) /\ Lower(h) \in SUBSET Lower(g)
    <3>1. IsFiniteSet(Lower(g))
      <4>1. Lower(g) \in SUBSET visible
        OBVIOUS
      <4> HIDE DEF Lower, visible
      <4>2. QED
        BY <1>2, <4>1, FS_Subset
    <3>2. \A k \in committed : k < h => k < g
      BY <2>1, <1>1, <1>3
    <3>3. QED
      BY <3>1, <3>2
  <2>3. /\ Cardinality(Lower(h)) <= Cardinality(Lower(g))
        /\ Cardinality(Lower(g)) \in Nat
        /\ Cardinality(Lower(h)) \in Nat
    <3> HIDE DEF Lower
    <3>1. QED
      BY <2>2, FS_Subset, FS_CardinalityType
  <2>4. h \in visible /\ Cardinality(Lower(h)) < BatchSize
    <3>1. h \in visible
      BY <1>3, <1>1
    <3>2. QED
      <4> HIDE DEF Lower
      <4>1. QED
        BY <3>1, <2>1, <2>3, DaemonAssumption
  <2>5. QED
    BY <2>4 DEF Page
<1>4. QED
  BY <1>3 DEF Page

\* The daemon reads from the lowest position any projection resumes at.
LEMMA LowestNext ==
  ASSUME TypeOK, NEW d \in Daemon
  PROVE  /\ Min(Range(next[d])) \in Nat
         /\ \A p \in Name : Min(Range(next[d])) <= next[d][p]
         /\ \E p \in Name : Min(Range(next[d])) = next[d][p]
<1> DEFINE T == Range(next[d])
<1>1. next[d] \in [Name -> Nat]
  BY DaemonAssumption DEF TypeOK
<1>2. T \in SUBSET Nat /\ T # {}
  BY <1>1, NameFacts DEF Range
<1>3. PICK m \in T : \A k \in T : m <= k
  BY <1>2, LeastNatural
<1>4. Min(T) \in T /\ \A k \in T : Min(T) <= k
  BY <1>3 DEF Min
<1>5. QED
  BY <1>1, <1>2, <1>4 DEF Range

\* What a batch is working on: a committed event, the lowest it has left for that
\* projection.
LEMMA WorkingOn ==
  ASSUME TypeOK, BatchShape, NEW d \in Daemon, Busy(d)
  PROVE  /\ First(todo[d]) \in todo[d]
         /\ Handling(d) \in Name
         /\ Handled(d) \in Position
         /\ Handled(d) \in committed
         /\ Handled(d) \in Left(d, Handling(d))
         /\ \A g \in Left(d, Handling(d)) : Handled(d) <= g
<1> DEFINE w == First(todo[d])
<1>1. todo[d] \in SUBSET Item /\ todo[d] # {}
  BY DEF TypeOK, BatchShape
<1>2. w \in todo[d] /\ \A v \in todo[d] : v = w \/ Before(w, v)
  BY <1>1, FirstIsLeast
<1>3. \A v \in todo[d] : v[1] \in DOMAIN Projection /\ v[2] \in Position
  BY <1>1 DEF Item
<1>4. w[1] \in DOMAIN Projection /\ w[2] \in Position /\ w[2] \in committed
  BY <1>2, <1>3 DEF BatchShape
<1>5. ASSUME NEW g \in Left(d, Handling(d))
      PROVE  Handled(d) <= g
  <2>1. PICK v \in todo[d] : Projection[v[1]] = Projection[w[1]] /\ v[2] = g
    BY DEF Left, Handling
  <2>2. v[1] = w[1] /\ v[1] \in Nat
    BY <2>1, <1>3, <1>4, DaemonAssumption, NameFacts
  <2>3. v = w \/ w[2] < v[2]
    BY <2>2, <1>2 DEF Before
  <2>4. w[2] \in Nat /\ v[2] \in Nat
    BY <1>3, <1>4 DEF Position
  <2>5. QED
    BY <2>1, <2>3, <2>4 DEF Handled
<1>6. QED
  BY <1>2, <1>4, <1>5, NameFacts DEF Handling, Handled, Left

\* Advance takes off just what was worked on.
LEMMA AdvanceLeft ==
  ASSUME TypeOK, BatchShape, NEW d \in Daemon, Busy(d), Advance(d)
  PROVE  /\ \A c \in Daemon : \A p \in Name :
              Left(c, p)' = IF c = d /\ p = Handling(d) THEN Left(c, p) \ {Handled(d)}
                            ELSE Left(c, p)
         /\ todo' \in [Daemon -> SUBSET Item]
         /\ pc' \in [Daemon -> {"poll", "fetch", "handle", "checkpoint"}]
         /\ attempt' \in [Daemon -> 1..MaxRetries]
         /\ \A c \in Daemon : c # d => pc'[c] = pc[c] /\ todo'[c] = todo[c]
         /\ todo'[d] = todo[d] \ {First(todo[d])}
         /\ pc'[d] = IF todo'[d] = {} THEN "poll" ELSE "handle"
<1> DEFINE w == First(todo[d])
<1>1. todo \in [Daemon -> SUBSET Item] /\ w \in todo[d]
  BY WorkingOn DEF TypeOK
<1>2. /\ todo' = [todo EXCEPT ![d] = todo[d] \ {w}]
      /\ pc' = [pc EXCEPT ![d] = IF todo[d] \ {w} = {} THEN "poll" ELSE "handle"]
      /\ attempt' = [attempt EXCEPT ![d] = 1]
  BY DEF Advance
<1>3. /\ todo' \in [Daemon -> SUBSET Item]
      /\ todo'[d] = todo[d] \ {w}
      /\ \A c \in Daemon : c # d => todo'[c] = todo[c]
  BY <1>1, <1>2
<1>4. /\ pc' \in [Daemon -> {"poll", "fetch", "handle", "checkpoint"}]
      /\ pc'[d] = IF todo'[d] = {} THEN "poll" ELSE "handle"
      /\ \A c \in Daemon : c # d => pc'[c] = pc[c]
  BY <1>2, <1>3 DEF TypeOK
<1>5. attempt' \in [Daemon -> 1..MaxRetries]
  BY <1>2, DaemonAssumption DEF TypeOK
<1>6. ASSUME NEW c \in Daemon, NEW p \in Name, ~(c = d /\ p = Handling(d))
      PROVE  Left(c, p)' = Left(c, p)
  <2>1. CASE c # d
    BY <2>1, <1>3 DEF Left
  <2>2. CASE c = d /\ p # Projection[w[1]]
    BY <2>2, <1>3 DEF Left
  <2>3. QED
    BY <1>6, <2>1, <2>2 DEF Handling
<1>7. ASSUME NEW p \in Name, p = Handling(d)
      PROVE  Left(d, p)' = Left(d, p) \ {Handled(d)}
  <2> SUFFICES ASSUME NEW g \in Position
               PROVE  g \in Left(d, p)' <=> g \in Left(d, p) /\ g # Handled(d)
    BY DEF Left
  <2> DEFINE P(v) == Projection[v[1]] = p /\ v[2] = g
  <2>0. p = Projection[w[1]]
    BY <1>7 DEF Handling
  <2>1. \A v \in todo[d] : P(v) => (v # w <=> g # w[2])
    <3>1. \A v \in todo[d] : v = <<v[1], v[2]>> /\ v[1] \in DOMAIN Projection
      BY <1>1 DEF Item
    <3>2. \A v \in todo[d] : P(v) => v[1] = w[1]
      BY <2>0, <3>1, <1>1, DaemonAssumption
    <3>3. QED
      BY <2>0, <3>1, <3>2, <1>1
  <2>2. g \in Left(d, p) <=> \E v \in todo[d] : P(v)
    BY DEF Left
  <2>3. g \in Left(d, p)' <=> \E v \in todo'[d] : P(v)
    BY DEF Left
  <2>4. (\E v \in todo'[d] : P(v)) <=> (\E v \in todo[d] : P(v)) /\ g # w[2]
    BY <2>1, <1>3
  <2>5. QED
    BY <2>2, <2>3, <2>4 DEF Handled
<1>8. QED
  BY <1>3, <1>4, <1>5, <1>6, <1>7

LEMMA AppendRange ==
  ASSUME NEW S, NEW s \in Seq(S), NEW x \in S
  PROVE  /\ Append(s, x) \in Seq(S)
         /\ Len(Append(s, x)) = Len(s) + 1
         /\ Range(Append(s, x)) = Range(s) \cup {x}
         /\ \A i \in 1..Len(s) : Append(s, x)[i] = s[i]
         /\ Append(s, x)[Len(s) + 1] = x
<1>1. /\ Append(s, x) \in Seq(S)
      /\ Len(s) \in Nat
      /\ DOMAIN s = 1..Len(s)
      /\ Len(Append(s, x)) = Len(s) + 1
      /\ DOMAIN Append(s, x) = 1..(Len(s) + 1)
      /\ \A i \in 1..Len(s) : Append(s, x)[i] = s[i]
      /\ Append(s, x)[Len(s) + 1] = x
  OBVIOUS
<1>2. 1..(Len(s) + 1) = (1..Len(s)) \cup {Len(s) + 1}
  BY <1>1
<1>3. QED
  <2> DEFINE t == Append(s, x)
  <2> HIDE DEF t
  <2>1. {t[i] : i \in (1..Len(s)) \cup {Len(s) + 1}}
          = {s[i] : i \in 1..Len(s)} \cup {x}
    BY <1>1 DEF t
  <2>2. Range(t) = Range(s) \cup {x}
    BY <2>1, <1>1, <1>2 DEF Range, t
  <2>3. QED
    BY <1>1, <2>2 DEF t

\* The feed only takes new positions and only adds visible ones.
LEMMA FeedStep ==
  ASSUME FeedTypeOK, FeedNext
  PROVE  FeedTypeOK' /\ committed \subseteq committed'
<1>1. CASE Insert
  BY <1>1, Bounds DEF FeedTypeOK, Insert
<1>2. CASE \E rows \in SUBSET open : CommitRows(rows) \/ RollbackRows(rows)
  BY <1>2 DEF FeedTypeOK, CommitRows, RollbackRows
<1>3. QED
  BY <1>1, <1>2 DEF FeedNext

LEMMA InitInv == Init => IInv
<1> SUFFICES ASSUME Init
             PROVE  IInv
  OBVIOUS
<1>1. TypeOK
  BY Bounds DEF Init, FeedInit, TypeOK, FeedTypeOK
<1>2. BatchShape
  BY DEF Init, BatchShape, Busy
<1>3. PositionsVisible
  BY DEF Init, PositionsVisible, Applied, Range
<1>4. QED
  BY <1>1, <1>2, <1>3 DEF IInv

\* Every action keeps the invariant.
LEMMA NextInv == IInv /\ [Next]_vars => IInv'
<1> SUFFICES ASSUME IInv, [Next]_vars
             PROVE  IInv'
  OBVIOUS
<1> USE DEF IInv
<1>0. \A d \in Daemon : next[d] \in [Name -> 0..(MaxEvents + 1)]
  BY DEF TypeOK
<1>1. CASE FeedNext /\ UNCHANGED <<tables, daemonVars, environment>>
  <2>1. FeedTypeOK' /\ committed \subseteq committed'
    BY <1>1, FeedStep DEF TypeOK
  <2>2. TypeOK'
    BY <1>1, <2>1 DEF TypeOK, tables, daemonVars, environment
  <2>3. BatchShape'
    BY <1>1, <2>1 DEF BatchShape, Busy, daemonVars
  <2>4. PositionsVisible'
    BY <1>1, <2>1 DEF PositionsVisible, Applied, tables, daemonVars
  <2>5. QED
    BY <2>2, <2>3, <2>4
<1>2. ASSUME NEW d \in Daemon, LoadCheckpoints(d)
      PROVE  IInv'
  <2>1. \A p \in Name : NextPosition(checkpoint[p]) \in 0..(MaxEvents + 1)
                        /\ (NextPosition(checkpoint[p]) = 0
                            \/ NextPosition(checkpoint[p]) - 1 \in committed)
    BY Bounds DEF NextPosition, PositionsVisible, TypeOK, FeedTypeOK
  <2>2. /\ next' \in [Daemon -> [Name -> 0..(MaxEvents + 1)]]
        /\ \A c \in Daemon, p \in Name : next'[c][p] = 0 \/ next'[c][p] - 1 \in committed
    <3>1. next' = [next EXCEPT ![d] = [p \in Name |-> NextPosition(checkpoint[p])]]
      BY <1>2 DEF LoadCheckpoints
    <3> HIDE DEF NextPosition
    <3>2. [p \in Name |-> NextPosition(checkpoint[p])] \in [Name -> 0..(MaxEvents + 1)]
      BY <2>1
    <3>3. next' \in [Daemon -> [Name -> 0..(MaxEvents + 1)]]
      BY <3>1, <3>2 DEF TypeOK
    <3>4. \A c \in Daemon, p \in Name :
            next'[c][p] = IF c = d THEN NextPosition(checkpoint[p]) ELSE next[c][p]
      BY <3>1 DEF TypeOK
    <3>5. QED
      BY <3>3, <3>4, <2>1 DEF PositionsVisible
  <2>3. TypeOK'
    BY <1>2, <2>2 DEF TypeOK, LoadCheckpoints, FeedTypeOK, feed, tables, environment
  <2>4. BatchShape'
    BY <1>2 DEF BatchShape, Busy, LoadCheckpoints, feed, TypeOK
  <2>5. PositionsVisible'
    BY <1>2, <2>2 DEF PositionsVisible, Applied, LoadCheckpoints, feed, tables
  <2>6. QED
    BY <2>3, <2>4, <2>5
<1>3. ASSUME NEW d \in Daemon, Fetch(d)
      PROVE  IInv'
  <2> DEFINE from == Min(Range(next[d]))
             page == Page(from)
  <2>1. /\ from \in Nat
        /\ \A p \in Name : from <= next[d][p]
        /\ \E p \in Name : from = next[d][p]
    BY LowestNext
  <2> HIDE DEF from
  <2>2. page \subseteq {g \in committed : g >= from} /\ committed \subseteq Position
    BY <2>1, PageFacts, Bounds DEF TypeOK, FeedTypeOK, Position
  <2> HIDE DEF page
  <2>3. /\ Work(d, page) \in SUBSET Item
        /\ \A w \in Work(d, page) : w[2] \in committed
    BY <2>2 DEF Work, Item
  <2>4. Work(d, page) = {} <=> page = {}
    <3>1. ASSUME NEW g \in page
          PROVE  Work(d, page) # {}
      <4>1. PICK p \in Name : next[d][p] = from
        BY <2>1
      <4>2. PICK i \in DOMAIN Projection : Projection[i] = p
        BY DEF Name, Range
      <4>3. g >= next[d][p]
        BY <4>1, <2>2
      <4>4. <<i, g>> \in Work(d, page)
        BY <4>2, <4>3 DEF Work
      <4>5. QED
        BY <4>4
    <3>2. page = {} => Work(d, page) = {}
      BY DEF Work
    <3>3. QED
      BY <3>1, <3>2
  <2>5. /\ todo' = [todo EXCEPT ![d] = Work(d, page)]
        /\ next' = [next EXCEPT ![d] = [p \in Name |-> 0]]
        /\ pc' = [pc EXCEPT ![d] = IF page = {} THEN "poll" ELSE "handle"]
        /\ UNCHANGED <<feed, tables, attempt, environment>>
    BY <1>3 DEF Fetch, from, page
  <2> HIDE DEF Work
  <2>6. TypeOK'
    <3>1. todo' \in [Daemon -> SUBSET Item]
      BY <2>3, <2>5 DEF TypeOK
    <3>2. next' \in [Daemon -> [Name -> 0..(MaxEvents + 1)]]
      BY <2>5, Bounds DEF TypeOK
    <3>3. pc' \in [Daemon -> {"poll", "fetch", "handle", "checkpoint"}]
      BY <2>5 DEF TypeOK
    <3>4. QED
      BY <2>5, <3>1, <3>2, <3>3 DEF TypeOK, FeedTypeOK, feed, tables, environment
  <2>7. BatchShape'
    <3>1. \A c \in Daemon : todo'[c] = IF c = d THEN Work(d, page) ELSE todo[c]
      BY <2>5 DEF TypeOK
    <3>2. \A c \in Daemon :
            pc'[c] = IF c = d THEN IF page = {} THEN "poll" ELSE "handle" ELSE pc[c]
      BY <2>5 DEF TypeOK
    <3>3. QED
      BY <3>1, <3>2, <2>3, <2>4, <2>5 DEF BatchShape, Busy, feed
  <2>8. PositionsVisible'
    <3>1. \A c \in Daemon, p \in Name : next'[c][p] = IF c = d THEN 0 ELSE next[c][p]
      BY <2>5 DEF TypeOK
    <3>2. QED
      BY <2>5, <3>1 DEF PositionsVisible, Applied, feed, tables
  <2>9. QED
    BY <2>6, <2>7, <2>8
<1>4. ASSUME NEW d \in Daemon, HandleOk(d)
      PROVE  IInv'
  <2>1. pc[d] = "handle" /\ Busy(d)
    BY <1>4 DEF HandleOk, Busy
  <2>2. PICK q \in Name, e \in Position : q = Handling(d) /\ e = Handled(d) /\ e \in committed
    BY <2>1, WorkingOn
  <2>3. /\ view' = [view EXCEPT ![q] = Append(view[q], e)]
        /\ pc' = [pc EXCEPT ![d] = "checkpoint"]
        /\ UNCHANGED <<feed, checkpoint, errors, next, todo, attempt, environment>>
    BY <1>4, <2>2 DEF HandleOk
  <2>4. view[q] \in Seq(Position)
    BY DEF TypeOK
  <2>5. Append(view[q], e) \in Seq(Position) /\ Range(Append(view[q], e)) = Applied(q) \cup {e}
    BY <2>4, AppendRange DEF Applied
  <2>6. TypeOK'
    BY <2>3, <2>5 DEF TypeOK, FeedTypeOK, feed, environment
  <2>7. BatchShape'
    BY <2>1, <2>3 DEF BatchShape, Busy, feed, TypeOK
  <2>8. PositionsVisible'
    <3>1. \A p \in Name : Applied(p)' = IF p = q THEN Applied(q) \cup {e} ELSE Applied(p)
      BY <2>3, <2>5 DEF Applied, TypeOK
    <3>2. QED
      BY <3>1, <2>2, <2>3 DEF PositionsVisible, feed
  <2>9. QED
    BY <2>6, <2>7, <2>8
<1>5. ASSUME NEW d \in Daemon, HandleRaises(d)
      PROVE  IInv'
  <2>1. pc[d] = "handle" /\ Busy(d)
    BY <1>5 DEF HandleRaises, Busy
  <2>2. PICK q \in Name, e \in Position : q = Handling(d) /\ e = Handled(d)
    BY <2>1, WorkingOn
  <2>3. /\ UNCHANGED <<feed, checkpoint, view, next, poison, interrupts, rebuilds, disturbed>>
        /\ faults' \in 0..MaxFaults
    BY <1>5, Bounds DEF HandleRaises, TypeOK
  <2>4. PositionsVisible'
    BY <2>3 DEF PositionsVisible, Applied, feed
  <2>5. CASE RetriesLeft(d) /\ attempt' = [attempt EXCEPT ![d] = @ + 1]
               /\ UNCHANGED <<errors, pc, todo>>
    <3>1. attempt' \in [Daemon -> 1..MaxRetries]
      BY <2>5, Bounds DEF RetriesLeft, TypeOK
    <3>2. TypeOK'
      BY <2>3, <2>5, <3>1 DEF TypeOK, FeedTypeOK, feed
    <3>3. BatchShape'
      BY <2>3, <2>5 DEF BatchShape, Busy, feed
    <3>4. QED
      BY <2>4, <3>2, <3>3
  <2>6. CASE errors' = [errors EXCEPT ![q] = @ \cup {e}] /\ Advance(d)
    <3>1. /\ todo' \in [Daemon -> SUBSET Item]
          /\ pc' \in [Daemon -> {"poll", "fetch", "handle", "checkpoint"}]
          /\ attempt' \in [Daemon -> 1..MaxRetries]
      BY <2>1, <2>6, AdvanceLeft
    <3>2. errors' \in [Name -> SUBSET Position]
      BY <2>6, <2>2 DEF TypeOK
    <3>3. TypeOK'
      BY <2>3, <3>1, <3>2 DEF TypeOK, FeedTypeOK, feed
    <3>4. BatchShape'
      BY <2>1, <2>3, <2>6, AdvanceLeft DEF BatchShape, Busy, feed
    <3>5. QED
      BY <2>4, <3>3, <3>4
  <2>7. QED
    BY <1>5, <2>2, <2>5, <2>6 DEF HandleRaises
<1>6. ASSUME NEW d \in Daemon, UpdateCheckpoint(d)
      PROVE  IInv'
  <2>1. pc[d] = "checkpoint" /\ Busy(d) /\ Advance(d)
    BY <1>6 DEF UpdateCheckpoint, Busy
  <2>2. PICK q \in Name, e \in Position : q = Handling(d) /\ e = Handled(d) /\ e \in committed
    BY <2>1, WorkingOn
  <2>3. /\ checkpoint' = [checkpoint EXCEPT ![q] = e]
        /\ UNCHANGED <<feed, view, errors, next, environment>>
    BY <1>6, <2>2 DEF UpdateCheckpoint
  <2>4. TypeOK'
    <3>1. /\ todo' \in [Daemon -> SUBSET Item]
          /\ pc' \in [Daemon -> {"poll", "fetch", "handle", "checkpoint"}]
          /\ attempt' \in [Daemon -> 1..MaxRetries]
      BY <2>1, AdvanceLeft
    <3>2. checkpoint' \in [Name -> 0..MaxEvents]
      BY <2>2, <2>3, Bounds DEF TypeOK, Position
    <3>3. QED
      BY <2>3, <3>1, <3>2 DEF TypeOK, FeedTypeOK, feed, environment
  <2>5. BatchShape'
    BY <2>1, <2>3, AdvanceLeft DEF BatchShape, Busy, feed
  <2>6. PositionsVisible'
    BY <2>2, <2>3 DEF PositionsVisible, Applied, feed, TypeOK
  <2>7. QED
    BY <2>4, <2>5, <2>6
<1>7. ASSUME NEW d \in Daemon, Interrupt(d)
      PROVE  IInv'
  <2>1. TypeOK'
    BY <1>7, Bounds DEF Interrupt, TypeOK, FeedTypeOK, feed, tables
  <2>2. BatchShape'
    BY <1>7 DEF Interrupt, BatchShape, Busy, feed, TypeOK
  <2>3. PositionsVisible'
    BY <1>7 DEF Interrupt, PositionsVisible, Applied, feed, tables
  <2>4. QED
    BY <2>1, <2>2, <2>3
<1>8. ASSUME NEW q \in Name, RebuildProjection(q)
      PROVE  IInv'
  <2>1. TypeOK'
    BY <1>8, Bounds DEF RebuildProjection, TypeOK, FeedTypeOK, feed, daemonVars
  <2>2. BatchShape'
    BY <1>8 DEF RebuildProjection, BatchShape, Busy, feed, daemonVars
  <2>3. PositionsVisible'
    BY <1>8 DEF RebuildProjection, PositionsVisible, Applied, Range, feed, daemonVars, TypeOK
  <2>4. QED
    BY <2>1, <2>2, <2>3
<1>9. CASE UNCHANGED vars
  <2>1. TypeOK'
    BY <1>9 DEF vars, TypeOK, FeedTypeOK, feed, tables, daemonVars, environment
  <2>2. BatchShape'
    BY <1>9 DEF vars, BatchShape, Busy, feed, daemonVars
  <2>3. PositionsVisible'
    BY <1>9 DEF vars, PositionsVisible, Applied, feed, tables, daemonVars
  <2>4. QED
    BY <2>1, <2>2, <2>3
<1>10. QED
  BY <1>1, <1>2, <1>3, <1>4, <1>5, <1>6, <1>7, <1>8, <1>9 DEF Next, ProcessBatch

\* The tables and the daemons' variables stay in their ranges, a batch has work
\* exactly while it handles events, and works on, applies and records visible
\* positions only.
THEOREM Invariance == Spec => []IInv
BY InitInv, NextInv, PTL DEF Spec

\* TypeOK for any projections, daemons and bounds.
THEOREM TypeCorrect == Spec => []TypeOK
<1>1. IInv => TypeOK
  BY DEF IInv
<1>2. QED
  BY <1>1, Invariance, PTL

--------------------------------------------------------------------------------

\* What each action does to what the invariants speak of.

LEMMA PositionFacts ==
  ASSUME IInv
  PROVE  /\ committed \subseteq Position /\ Position \subseteq Nat
         /\ \A g \in Position : g > 0
         /\ \A p \in Name : checkpoint[p] \in Nat /\ Applied(p) \subseteq Position
         /\ \A d \in Daemon, p \in Name : next[d][p] \in Nat
         /\ \A d \in Daemon, p \in Name : Left(d, p) \subseteq committed
<1> USE DEF IInv
<1>1. committed \subseteq Position /\ Position \subseteq Nat /\ \A g \in Position : g > 0
  BY Bounds DEF TypeOK, FeedTypeOK, Position
<1>2. \A p \in Name : checkpoint[p] \in Nat /\ Applied(p) \subseteq Position
  <2>1. \A p \in Name : checkpoint[p] \in Nat
    BY Bounds DEF TypeOK
  <2>2. \A p \in Name : Applied(p) \subseteq committed
    BY DEF PositionsVisible
  <2>3. QED
    BY <1>1, <2>1, <2>2
<1>3. \A d \in Daemon, p \in Name : next[d][p] \in Nat
  BY Bounds DEF TypeOK
<1>4. \A d \in Daemon, p \in Name : Left(d, p) \subseteq committed
  BY DEF BatchShape, Left
<1>5. QED
  BY <1>1, <1>2, <1>3, <1>4

LEMMA FeedEffect ==
  ASSUME IInv, FeedNext, UNCHANGED <<tables, daemonVars, environment>>
  PROVE  /\ committed \subseteq committed' /\ committed' \subseteq Position
         /\ UNCHANGED <<checkpoint, view, errors, pc, next, interrupts, disturbed>>
         /\ \A p \in Name : Applied(p)' = Applied(p)
         /\ \A c \in Daemon, p \in Name :
              /\ Left(c, p)' = Left(c, p)
              /\ InFlight(c, p)' <=> InFlight(c, p)
              /\ Handled(c)' = Handled(c)
<1>1. committed \subseteq committed' /\ FeedTypeOK'
  BY FeedStep DEF IInv, TypeOK
<1>2. committed' \subseteq Position
  BY <1>1, Bounds DEF FeedTypeOK, Position
<1>3. QED
  BY <1>1, <1>2 DEF tables, daemonVars, environment, Left, Applied, InFlight, Handling, Handled

LEMMA LoadEffect ==
  ASSUME IInv, NEW d \in Daemon, LoadCheckpoints(d)
  PROVE  /\ UNCHANGED <<committed, checkpoint, view, errors, interrupts, disturbed>>
         /\ \A p \in Name : Applied(p)' = Applied(p)
         /\ \A c \in Daemon, p \in Name :
              /\ pc'[c] = IF c = d THEN "fetch" ELSE pc[c]
              /\ next'[c][p] = IF c = d THEN NextPosition(checkpoint[p]) ELSE next[c][p]
              /\ Left(c, p)' = Left(c, p)
              /\ InFlight(c, p)' <=> InFlight(c, p)
              /\ Handled(c)' = Handled(c)
         /\ \A p \in Name : Left(d, p) = {}
<1>1. UNCHANGED <<committed, checkpoint, view, errors, todo, interrupts, disturbed>>
  BY DEF LoadCheckpoints, feed, tables, environment
<1>2. \A c \in Daemon, p \in Name :
        /\ pc'[c] = IF c = d THEN "fetch" ELSE pc[c]
        /\ next'[c][p] = IF c = d THEN NextPosition(checkpoint[p]) ELSE next[c][p]
  BY DEF LoadCheckpoints, IInv, TypeOK
<1>3. pc[d] = "poll" /\ todo[d] = {}
  BY DEF LoadCheckpoints, IInv, BatchShape, Busy
<1>4. QED
  BY <1>1, <1>2, <1>3 DEF Left, Applied, InFlight, Handling, Handled

\* The page has every visible position a projection resumes at, up to its last.
LEMMA FetchEffect ==
  ASSUME IInv, NEW d \in Daemon, Fetch(d)
  PROVE  /\ UNCHANGED <<committed, checkpoint, view, errors, interrupts, disturbed>>
         /\ pc[d] = "fetch" /\ pc'[d] \in {"poll", "handle"}
         /\ \A p \in Name : Applied(p)' = Applied(p) /\ ~InFlight(d, p)'
         /\ \A c \in Daemon, p \in Name : c # d =>
              /\ pc'[c] = pc[c]
              /\ next'[c] = next[c]
              /\ Left(c, p)' = Left(c, p)
              /\ InFlight(c, p)' <=> InFlight(c, p)
              /\ Handled(c)' = Handled(c)
         /\ \A p \in Name : \A e \in Left(d, p)' :
              /\ e >= next[d][p]
              /\ \A g \in committed : next[d][p] <= g /\ g < e => g \in Left(d, p)'
<1> DEFINE from == Min(Range(next[d]))
           page == Page(from)
<1> USE DEF IInv
<1>1. /\ from \in Nat
      /\ \A p \in Name : from <= next[d][p]
  BY LowestNext
<1> HIDE DEF from
<1>2. /\ page \subseteq {g \in committed : g >= from}
      /\ \A g \in page, h \in committed : from <= h /\ h < g => h \in page
  BY <1>1, PageFacts DEF TypeOK
<1> HIDE DEF page
<1>3. /\ \A c \in Daemon : todo'[c] = IF c = d THEN Work(d, page) ELSE todo[c]
      /\ \A c \in Daemon : c # d => pc'[c] = pc[c] /\ next'[c] = next[c]
      /\ pc'[d] \in {"poll", "handle"} /\ pc[d] = "fetch"
      /\ UNCHANGED <<committed, checkpoint, view, errors, interrupts, disturbed>>
  BY DEF Fetch, TypeOK, feed, tables, environment, from, page
<1>4. ASSUME NEW p \in Name, NEW e \in Left(d, p)'
      PROVE  /\ e >= next[d][p]
             /\ \A g \in committed : next[d][p] <= g /\ g < e => g \in Left(d, p)'
  <2>1. PICK w \in Work(d, page) : Projection[w[1]] = p /\ w[2] = e
    BY <1>3 DEF Left
  <2>2. w[1] \in DOMAIN Projection /\ e \in page /\ e >= next[d][p]
    BY <2>1 DEF Work
  <2>3. ASSUME NEW g \in committed, next[d][p] <= g, g < e
        PROVE  g \in Left(d, p)'
    <3>1. g \in Nat /\ next[d][p] \in Nat /\ g \in Position
      BY PositionFacts
    <3>2. from <= g
      BY <3>1, <2>3, <1>1
    <3>3. g \in page
      BY <3>2, <2>2, <1>2, <2>3
    <3>4. <<w[1], g>> \in Work(d, page)
      BY <3>1, <3>3, <2>1, <2>2, <2>3 DEF Work
    <3>5. <<w[1], g>> \in todo'[d]
      BY <3>4, <1>3
    <3>6. QED
      BY <3>1, <3>5, <2>1 DEF Left
  <2>4. QED
    BY <2>2, <2>3
<1>5. /\ \A p \in Name : Applied(p)' = Applied(p) /\ ~InFlight(d, p)'
      /\ \A c \in Daemon, p \in Name : c # d =>
           /\ Left(c, p)' = Left(c, p)
           /\ InFlight(c, p)' <=> InFlight(c, p)
           /\ Handled(c)' = Handled(c)
  BY <1>3 DEF Left, Applied, InFlight, Handling, Handled
<1> HIDE DEF IInv
<1>6. QED
  BY <1>3, <1>4, <1>5

LEMMA HandleOkEffect ==
  ASSUME IInv, NEW d \in Daemon, HandleOk(d)
  PROVE  /\ UNCHANGED <<committed, checkpoint, errors, next, interrupts, disturbed>>
         /\ \E q \in Name, e \in Position :
              /\ e \in Left(d, q)
              /\ q = Handling(d) /\ e = Handled(d)
              /\ \A g \in Left(d, q) : e <= g
              /\ \A p \in Name :
                   /\ view'[p] = IF p = q THEN Append(view[q], e) ELSE view[p]
                   /\ Applied(p)' = IF p = q THEN Applied(q) \cup {e} ELSE Applied(p)
              /\ \A c \in Daemon, p \in Name :
                   /\ Left(c, p)' = Left(c, p)
                   /\ Handled(c)' = Handled(c)
                   /\ InFlight(c, p)' <=> IF c = d THEN p = q ELSE InFlight(c, p)
              /\ \A c \in Daemon : pc'[c] = IF c = d THEN "checkpoint" ELSE pc[c]
         /\ \A p \in Name : ~InFlight(d, p)
<1> USE DEF IInv
<1>1. pc[d] = "handle" /\ Busy(d)
  BY DEF HandleOk, Busy
<1>2. PICK q \in Name, e \in Position :
        q = Handling(d) /\ e = Handled(d) /\ e \in Left(d, q) /\ \A g \in Left(d, q) : e <= g
  BY <1>1, WorkingOn
<1>3. /\ view' = [view EXCEPT ![q] = Append(view[q], e)]
      /\ pc' = [pc EXCEPT ![d] = "checkpoint"]
      /\ UNCHANGED <<committed, checkpoint, errors, next, todo, interrupts, disturbed>>
  BY <1>2 DEF HandleOk, feed, environment
<1>4. \A p \in Name : view'[p] = IF p = q THEN Append(view[q], e) ELSE view[p]
  BY <1>3 DEF TypeOK
<1>5. Range(Append(view[q], e)) = Range(view[q]) \cup {e}
  BY <1>2, AppendRange DEF TypeOK
<1>6. \A p \in Name : Applied(p)' = IF p = q THEN Applied(q) \cup {e} ELSE Applied(p)
  BY <1>4, <1>5 DEF Applied
<1>7. \A c \in Daemon : pc'[c] = IF c = d THEN "checkpoint" ELSE pc[c]
  BY <1>3 DEF TypeOK
<1>8. \A c \in Daemon, p \in Name :
        /\ Left(c, p)' = Left(c, p)
        /\ Handled(c)' = Handled(c)
        /\ InFlight(c, p)' <=> IF c = d THEN p = q ELSE InFlight(c, p)
  BY <1>2, <1>3, <1>7 DEF Left, InFlight, Handling, Handled
<1>9. \A p \in Name : ~InFlight(d, p)
  BY <1>1 DEF InFlight
<1> HIDE DEF IInv
<1>10. QED
  BY <1>2, <1>3, <1>4, <1>6, <1>7, <1>8, <1>9

\* A retry changes nothing here; the last one gives the event up and goes on.
LEMMA HandleRaisesEffect ==
  ASSUME IInv, NEW d \in Daemon, HandleRaises(d)
  PROVE  /\ UNCHANGED <<committed, checkpoint, view, next, interrupts, disturbed>>
         /\ \A p \in Name : Applied(p)' = Applied(p)
         /\ \A p \in Name : ~InFlight(d, p) /\ ~InFlight(d, p)'
         /\ \A c \in Daemon, p \in Name : c # d =>
              /\ Left(c, p)' = Left(c, p)
              /\ InFlight(c, p)' <=> InFlight(c, p)
              /\ Handled(c)' = Handled(c)
         /\ \A c \in Daemon : pc'[c] = "fetch" => pc[c] = "fetch"
         /\ \A p \in Name : errors[p] \subseteq errors'[p]
         /\ \A p \in Name : /\ Left(d, p)' \subseteq Left(d, p)
                            /\ Left(d, p) \ Left(d, p)' \subseteq errors'[p]
<1> USE DEF IInv
<1>1. pc[d] = "handle" /\ Busy(d)
  BY DEF HandleRaises, Busy
<1>2. PICK q \in Name, e \in Position : q = Handling(d) /\ e = Handled(d)
  BY <1>1, WorkingOn
<1>3. UNCHANGED <<committed, checkpoint, view, next, interrupts, disturbed>>
  BY DEF HandleRaises, feed
<1>4. \A p \in Name : Applied(p)' = Applied(p)
  BY <1>3 DEF Applied
<1>5. CASE UNCHANGED <<errors, pc, todo>>
  <2>1. \A c \in Daemon, p \in Name :
          /\ Left(c, p)' = Left(c, p)
          /\ InFlight(c, p)' <=> InFlight(c, p)
          /\ Handled(c)' = Handled(c)
    BY <1>5 DEF Left, InFlight, Handling, Handled
  <2>2. \A p \in Name : ~InFlight(d, p)
    BY <1>1 DEF InFlight
  <2> HIDE DEF IInv
  <2>3. QED
    BY <1>3, <1>4, <1>5, <2>1, <2>2
<1>6. CASE errors' = [errors EXCEPT ![q] = @ \cup {e}] /\ Advance(d)
  <2>1. /\ \A c \in Daemon : \A p \in Name :
             Left(c, p)' = IF c = d /\ p = q THEN Left(c, p) \ {e} ELSE Left(c, p)
        /\ \A c \in Daemon : c # d => pc'[c] = pc[c] /\ todo'[c] = todo[c]
        /\ pc'[d] \in {"poll", "handle"}
    BY <1>1, <1>2, <1>6, AdvanceLeft
  <2>2. \A p \in Name : errors'[p] = IF p = q THEN errors[p] \cup {e} ELSE errors[p]
    BY <1>6 DEF TypeOK
  <2>3. \A p \in Name : ~InFlight(d, p) /\ ~InFlight(d, p)'
    BY <1>1, <2>1 DEF InFlight
  <2>4. \A c \in Daemon, p \in Name : c # d =>
          /\ InFlight(c, p)' <=> InFlight(c, p)
          /\ Handled(c)' = Handled(c)
    BY <2>1 DEF InFlight, Handling, Handled
  <2> HIDE DEF IInv
  <2>5. QED
    BY <1>3, <1>4, <2>1, <2>2, <2>3, <2>4
<1>7. QED
  BY <1>2, <1>5, <1>6 DEF HandleRaises

LEMMA UpdateEffect ==
  ASSUME IInv, NEW d \in Daemon, UpdateCheckpoint(d)
  PROVE  /\ UNCHANGED <<committed, view, errors, next, interrupts, disturbed>>
         /\ \A p \in Name : Applied(p)' = Applied(p)
         /\ \A c \in Daemon, p \in Name : c # d =>
              /\ InFlight(c, p)' <=> InFlight(c, p)
              /\ Handled(c)' = Handled(c)
         /\ \A p \in Name : ~InFlight(d, p)'
         /\ \A c \in Daemon : pc'[c] = "fetch" => c # d /\ pc[c] = "fetch"
         /\ \E q \in Name, e \in Position :
              /\ e \in Left(d, q)
              /\ InFlight(d, q) /\ e = Handled(d)
              /\ \A p \in Name : p # q => ~InFlight(d, p)
              /\ \A g \in Left(d, q) : e <= g
              /\ \A p \in Name : checkpoint'[p] = IF p = q THEN e ELSE checkpoint[p]
              /\ \A c \in Daemon, p \in Name :
                   Left(c, p)' = IF c = d /\ p = q THEN Left(c, p) \ {e} ELSE Left(c, p)
<1> USE DEF IInv
<1>1. pc[d] = "checkpoint" /\ Busy(d) /\ Advance(d)
  BY DEF UpdateCheckpoint, Busy
<1>2. PICK q \in Name, e \in Position :
        q = Handling(d) /\ e = Handled(d) /\ e \in Left(d, q) /\ \A g \in Left(d, q) : e <= g
  BY <1>1, WorkingOn
<1>3. /\ \A p \in Name : checkpoint'[p] = IF p = q THEN e ELSE checkpoint[p]
      /\ UNCHANGED <<committed, view, errors, next, interrupts, disturbed>>
  BY <1>2 DEF UpdateCheckpoint, TypeOK, feed, environment
<1>4. /\ \A c \in Daemon : \A p \in Name :
           Left(c, p)' = IF c = d /\ p = q THEN Left(c, p) \ {e} ELSE Left(c, p)
      /\ \A c \in Daemon : c # d => pc'[c] = pc[c] /\ todo'[c] = todo[c]
      /\ pc'[d] \in {"poll", "handle"}
  BY <1>1, <1>2, AdvanceLeft
<1>5. \A p \in Name : Applied(p)' = Applied(p)
  BY <1>3 DEF Applied
<1>6. \A p \in Name : /\ ~InFlight(d, p)'
                      /\ InFlight(d, p) <=> p = q
  BY <1>1, <1>2, <1>4 DEF InFlight
<1>7. \A c \in Daemon, p \in Name : c # d =>
        /\ InFlight(c, p)' <=> InFlight(c, p)
        /\ Handled(c)' = Handled(c)
  BY <1>4 DEF InFlight, Handling, Handled
<1> HIDE DEF IInv
<1>8. QED
  BY <1>2, <1>3, <1>4, <1>5, <1>6, <1>7

LEMMA InterruptEffect ==
  ASSUME IInv, NEW d \in Daemon, Interrupt(d)
  PROVE  /\ UNCHANGED <<committed, checkpoint, view, errors, next, disturbed>>
         /\ interrupts' = interrupts + 1
         /\ \A p \in Name : Applied(p)' = Applied(p) /\ ~InFlight(d, p)'
         /\ \A c \in Daemon, p \in Name :
              /\ pc'[c] = IF c = d THEN "poll" ELSE pc[c]
              /\ Left(c, p)' = IF c = d THEN {} ELSE Left(c, p)
              /\ c # d => /\ InFlight(c, p)' <=> InFlight(c, p)
                          /\ Handled(c)' = Handled(c)
<1>1. /\ \A c \in Daemon : todo'[c] = IF c = d THEN {} ELSE todo[c]
      /\ \A c \in Daemon : pc'[c] = IF c = d THEN "poll" ELSE pc[c]
      /\ UNCHANGED <<committed, checkpoint, view, errors, next, disturbed>>
      /\ interrupts' = interrupts + 1
  BY DEF Interrupt, IInv, TypeOK, feed, tables
<1>2. QED
  BY <1>1 DEF Left, Applied, InFlight, Handling, Handled

LEMMA RebuildEffect ==
  ASSUME IInv, NEW q \in Name, RebuildProjection(q)
  PROVE  /\ UNCHANGED <<committed, errors, pc, next, interrupts>>
         /\ \A p \in Name :
              /\ view'[p] = IF p = q THEN <<>> ELSE view[p]
              /\ checkpoint'[p] = IF p = q THEN 0 ELSE checkpoint[p]
              /\ Applied(p)' = IF p = q THEN {} ELSE Applied(p)
         /\ \A c \in Daemon, p \in Name :
              /\ Left(c, p)' = Left(c, p)
              /\ InFlight(c, p)' <=> InFlight(c, p)
              /\ Handled(c)' = Handled(c)
         /\ disturbed \subseteq disturbed'
         /\ \A d \in Daemon : q \in Name \ disturbed' =>
              pc[d] = "poll" /\ \A p \in Name : Left(d, p) = {} /\ ~InFlight(d, p)
<1>1. /\ \A p \in Name : view'[p] = IF p = q THEN <<>> ELSE view[p]
      /\ \A p \in Name : checkpoint'[p] = IF p = q THEN 0 ELSE checkpoint[p]
      /\ UNCHANGED <<committed, errors, pc, next, todo, interrupts>>
      /\ disturbed' = IF \A d \in Daemon : pc[d] = "poll" THEN disturbed
                      ELSE disturbed \cup {q}
  BY DEF RebuildProjection, IInv, TypeOK, feed, daemonVars
<1>2. \A p \in Name : Applied(p)' = IF p = q THEN {} ELSE Applied(p)
  BY <1>1 DEF Applied, Range
<1>3. \A c \in Daemon, p \in Name :
        /\ Left(c, p)' = Left(c, p)
        /\ InFlight(c, p)' <=> InFlight(c, p)
        /\ Handled(c)' = Handled(c)
  BY <1>1 DEF Left, InFlight, Handling, Handled
<1>4. ASSUME NEW d \in Daemon, q \in Name \ disturbed'
      PROVE  pc[d] = "poll" /\ \A p \in Name : Left(d, p) = {} /\ ~InFlight(d, p)
  <2>1. pc[d] = "poll"
    BY <1>1, <1>4
  <2>2. todo[d] = {}
    BY <2>1 DEF IInv, BatchShape, Busy
  <2>3. QED
    BY <2>1, <2>2 DEF Left, InFlight
<1>5. QED
  BY <1>1, <1>2, <1>3, <1>4

LEMMA StutterEffect ==
  ASSUME UNCHANGED vars
  PROVE  /\ UNCHANGED <<committed, checkpoint, view, errors, pc, next, interrupts, disturbed>>
         /\ \A c \in Daemon, p \in Name :
              /\ Left(c, p)' = Left(c, p)
              /\ InFlight(c, p)' <=> InFlight(c, p)
              /\ Handled(c)' = Handled(c)
         /\ \A p \in Name : Applied(p)' = Applied(p)
BY DEF vars, feed, tables, daemonVars, environment, Left, Applied, InFlight, Handling, Handled

--------------------------------------------------------------------------------

LEMMA InitNoGap == Init => NoGap
<1> SUFFICES ASSUME Init
             PROVE  NoGap
  OBVIOUS
<1> USE DEF Init, FeedInit
<1>1. committed = {}
  OBVIOUS
<1>2. \A d \in Daemon, p \in Name : Left(d, p) = {} /\ pc[d] = "poll"
  BY DEF Left
<1>3. QED
  BY <1>1, <1>2 DEF NoGap, NoGapIn, Covered, InFlight

\* As long as positions become visible in order, no step opens a gap, whatever
\* the other daemons, failures and interruptions.
LEMMA NextNoGap ==
  ASSUME IInv, NoGap, [Next]_vars, [VisibleInOrder]_vars
  PROVE  NoGap'
<1> USE DEF NoGap, NoGapIn, Settled
<1>0. IInv' /\ committed \subseteq Position /\ Position \subseteq Nat
  BY NextInv, PositionFacts
<1>1. CASE FeedNext /\ UNCHANGED <<tables, daemonVars, environment>>
  <2>1. /\ committed \subseteq committed' /\ committed' \subseteq Position
        /\ UNCHANGED <<checkpoint, errors, pc, next, disturbed>>
        /\ \A p \in Name : Applied(p)' = Applied(p)
        /\ \A c \in Daemon, p \in Name :
             /\ Left(c, p)' = Left(c, p)
             /\ InFlight(c, p)' <=> InFlight(c, p)
             /\ Handled(c)' = Handled(c)
    BY <1>1, FeedEffect
  <2>2. \A g \in committed' \ committed, h \in committed : h < g
    BY <1>1, <2>1 DEF VisibleInOrder, vars, feed
  <2>3. \A g \in committed' : g > 0 /\ g \in Nat
    BY <2>1, PositionFacts
  <2>4. \A h \in committed \cup {0}, g \in committed' : g <= h => g \in committed
    <3>1. \A g \in committed' \ committed, h \in committed \cup {0} : h < g /\ h \in Nat
      BY <1>0, <2>2, <2>3
    <3>2. QED
      BY <3>1, <2>3
  <2>5. ASSUME NEW p \in Name \ disturbed
        PROVE  NoGapIn(p)'
    <3>1. Covered(p)'
      BY <2>1, <2>4 DEF Covered, IInv, PositionsVisible
    <3>2. ASSUME NEW d \in Daemon, pc[d] = "fetch", NEW g \in committed', g < next[d][p]
          PROVE  Settled(p, g)
      <4>1. next[d][p] - 1 \in committed
        BY <3>2, <2>3, PositionFacts DEF IInv, PositionsVisible
      <4>2. g <= next[d][p] - 1
        BY <3>2, <2>3, PositionFacts
      <4>3. QED
        BY <3>2, <4>1, <4>2, <2>4
    <3>3. ASSUME NEW d \in Daemon, NEW e \in Left(d, p), NEW g \in committed', g < e
          PROVE  Settled(p, g) \/ g \in Left(d, p)
      <4>1. e \in committed
        BY PositionFacts
      <4>2. g <= e
        BY <3>3, <4>1, <2>3, <1>0
      <4>3. QED
        BY <3>3, <4>1, <4>2, <2>4
    <3>4. QED
      BY <2>1, <3>1, <3>2, <3>3
  <2>6. QED
    BY <2>1, <2>5
<1>2. ASSUME NEW d \in Daemon, LoadCheckpoints(d)
      PROVE  NoGap'
  <2>1. ASSUME NEW p \in Name \ disturbed, NEW g \in committed, g < NextPosition(checkpoint[p])
        PROVE  Settled(p, g)
    <3>1. g <= checkpoint[p]
      BY <2>1, <1>0, PositionFacts DEF NextPosition
    <3>2. QED
      BY <3>1 DEF Covered
  <2>2. \A p \in Name \ disturbed : Covered(p)'
    BY <1>2, LoadEffect DEF Covered
  <2>3. QED
    BY <1>2, <2>1, <2>2, LoadEffect
<1>3. ASSUME NEW d \in Daemon, Fetch(d)
      PROVE  NoGap'
  <2>1. \A p \in Name \ disturbed : Covered(p)'
    BY <1>3, FetchEffect DEF Covered
  <2>2. ASSUME NEW p \in Name \ disturbed, NEW e \in Left(d, p)', NEW g \in committed, g < e
        PROVE  Settled(p, g) \/ g \in Left(d, p)'
    <3>1. CASE g < next[d][p]
      BY <1>3, <3>1, FetchEffect
    <3>2. CASE next[d][p] <= g
      BY <1>3, <2>2, <3>2, FetchEffect
    <3>3. QED
      BY <3>1, <3>2, <1>0, PositionFacts
  <2>3. QED
    BY <1>3, <2>1, <2>2, FetchEffect
<1>4. ASSUME NEW d \in Daemon, HandleOk(d)
      PROVE  NoGap'
  <2>1. \A p \in Name \ disturbed : Covered(p)'
    BY <1>4, HandleOkEffect DEF Covered
  <2>2. QED
    BY <1>4, <2>1, HandleOkEffect
<1>5. ASSUME NEW d \in Daemon, HandleRaises(d)
      PROVE  NoGap'
  <2>1. \A p \in Name \ disturbed : Covered(p)'
    BY <1>5, HandleRaisesEffect DEF Covered
  <2>2. QED
    BY <1>5, <2>1, HandleRaisesEffect
<1>6. ASSUME NEW d \in Daemon, UpdateCheckpoint(d)
      PROVE  NoGap'
  <2>1. PICK q \in Name, e \in Position :
          /\ e \in Left(d, q) /\ InFlight(d, q) /\ e = Handled(d)
          /\ \A g \in Left(d, q) : e <= g
          /\ \A p \in Name : checkpoint'[p] = IF p = q THEN e ELSE checkpoint[p]
          /\ \A c \in Daemon, p \in Name :
               Left(c, p)' = IF c = d /\ p = q THEN Left(c, p) \ {e} ELSE Left(c, p)
    BY <1>6, UpdateEffect
  <2>2. ASSUME q \notin disturbed, NEW g \in committed, g <= e
        PROVE  Settled(q, g)
    <3>1. CASE g = e
      BY <2>1, <2>2, <3>1
    <3>2. CASE g < e
      <4>1. Settled(q, g) \/ g \in Left(d, q)
        BY <2>1, <2>2, <3>2
      <4>2. g \notin Left(d, q)
        BY <2>1, <3>2, <1>0
      <4>3. QED
        BY <4>1, <4>2
    <3>3. QED
      BY <2>2, <3>1, <3>2, <1>0
  <2>3. \A p \in Name \ disturbed : Covered(p)'
    BY <1>6, <2>1, <2>2, UpdateEffect DEF Covered
  <2>4. ASSUME NEW p \in Name \ disturbed, NEW c \in Daemon,
               NEW x \in Left(c, p)', NEW g \in committed, g < x
        PROVE  Settled(p, g) \/ g \in Left(c, p)'
    BY <2>1, <2>4
  <2>5. QED
    BY <1>6, <2>3, <2>4, UpdateEffect
<1>7. ASSUME NEW d \in Daemon, Interrupt(d)
      PROVE  NoGap'
  <2>1. \A p \in Name \ disturbed : Covered(p)'
    BY <1>7, InterruptEffect DEF Covered
  <2>2. QED
    BY <1>7, <2>1, InterruptEffect
<1>8. ASSUME NEW q \in Name, RebuildProjection(q)
      PROVE  NoGap'
  <2>1. Covered(q)'
    BY <1>8, RebuildEffect, PositionFacts DEF Covered
  <2>2. ASSUME NEW p \in Name \ disturbed', p # q
        PROVE  NoGapIn(p)'
    <3>1. p \in Name \ disturbed
      BY <1>8, <2>2, RebuildEffect
    <3>2. Covered(p)'
      BY <1>8, <2>2, <3>1, RebuildEffect DEF Covered
    <3>3. QED
      BY <1>8, <2>2, <3>1, <3>2, RebuildEffect
  <2>3. ASSUME q \in Name \ disturbed'
        PROVE  NoGapIn(q)'
    BY <1>8, <2>1, <2>3, RebuildEffect
  <2>4. QED
    BY <2>2, <2>3
<1>9. CASE UNCHANGED vars
  <2>1. \A p \in Name \ disturbed : Covered(p)'
    BY <1>9, StutterEffect DEF Covered
  <2>2. QED
    BY <1>9, <2>1, StutterEffect
<1>10. QED
  BY <1>1, <1>2, <1>3, <1>4, <1>5, <1>6, <1>7, <1>8, <1>9 DEF Next, ProcessBatch

\* As long as positions become visible in order, nothing at or below a checkpoint
\* is missing from a projection, however many daemons work on the same tables.
THEOREM SkipsNothing == Spec /\ [][VisibleInOrder]_vars => []NothingSkipped
<1>1. IInv /\ NoGap /\ [Next]_vars /\ [VisibleInOrder]_vars => NoGap'
  BY NextNoGap
<1>2. NoGap => NothingSkipped
  BY DEF NoGap, NoGapIn, NothingSkipped
<1>3. QED
  BY <1>1, <1>2, InitNoGap, Invariance, PTL DEF Spec

\* One writer at a time: the position it holds is above all visible ones.
OneOpen == \A o \in open : open = {o} /\ \A g \in committed : g < o

LEMMA OneOpenStep ==
  ASSUME MaxOpen = 1, FeedTypeOK, OneOpen, FeedNext
  PROVE  OneOpen' /\ VisibleInOrder
<1>1. sequence \in Nat /\ committed \subseteq 1..sequence /\ open \subseteq 1..sequence
  BY Bounds DEF FeedTypeOK
<1>2. CASE Insert
  <2>1. open = {}
    <3>1. IsFiniteSet(open)
      <4>1. IsFiniteSet(1..sequence)
        BY <1>1, FS_Interval
      <4>2. QED
        BY <4>1, <1>1, FS_Subset
    <3>2. Cardinality(open) \in Nat /\ Cardinality(open) < 1
      BY <1>2, <3>1, FS_CardinalityType DEF Insert
    <3>3. QED
      BY <3>1, <3>2, FS_EmptySet
  <2>2. open' = {sequence + 1} /\ committed' = committed
    BY <1>2, <2>1 DEF Insert
  <2>3. QED
    BY <1>1, <2>2 DEF OneOpen, VisibleInOrder
<1>3. CASE \E rows \in SUBSET open : CommitRows(rows) \/ RollbackRows(rows)
  <2>1. PICK rows \in SUBSET open : CommitRows(rows) \/ RollbackRows(rows)
    BY <1>3
  <2>2. open' = {} /\ committed' \subseteq committed \cup open
    BY <2>1 DEF CommitRows, RollbackRows, OneOpen
  <2>3. QED
    BY <2>2 DEF OneOpen, VisibleInOrder
<1>4. QED
  BY <1>2, <1>3 DEF FeedNext

\* One writer at a time makes positions visible in order.
LEMMA SerialWritersInOrder ==
  ASSUME MaxOpen = 1
  PROVE  Spec => [][VisibleInOrder]_vars
<1>1. Init => OneOpen
  BY DEF Init, FeedInit, OneOpen
<1>2. IInv /\ OneOpen /\ [Next]_vars => OneOpen' /\ [VisibleInOrder]_vars
  <2> SUFFICES ASSUME IInv, OneOpen, [Next]_vars
               PROVE  OneOpen' /\ [VisibleInOrder]_vars
    OBVIOUS
  <2>1. CASE FeedNext
    BY <2>1, OneOpenStep DEF IInv, TypeOK
  <2>2. CASE UNCHANGED feed
    BY <2>2 DEF feed, OneOpen, VisibleInOrder
  <2>3. FeedNext \/ UNCHANGED feed
    BY DEF Next, ProcessBatch, LoadCheckpoints, Fetch, HandleOk, HandleRaises,
       UpdateCheckpoint, Interrupt, RebuildProjection, vars
  <2>4. QED
    BY <2>1, <2>2, <2>3
<1>3. QED
  BY <1>1, <1>2, Invariance, PTL DEF Spec

\* NothingSkipped when the writers' transactions do not overlap, which is where the
\* run checks it.
THEOREM SkipsNothingSerially ==
  ASSUME MaxOpen = 1
  PROVE  Spec => []NothingSkipped
BY SkipsNothing, SerialWritersInOrder, PTL

--------------------------------------------------------------------------------

LEMMA InitOrder == Init => OrderInv
<1> SUFFICES ASSUME Init
             PROVE  OrderInv
  OBVIOUS
<1>1. IInv
  BY InitInv
<1>2. \A d \in Daemon, p \in Name :
        Left(d, p) = {} /\ pc[d] = "poll" /\ Applied(p) = {} /\ view[p] = <<>>
  BY DEF Init, Left, Applied, Range
<1>3. AboveCheckpoint /\ OnlyGivenUpBetween /\ CheckpointKeepsUp
  BY <1>2 DEF AboveCheckpoint, OnlyGivenUpBetween, CheckpointKeepsUp, Init
<1>4. AppliedInOrder
  BY DEF Init, AppliedInOrder
<1>5. QED
  BY <1>1, <1>3, <1>4 DEF OrderInv

\* With one daemon, no batch handles what the checkpoint has passed.
LEMMA NextAbove ==
  ASSUME NEW d \in Daemon, Daemon = {d}, IInv, AboveCheckpoint, [Next]_vars
  PROVE  AboveCheckpoint'
<1> USE DEF AboveCheckpoint
<1>0. Position \subseteq Nat /\ committed \subseteq Position
  BY PositionFacts
<1>1. CASE FeedNext /\ UNCHANGED <<tables, daemonVars, environment>>
  BY <1>1, FeedEffect
<1>2. ASSUME LoadCheckpoints(d)
      PROVE  AboveCheckpoint'
  <2>1. \A p \in Name : checkpoint[p] = 0 \/ checkpoint[p] < NextPosition(checkpoint[p])
    BY PositionFacts DEF NextPosition
  <2>2. QED
    BY <1>2, <2>1, LoadEffect
<1>3. ASSUME Fetch(d)
      PROVE  AboveCheckpoint'
  <2>1. ASSUME NEW p \in Name, NEW e \in Left(d, p)'
        PROVE  e > checkpoint[p]
    <3>1. e \in Position /\ e >= next[d][p] /\ pc[d] = "fetch"
      BY <1>3, FetchEffect DEF Left
    <3>2. checkpoint[p] = 0 \/ checkpoint[p] < next[d][p]
      BY <3>1
    <3>3. QED
      BY <3>1, <3>2, <1>0, PositionFacts
  <2>2. QED
    BY <1>3, <2>1, FetchEffect
<1>4. ASSUME HandleOk(d)
      PROVE  AboveCheckpoint'
  BY <1>4, HandleOkEffect
<1>5. ASSUME HandleRaises(d)
      PROVE  AboveCheckpoint'
  BY <1>5, HandleRaisesEffect
<1>6. ASSUME UpdateCheckpoint(d)
      PROVE  AboveCheckpoint'
  <2>1. PICK q \in Name, e \in Position :
          /\ \A g \in Left(d, q) : e <= g
          /\ \A p \in Name : checkpoint'[p] = IF p = q THEN e ELSE checkpoint[p]
          /\ \A p \in Name : Left(d, p)' = IF p = q THEN Left(d, p) \ {e} ELSE Left(d, p)
    BY <1>6, UpdateEffect
  <2>2. \A g \in Left(d, q) \ {e} : g > e
    <3>1. Left(d, q) \subseteq Nat
      BY <1>0 DEF Left
    <3>2. QED
      BY <3>1, <2>1, <1>0
  <2>3. QED
    BY <1>6, <2>1, <2>2, UpdateEffect
<1>7. ASSUME Interrupt(d)
      PROVE  AboveCheckpoint'
  BY <1>7, InterruptEffect
<1>8. ASSUME NEW q \in Name, RebuildProjection(q)
      PROVE  AboveCheckpoint'
  <2>1. \A g \in Left(d, q) : g > 0
    BY PositionFacts
  <2>2. QED
    BY <1>8, <2>1, RebuildEffect
<1>9. CASE UNCHANGED vars
  BY <1>9, StutterEffect
<1>10. QED
  BY <1>1, <1>2, <1>3, <1>4, <1>5, <1>6, <1>7, <1>8, <1>9 DEF Next, ProcessBatch

LEMMA NextOnlyGivenUp ==
  ASSUME NEW d \in Daemon, Daemon = {d}, IInv, AboveCheckpoint, OnlyGivenUpBetween,
         [Next]_vars, [VisibleInOrder]_vars
  PROVE  OnlyGivenUpBetween'
<1> USE DEF OnlyGivenUpBetween
<1>0. /\ Position \subseteq Nat /\ committed \subseteq Position
      /\ \A p \in Name : checkpoint[p] \in Nat /\ next[d][p] \in Nat
  BY PositionFacts
<1>1. CASE FeedNext /\ UNCHANGED <<tables, daemonVars, environment>>
  <2>1. /\ committed \subseteq committed' /\ committed' \subseteq Position
        /\ UNCHANGED <<checkpoint, errors, pc, next, disturbed>>
        /\ \A p \in Name : Applied(p)' = Applied(p) /\ Left(d, p)' = Left(d, p)
    BY <1>1, FeedEffect
  <2>2. \A g \in committed' \ committed, h \in committed : h < g
    BY <1>1, <2>1 DEF VisibleInOrder, vars, feed
  <2>3. \A h \in committed, g \in committed' : g < h => g \in committed
    BY <2>1, <2>2, <1>0
  <2>4. \A p \in Name : Applied(p) \cup Left(d, p) \subseteq committed
    BY PositionFacts DEF IInv, PositionsVisible
  <2>5. QED
    BY <2>1, <2>3, <2>4
<1>2. ASSUME LoadCheckpoints(d)
      PROVE  OnlyGivenUpBetween'
  <2> HIDE DEF NextPosition
  <2>1. QED
    BY <1>2, LoadEffect
<1>3. ASSUME Fetch(d)
      PROVE  OnlyGivenUpBetween'
  <2>1. ASSUME NEW p \in Name \ disturbed, NEW e \in Left(d, p)', NEW g \in committed,
               checkpoint[p] < g, g < e
        PROVE  g \in Left(d, p)'
    <3>1. next[d][p] = NextPosition(checkpoint[p])
      BY <1>3, FetchEffect
    <3>2. next[d][p] <= g
      BY <3>1, <2>1, <1>0 DEF NextPosition
    <3>3. QED
      BY <1>3, <2>1, <3>2, FetchEffect
  <2>2. QED
    BY <1>3, <2>1, FetchEffect
<1>4. ASSUME HandleOk(d)
      PROVE  OnlyGivenUpBetween'
  <2>1. PICK q \in Name, e \in Position :
          /\ e \in Left(d, q)
          /\ \A g \in Left(d, q) : e <= g
          /\ \A p \in Name :
               /\ Applied(p)' = IF p = q THEN Applied(q) \cup {e} ELSE Applied(p)
               /\ Left(d, p)' = Left(d, p)
          /\ pc'[d] = "checkpoint"
    BY <1>4, HandleOkEffect
  <2>2. ASSUME q \notin disturbed, NEW g \in committed, checkpoint[q] < g, g < e
        PROVE  g \in errors[q]
    <3>1. g \in errors[q] \cup Left(d, q)
      BY <2>1, <2>2
    <3>2. g \notin Left(d, q)
      BY <2>1, <2>2, <1>0
    <3>3. QED
      BY <3>1, <3>2
  <2>3. QED
    BY <1>4, <2>1, <2>2, HandleOkEffect
<1>5. ASSUME HandleRaises(d)
      PROVE  OnlyGivenUpBetween'
  BY <1>5, HandleRaisesEffect
<1>6. ASSUME UpdateCheckpoint(d)
      PROVE  OnlyGivenUpBetween'
  <2>1. PICK q \in Name, e \in Position :
          /\ e \in Left(d, q)
          /\ \A p \in Name : checkpoint'[p] = IF p = q THEN e ELSE checkpoint[p]
          /\ \A p \in Name : Left(d, p)' = IF p = q THEN Left(d, p) \ {e} ELSE Left(d, p)
    BY <1>6, UpdateEffect
  <2>2. checkpoint[q] < e
    BY <2>1, <1>0 DEF AboveCheckpoint
  <2>3. \A g \in committed : e < g => checkpoint[q] < g /\ g # e
    BY <2>2, <1>0
  <2>4. /\ UNCHANGED <<committed, errors, disturbed>>
        /\ pc'[d] # "fetch"
        /\ \A p \in Name : Applied(p)' = Applied(p)
    BY <1>6, UpdateEffect
  <2>5. QED
    BY <2>1, <2>3, <2>4
<1>7. ASSUME Interrupt(d)
      PROVE  OnlyGivenUpBetween'
  BY <1>7, InterruptEffect
<1>8. ASSUME NEW q \in Name, RebuildProjection(q)
      PROVE  OnlyGivenUpBetween'
  <2>1. ASSUME NEW p \in Name \ disturbed', p # q
        PROVE  /\ pc'[d] = "fetch" => next'[d][p] = NextPosition(checkpoint'[p])
               /\ p \in Name \ disturbed
    BY <1>8, <2>1, RebuildEffect
  <2>2. q \in Name \ disturbed' => pc'[d] = "poll" /\ Left(d, q)' = {} /\ Applied(q)' = {}
    BY <1>8, RebuildEffect
  <2>3. QED
    BY <1>8, <2>1, <2>2, RebuildEffect
<1>9. CASE UNCHANGED vars
  BY <1>9, StutterEffect
<1>10. QED
  BY <1>1, <1>2, <1>3, <1>4, <1>5, <1>6, <1>7, <1>8, <1>9 DEF Next, ProcessBatch

LEMMA NextKeepsUp ==
  ASSUME NEW d \in Daemon, Daemon = {d}, IInv, AboveCheckpoint, CheckpointKeepsUp, [Next]_vars
  PROVE  CheckpointKeepsUp'
<1> USE DEF CheckpointKeepsUp
<1>0. /\ Position \subseteq Nat
      /\ \A p \in Name : checkpoint[p] \in Nat /\ Applied(p) \subseteq Position
  BY PositionFacts
<1>1. CASE FeedNext /\ UNCHANGED <<tables, daemonVars, environment>>
  BY <1>1, FeedEffect
<1>2. ASSUME LoadCheckpoints(d)
      PROVE  CheckpointKeepsUp'
  BY <1>2, LoadEffect
<1>3. ASSUME Fetch(d)
      PROVE  CheckpointKeepsUp'
  <2>1. \A p \in Name : ~InFlight(d, p)
    BY <1>3, FetchEffect DEF InFlight
  <2>2. QED
    BY <1>3, <2>1, FetchEffect
<1>4. ASSUME HandleOk(d)
      PROVE  CheckpointKeepsUp'
  <2>1. PICK q \in Name, e \in Position :
          /\ e = Handled(d)
          /\ \A p \in Name :
               /\ Applied(p)' = IF p = q THEN Applied(q) \cup {e} ELSE Applied(p)
               /\ Handled(d)' = Handled(d)
               /\ InFlight(d, p)' <=> p = q
    BY <1>4, HandleOkEffect
  <2>2. UNCHANGED <<checkpoint, interrupts>> /\ \A p \in Name : ~InFlight(d, p)
    BY <1>4, HandleOkEffect
  <2>3. QED
    BY <2>1, <2>2
<1>5. ASSUME HandleRaises(d)
      PROVE  CheckpointKeepsUp'
  BY <1>5, HandleRaisesEffect
<1>6. ASSUME UpdateCheckpoint(d)
      PROVE  CheckpointKeepsUp'
  <2>1. PICK q \in Name, e \in Position :
          /\ e \in Left(d, q) /\ e = Handled(d)
          /\ \A p \in Name : p # q => ~InFlight(d, p)
          /\ \A p \in Name : checkpoint'[p] = IF p = q THEN e ELSE checkpoint[p]
    BY <1>6, UpdateEffect
  <2>2. checkpoint[q] < e
    BY <2>1, <1>0 DEF AboveCheckpoint
  <2>3. UNCHANGED interrupts /\ \A p \in Name : Applied(p)' = Applied(p)
    BY <1>6, UpdateEffect
  <2>4. ASSUME interrupts = 0, NEW p \in Name, NEW v \in Applied(p)
        PROVE  v <= checkpoint'[p]
    <3>1. v <= checkpoint[p] \/ (InFlight(d, p) /\ v = e)
      BY <2>1, <2>4
    <3>2. v \in Nat
      BY <1>0
    <3>3. QED
      BY <2>1, <2>2, <3>1, <3>2, <1>0
  <2>5. QED
    BY <2>3, <2>4
<1>7. ASSUME Interrupt(d)
      PROVE  CheckpointKeepsUp'
  <2>1. interrupts' # 0
    BY <1>7, InterruptEffect, Bounds DEF IInv, TypeOK
  <2>2. QED
    BY <2>1
<1>8. ASSUME NEW q \in Name, RebuildProjection(q)
      PROVE  CheckpointKeepsUp'
  BY <1>8, RebuildEffect
<1>9. CASE UNCHANGED vars
  BY <1>9, StutterEffect
<1>10. QED
  BY <1>1, <1>2, <1>3, <1>4, <1>5, <1>6, <1>7, <1>8, <1>9 DEF Next, ProcessBatch

\* Only HandleOk adds to a table: all it can come after is lower, or it was given up.
LEMMA NextInOrder ==
  ASSUME NEW d \in Daemon, Daemon = {d}, OrderInv, [Next]_vars
  PROVE  AppliedInOrder'
<1> USE DEF OrderInv
<1>0. /\ Position \subseteq Nat /\ committed \subseteq Position
      /\ \A p \in Name : checkpoint[p] \in Nat /\ Applied(p) \subseteq Position
      /\ interrupts \in Nat
  BY PositionFacts, Bounds DEF IInv, TypeOK
<1>1. CASE /\ \A p \in Name : errors[p] \subseteq errors'[p]
           /\ \A p \in Name : view'[p] \in {view[p], <<>>}
           /\ disturbed \subseteq disturbed'
           /\ interrupts' = 0 => interrupts = 0
  <2>1. ASSUME NEW p \in Name, p \in disturbed' => interrupts' = 0,
               NEW i \in DOMAIN view'[p], NEW j \in DOMAIN view'[p],
               i < j, view'[p][j] < view'[p][i]
        PROVE  view'[p][j] \in errors'[p]
    <3>1. view'[p] = view[p]
      <4>1. DOMAIN <<>> = {}
        OBVIOUS
      <4>2. QED
        BY <4>1, <1>1, <2>1
    <3>2. p \in disturbed => interrupts = 0
      BY <1>1, <2>1
    <3>3. QED
      BY <1>1, <2>1, <3>1, <3>2 DEF AppliedInOrder
  <2>2. QED
    BY <2>1 DEF AppliedInOrder
<1>2. ASSUME HandleOk(d)
      PROVE  AppliedInOrder'
  <2>1. PICK q \in Name, e \in Position :
          /\ e \in Left(d, q)
          /\ \A p \in Name : view'[p] = IF p = q THEN Append(view[q], e) ELSE view[p]
    BY <1>2, HandleOkEffect
  <2>2. UNCHANGED <<checkpoint, errors, interrupts, disturbed>>
        /\ \A p \in Name : ~InFlight(d, p)
    BY <1>2, HandleOkEffect
  <2>3. e \in committed /\ checkpoint[q] < e
    BY <2>1, <1>0, PositionFacts DEF AboveCheckpoint
  <2>4. ASSUME q \in disturbed => interrupts = 0, NEW v \in Applied(q), e < v
        PROVE  e \in errors[q]
    <3>1. v \in Nat
      BY <1>0
    <3>2. CASE interrupts = 0
      <4>1. v <= checkpoint[q]
        BY <3>2, <2>2 DEF CheckpointKeepsUp
      <4>2. QED
        BY <4>1, <3>1, <2>3, <2>4, <1>0
    <3>3. CASE interrupts # 0
      BY <3>3, <2>3, <2>4 DEF OnlyGivenUpBetween
    <3>4. QED
      BY <3>2, <3>3
  <2>5. view[q] \in Seq(Position)
    BY DEF IInv, TypeOK
  <2>6. /\ Len(view[q]) \in Nat
        /\ DOMAIN view[q] = 1..Len(view[q])
        /\ DOMAIN Append(view[q], e) = 1..(Len(view[q]) + 1)
        /\ \A i \in 1..Len(view[q]) : Append(view[q], e)[i] = view[q][i]
        /\ Append(view[q], e)[Len(view[q]) + 1] = e
    BY <2>5
  <2>7. ASSUME q \in disturbed => interrupts = 0,
               NEW i \in DOMAIN Append(view[q], e), NEW j \in DOMAIN Append(view[q], e), i < j,
               Append(view[q], e)[j] < Append(view[q], e)[i]
        PROVE  Append(view[q], e)[j] \in errors[q]
    <3>1. i \in 1..Len(view[q])
      BY <2>6, <2>7
    <3>2. CASE j \in 1..Len(view[q])
      BY <2>6, <2>7, <3>1, <3>2 DEF AppliedInOrder
    <3>3. CASE j = Len(view[q]) + 1
      <4>1. view[q][i] \in Applied(q)
        BY <3>1, <2>6 DEF Applied, Range
      <4>2. QED
        BY <4>1, <2>4, <2>6, <2>7, <3>1, <3>3
    <3>4. QED
      BY <2>6, <3>2, <3>3
  <2>8. QED
    BY <2>1, <2>2, <2>7 DEF AppliedInOrder
<1>3. CASE FeedNext /\ UNCHANGED <<tables, daemonVars, environment>>
  BY <1>1, <1>3, FeedEffect
<1>4. ASSUME LoadCheckpoints(d)
      PROVE  AppliedInOrder'
  BY <1>1, <1>4, LoadEffect
<1>5. ASSUME Fetch(d)
      PROVE  AppliedInOrder'
  BY <1>1, <1>5, FetchEffect
<1>6. ASSUME HandleRaises(d)
      PROVE  AppliedInOrder'
  BY <1>1, <1>6, HandleRaisesEffect
<1>7. ASSUME UpdateCheckpoint(d)
      PROVE  AppliedInOrder'
  BY <1>1, <1>7, UpdateEffect
<1>8. ASSUME Interrupt(d)
      PROVE  AppliedInOrder'
  BY <1>0, <1>1, <1>8, InterruptEffect
<1>9. ASSUME NEW q \in Name, RebuildProjection(q)
      PROVE  AppliedInOrder'
  BY <1>1, <1>9, RebuildEffect
<1>10. CASE UNCHANGED vars
  BY <1>1, <1>10, StutterEffect
<1>11. QED
  BY <1>2, <1>3, <1>4, <1>5, <1>6, <1>7, <1>8, <1>9, <1>10 DEF Next, ProcessBatch

\* One daemon writes each table in the order of the log, but for events it had
\* given up, as long as positions become visible in order.
THEOREM OneDaemonInOrder ==
  ASSUME NEW d, Daemon = {d}
  PROVE  Spec /\ [][VisibleInOrder]_vars => []AppliedInOrder
<1>1. OrderInv /\ [Next]_vars /\ [VisibleInOrder]_vars => OrderInv'
  BY NextInv, NextAbove, NextOnlyGivenUp, NextKeepsUp, NextInOrder DEF OrderInv
<1>2. OrderInv => AppliedInOrder
  BY DEF OrderInv
<1>3. QED
  BY <1>1, <1>2, InitOrder, PTL DEF Spec

\* AppliedInOrder where the run checks it: one daemon, one writer at a time.
THEOREM OneDaemonInOrderSerially ==
  ASSUME NEW d, Daemon = {d}, MaxOpen = 1
  PROVE  Spec => []AppliedInOrder
BY OneDaemonInOrder, SerialWritersInOrder, PTL

--------------------------------------------------------------------------------

LEMMA InitCount == Init => CountInv
<1> SUFFICES ASSUME Init
             PROVE  CountInv
  OBVIOUS
<1>1. IInv /\ AboveCheckpoint
  BY InitOrder DEF OrderInv
<1>2. \A p \in Name : view[p] = <<>> /\ Saved(p) = {}
  BY DEF Init, Saved, Applied, Range
<1>3. \A d \in Daemon, p \in Name : ~InFlight(d, p)
  BY DEF Init, InFlight
<1>4. Len(<<>>) = 0 /\ Cardinality({}) = 0 /\ interrupts = 0
  BY FS_EmptySet DEF Init
<1>5. Counted
  BY <1>2, <1>3, <1>4 DEF Counted, Flying
<1>6. QED
  BY <1>1, <1>3, <1>5 DEF CountInv, InFlightApplied

LEMMA CountFacts ==
  ASSUME IInv
  PROVE  /\ interrupts \in Nat
         /\ \A p \in Name :
              /\ Len(view[p]) \in Nat
              /\ IsFiniteSet(Applied(p)) /\ Cardinality(Applied(p)) \in Nat
              /\ IsFiniteSet(Saved(p)) /\ Cardinality(Saved(p)) \in Nat
<1>1. interrupts \in Nat
  BY Bounds DEF IInv, TypeOK
<1>2. ASSUME NEW p \in Name
      PROVE  /\ Len(view[p]) \in Nat
             /\ IsFiniteSet(Applied(p)) /\ Cardinality(Applied(p)) \in Nat
             /\ IsFiniteSet(Saved(p)) /\ Cardinality(Saved(p)) \in Nat
  <2>1. view[p] \in Seq(Position)
    BY DEF IInv, TypeOK
  <2>2. Len(view[p]) \in Nat
    BY <2>1
  <2>3. IsFiniteSet(Position)
    BY Bounds, FS_Interval DEF Position
  <2>4. Applied(p) \in SUBSET Position
    BY PositionFacts
  <2>5. IsFiniteSet(Applied(p))
    BY <2>3, <2>4, FS_Subset
  <2>6. Saved(p) \in SUBSET Applied(p)
    BY DEF Saved
  <2>7. IsFiniteSet(Saved(p))
    BY <2>5, <2>6, FS_Subset
  <2>8. QED
    BY <2>2, <2>5, <2>7, FS_CardinalityType
<1>3. QED
  BY <1>1, <1>2

LEMMA NextInFlightApplied ==
  ASSUME NEW d \in Daemon, Daemon = {d}, CountInv, [Next]_vars
  PROVE  InFlightApplied'
<1> USE DEF InFlightApplied, CountInv
<1>1. CASE FeedNext /\ UNCHANGED <<tables, daemonVars, environment>>
  BY <1>1, FeedEffect
<1>2. ASSUME LoadCheckpoints(d)
      PROVE  InFlightApplied'
  BY <1>2, LoadEffect
<1>3. ASSUME Fetch(d)
      PROVE  InFlightApplied'
  BY <1>3, FetchEffect
<1>4. ASSUME HandleOk(d)
      PROVE  InFlightApplied'
  BY <1>4, HandleOkEffect
<1>5. ASSUME HandleRaises(d)
      PROVE  InFlightApplied'
  BY <1>5, HandleRaisesEffect
<1>6. ASSUME UpdateCheckpoint(d)
      PROVE  InFlightApplied'
  BY <1>6, UpdateEffect
<1>7. ASSUME Interrupt(d)
      PROVE  InFlightApplied'
  BY <1>7, InterruptEffect
<1>8. ASSUME NEW q \in Name, RebuildProjection(q)
      PROVE  InFlightApplied'
  BY <1>8, RebuildEffect
<1>9. CASE UNCHANGED vars
  BY <1>9, StutterEffect
<1>10. QED
  BY <1>1, <1>2, <1>3, <1>4, <1>5, <1>6, <1>7, <1>8, <1>9 DEF Next, ProcessBatch

LEMMA NextCounted ==
  ASSUME NEW d \in Daemon, Daemon = {d}, CountInv, [Next]_vars
  PROVE  Counted'
<1> USE DEF CountInv
<1>0. /\ interrupts \in Nat
      /\ \A p \in Name :
           /\ Len(view[p]) \in Nat
           /\ Cardinality(Saved(p)) \in Nat
           /\ Len(view[p]) - Cardinality(Saved(p)) <= interrupts + Flying(d, p)
  BY CountFacts DEF Counted
<1>1. CASE /\ UNCHANGED <<view, checkpoint, interrupts>>
           /\ \A p \in Name : Applied(p)' = Applied(p) /\ (InFlight(d, p)' <=> InFlight(d, p))
  <2>1. \A p \in Name : Saved(p)' = Saved(p) /\ Flying(d, p)' = Flying(d, p)
    BY <1>1 DEF Saved, Flying
  <2>2. QED
    BY <1>0, <1>1, <2>1 DEF Counted
<1>2. CASE FeedNext /\ UNCHANGED <<tables, daemonVars, environment>>
  BY <1>1, <1>2, FeedEffect
<1>3. ASSUME LoadCheckpoints(d)
      PROVE  Counted'
  BY <1>1, <1>3, LoadEffect
<1>4. ASSUME Fetch(d)
      PROVE  Counted'
  <2>1. \A p \in Name : ~InFlight(d, p)
    BY <1>4, FetchEffect DEF InFlight
  <2>2. QED
    BY <1>1, <1>4, <2>1, FetchEffect
<1>5. ASSUME HandleOk(d)
      PROVE  Counted'
  <2>1. PICK q \in Name, e \in Position :
          /\ e \in Left(d, q)
          /\ \A p \in Name :
               /\ view'[p] = IF p = q THEN Append(view[q], e) ELSE view[p]
               /\ Applied(p)' = IF p = q THEN Applied(q) \cup {e} ELSE Applied(p)
               /\ InFlight(d, p)' <=> p = q
    BY <1>5, HandleOkEffect
  <2>2. UNCHANGED <<checkpoint, interrupts>> /\ \A p \in Name : ~InFlight(d, p)
    BY <1>5, HandleOkEffect
  <2>3. e > checkpoint[q]
    BY <2>1 DEF AboveCheckpoint
  <2>4. ~(e <= checkpoint[q])
    BY <2>1, <2>3, PositionFacts
  <2>5. \A p \in Name : Saved(p)' = Saved(p)
    BY <2>1, <2>2, <2>4 DEF Saved
  <2>6. Len(Append(view[q], e)) = Len(view[q]) + 1
    <3>1. view[q] \in Seq(Position)
      BY DEF IInv, TypeOK
    <3>2. QED
      BY <3>1
  <2>7. /\ Len(view'[q]) = Len(view[q]) + 1
        /\ \A p \in Name : p # q => view'[p] = view[p]
        /\ \A p \in Name : Flying(d, p)' = IF p = q THEN 1 ELSE 0
        /\ \A p \in Name : Flying(d, p) = 0
    BY <2>1, <2>2, <2>6 DEF Flying
  <2>8. QED
    BY <1>0, <2>2, <2>5, <2>7 DEF Counted
<1>6. ASSUME HandleRaises(d)
      PROVE  Counted'
  BY <1>1, <1>6, HandleRaisesEffect
<1>7. ASSUME UpdateCheckpoint(d)
      PROVE  Counted'
  <2>1. PICK q \in Name, e \in Position :
          /\ e \in Left(d, q) /\ InFlight(d, q) /\ e = Handled(d)
          /\ \A p \in Name : p # q => ~InFlight(d, p)
          /\ \A p \in Name : checkpoint'[p] = IF p = q THEN e ELSE checkpoint[p]
    BY <1>7, UpdateEffect
  <2>2. /\ UNCHANGED <<view, interrupts>>
        /\ \A p \in Name : Applied(p)' = Applied(p) /\ ~InFlight(d, p)'
    BY <1>7, UpdateEffect
  <2>3. checkpoint[q] < e /\ checkpoint[q] \in Nat /\ e \in Nat
    BY <2>1, PositionFacts DEF AboveCheckpoint
  <2>4. \A p \in Name : p # q => Saved(p)' = Saved(p)
    BY <2>1, <2>2 DEF Saved
  <2>5. Len(view[q]) - Cardinality(Saved(q)') <= interrupts
    <3>1. IsFiniteSet(Saved(q)') /\ Cardinality(Saved(q)') \in Nat
      <4>1. Saved(q)' \in SUBSET Applied(q)
        BY <2>2 DEF Saved
      <4>2. QED
        BY <4>1, CountFacts, FS_Subset, FS_CardinalityType
    <3>2. CASE view[q] = <<>>
      BY <1>0, <3>1, <3>2
    <3>3. CASE e \in Applied(q)
      <4>1. Saved(q) \cup {e} \in SUBSET Saved(q)' /\ e \notin Saved(q)
        <5>1. Saved(q)' = {g \in Applied(q) : g <= e}
          BY <2>1, <2>2 DEF Saved
        <5>2. \A g \in Applied(q) : g \in Nat
          BY PositionFacts
        <5>3. \A g \in Saved(q) : g \in Applied(q) /\ g <= e /\ g # e
          BY <5>2, <2>3 DEF Saved
        <5>4. e <= e
          BY <2>3
        <5>5. QED
          BY <5>1, <5>3, <5>4, <3>3
      <4>2. /\ IsFiniteSet(Saved(q) \cup {e})
            /\ Cardinality(Saved(q) \cup {e}) = Cardinality(Saved(q)) + 1
        BY <4>1, CountFacts, FS_AddElement
      <4>3. Cardinality(Saved(q)) + 1 <= Cardinality(Saved(q)')
        BY <3>1, <4>1, <4>2, FS_Subset
      <4>4. Flying(d, q) = 1
        BY <2>1 DEF Flying
      <4>5. QED
        BY <1>0, <3>1, <4>3, <4>4
    <3>4. QED
      BY <2>1, <3>2, <3>3 DEF InFlightApplied
  <2>6. \A p \in Name : Flying(d, p)' = 0 /\ (p # q => Flying(d, p) = 0)
    BY <2>1, <2>2 DEF Flying
  <2>7. QED
    BY <1>0, <2>2, <2>4, <2>5, <2>6 DEF Counted
<1>8. ASSUME Interrupt(d)
      PROVE  Counted'
  <2>1. /\ UNCHANGED <<view, checkpoint>>
        /\ interrupts' = interrupts + 1
        /\ \A p \in Name : Applied(p)' = Applied(p) /\ ~InFlight(d, p)'
    BY <1>8, InterruptEffect
  <2>2. \A p \in Name : Saved(p)' = Saved(p) /\ Flying(d, p)' = 0 /\ Flying(d, p) \in {0, 1}
    BY <2>1 DEF Saved, Flying
  <2>3. QED
    BY <1>0, <2>1, <2>2 DEF Counted
<1>9. ASSUME NEW q \in Name, RebuildProjection(q)
      PROVE  Counted'
  <2>1. /\ UNCHANGED interrupts
        /\ \A p \in Name :
             /\ view'[p] = IF p = q THEN <<>> ELSE view[p]
             /\ checkpoint'[p] = IF p = q THEN 0 ELSE checkpoint[p]
             /\ Applied(p)' = IF p = q THEN {} ELSE Applied(p)
             /\ InFlight(d, p)' <=> InFlight(d, p)
    BY <1>9, RebuildEffect
  <2>2. \A p \in Name : /\ Saved(p)' = IF p = q THEN {} ELSE Saved(p)
                        /\ Flying(d, p)' = Flying(d, p)
                        /\ Flying(d, p) \in {0, 1}
    BY <2>1 DEF Saved, Flying
  <2>3. Len(<<>>) = 0 /\ Cardinality({}) = 0
    BY FS_EmptySet
  <2>4. \A p \in Name : Len(view'[p]) - Cardinality(Saved(p)') <= interrupts + Flying(d, p)
    <3>1. TAKE p \in Name
    <3>2. CASE p = q
      <4>1. view'[p] = <<>> /\ Saved(p)' = {}
        BY <2>1, <2>2, <3>2
      <4>2. QED
        BY <4>1, <1>0, <2>2, <2>3
    <3>3. CASE p # q
      BY <1>0, <2>1, <2>2, <3>3
    <3>4. QED
      BY <3>2, <3>3
  <2>5. QED
    BY <2>1, <2>2, <2>4 DEF Counted
<1>10. CASE UNCHANGED vars
  BY <1>1, <1>10, StutterEffect
<1>11. QED
  BY <1>2, <1>3, <1>4, <1>5, <1>6, <1>7, <1>8, <1>9, <1>10 DEF Next, ProcessBatch

\* One daemon applies an event twice to a table at most once for each batch cut
\* short, whatever the writers do, and whatever is rebuilt.
THEOREM OneDaemonCounts ==
  ASSUME NEW d, Daemon = {d}
  PROVE  Spec => []DuplicatesNeedInterrupts
<1>1. CountInv /\ [Next]_vars => CountInv'
  BY NextInv, NextAbove, NextInFlightApplied, NextCounted DEF CountInv
<1>2. CountInv => DuplicatesNeedInterrupts
  <2> SUFFICES ASSUME CountInv, NEW p \in Name
               PROVE  Len(view[p]) - Cardinality(Applied(p)) <= interrupts
    BY DEF DuplicatesNeedInterrupts
  <2>1. /\ interrupts \in Nat /\ Len(view[p]) \in Nat
        /\ IsFiniteSet(Applied(p)) /\ Cardinality(Applied(p)) \in Nat
        /\ IsFiniteSet(Saved(p)) /\ Cardinality(Saved(p)) \in Nat
        /\ Len(view[p]) - Cardinality(Saved(p)) <= interrupts + Flying(d, p)
    BY CountFacts DEF CountInv, Counted
  <2>2. Saved(p) \in SUBSET Applied(p)
    BY DEF Saved
  <2>3. CASE InFlight(d, p) /\ view[p] # <<>>
    <3>1. Handled(d) \in Applied(p) /\ Handled(d) > checkpoint[p]
      <4>1. Busy(d) /\ p = Handling(d)
        BY <2>3 DEF InFlight, Busy
      <4>2. Handled(d) \in Left(d, p)
        BY <4>1, WorkingOn DEF CountInv, IInv
      <4>3. QED
        BY <2>3, <4>2 DEF CountInv, InFlightApplied, AboveCheckpoint
    <3>2. Handled(d) \notin Saved(p)
      BY <3>1, PositionFacts DEF Saved, CountInv
    <3>3. Saved(p) # Applied(p)
      BY <3>1, <3>2
    <3>4. Cardinality(Saved(p)) < Cardinality(Applied(p))
      BY <2>1, <2>2, <3>3, FS_Subset
    <3>5. QED
      BY <2>1, <2>3, <3>4 DEF Flying
  <2>4. CASE view[p] = <<>>
    BY <2>1, <2>4
  <2>5. CASE ~InFlight(d, p)
    <3>1. Cardinality(Saved(p)) <= Cardinality(Applied(p))
      BY <2>1, <2>2, FS_Subset
    <3>2. QED
      BY <2>1, <2>5, <3>1 DEF Flying
  <2>6. QED
    BY <2>3, <2>4, <2>5
<1>3. QED
  BY <1>1, <1>2, InitCount, PTL DEF Spec

================================================================================
