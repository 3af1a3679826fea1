--------------------------- MODULE EventStoreProofs ----------------------------
(***************************************************************************)
(* Proofs about EventStore, for every set of streams and of calls, every   *)
(* pool size and every batch size.                                         *)
(***************************************************************************)
EXTENDS EventStore, TLAPS, SequenceTheorems, FiniteSetTheorems

--------------------------------------------------------------------------------

\* Rows of events, committed or still private to an open transaction.
AllRows == events \cup UNION {staged[c] : c \in Call}

\* A call past its check holds the lock of its row, the row is as the check left
\* it, and a lock is only ever held by a call working on that stream.
LockDiscipline ==
  /\ \A c \in Call : pc[c] = "insert" =>
       /\ lock[req[c].stream] = c
       /\ req[c].stream \notin archived
       /\ req[c].expected \in {AnyVersion, current_version[req[c].stream]}
  /\ \A s \in Stream : lock[s] # NoCall =>
       /\ pc[lock[s]] \in {"refetch", "insert"}
       /\ req[lock[s]].stream = s

\* What an open transaction has inserted continues its stream without a gap.
StagedRows ==
  \A c \in Call :
    /\ pc[c] # "insert" => staged[c] = {}
    /\ pc[c] = "insert" =>
         /\ new_version[c] >= current_version[req[c].stream]
         /\ new_version[c] <= current_version[req[c].stream] + req[c].size
         /\ {e.position : e \in staged[c]}
              = (current_version[req[c].stream] + 1)..new_version[c]
         /\ \A e, f \in staged[c] : e.position = f.position => e = f
    /\ \A e \in staged[c] : e.call = c /\ e.stream = req[c].stream

\* GlobalFollowsStreamOrder, for the rows still private as well.
GlobalOrder ==
  /\ \A e \in AllRows : e.global <= sequence
  /\ \A e, f \in AllRows :
       /\ e.global = f.global => e = f
       /\ e.stream = f.stream /\ e.position < f.position => e.global < f.global

\* A committed call that named a version owns the position after it.
ExpectedHonoured ==
  \A c \in Call :
    EventsBy(c) # {} /\ req[c].expected # AnyVersion =>
      \E e \in EventsBy(c) : /\ e.stream = req[c].stream
                             /\ e.position = req[c].expected + 1

IInv ==
  /\ TypeOK
  /\ LockDiscipline
  /\ StagedRows
  /\ DensePositions
  /\ GlobalOrder
  /\ OutboxMatchesEvents
  /\ AllOrNothing
  /\ ExpectedHonoured

--------------------------------------------------------------------------------

LEMMA InitInv == Init => IInv
<1> SUFFICES ASSUME Init PROVE IInv
  OBVIOUS
<1>1. TypeOK
  BY ConstantsAssumption DEF Init, TypeOK, PC
<1>2. AllRows = {}
  BY DEF Init, AllRows
<1>3. QED
  BY <1>1, <1>2, ConstantsAssumption
  DEF Init, IInv, TypeOK, LockDiscipline, StagedRows, DensePositions, EventsOf,
      GlobalOrder, OutboxMatchesEvents, AllOrNothing, EventsBy, ExpectedHonoured

\* What can be said of a step that writes no table of the log itself.
LEMMA QuietTables ==
  ASSUME IInv, UNCHANGED <<current_version, events, outbox>>
  PROVE  DensePositions' /\ OutboxMatchesEvents'
BY DEF IInv, DensePositions, EventsOf, OutboxMatchesEvents

LEMMA RollbackInv ==
  ASSUME IInv, NEW c \in Call, NEW outcome \in Finished \ {"returned"},
         pc[c] \in InTransaction, Rollback(c, outcome)
  PROVE  IInv'
<1> USE DEF Rollback, EndTransaction, tables
<1>1. TypeOK'
  BY ConstantsAssumption DEF IInv, TypeOK, PC, Finished
<1>2. LockDiscipline'
  <2>1. ASSUME NEW d \in Call, pc'[d] = "insert"
        PROVE  /\ lock'[req'[d].stream] = d
               /\ req'[d].stream \notin archived'
               /\ req'[d].expected \in {AnyVersion, current_version'[req'[d].stream]}
    <3>1. d # c /\ pc[d] = "insert"
      BY <2>1 DEF IInv, TypeOK, Finished
    <3>2. req[d].stream \in Stream
      BY DEF IInv, TypeOK, Request
    <3>3. QED
      BY <3>1, <3>2 DEF IInv, TypeOK, LockDiscipline
  <2>2. ASSUME NEW s \in Stream, lock'[s] # NoCall
        PROVE  pc'[lock'[s]] \in {"refetch", "insert"} /\ req'[lock'[s]].stream = s
    <3>1. lock'[s] = lock[s] /\ lock[s] # c /\ lock[s] # NoCall
      BY <2>2
    <3>2. QED
      BY <3>1 DEF IInv, TypeOK, LockDiscipline
  <2>3. QED
    BY <2>1, <2>2 DEF LockDiscipline
<1>3. StagedRows'
  BY DEF IInv, TypeOK, StagedRows, Finished, InTransaction
<1>4. DensePositions' /\ OutboxMatchesEvents'
  BY QuietTables
<1>5. GlobalOrder'
  <2>1. AllRows' \subseteq AllRows
    BY DEF IInv, TypeOK, AllRows
  <2>2. QED
    BY <2>1 DEF IInv, GlobalOrder
<1>6. AllOrNothing'
  BY DEF IInv, TypeOK, AllOrNothing, EventsBy, InTransaction, Finished
<1>7. ExpectedHonoured'
  BY DEF IInv, ExpectedHonoured, EventsBy
<1>8. QED
  BY <1>1, <1>2, <1>3, <1>4, <1>5, <1>6, <1>7 DEF IInv

\* The check that accepts a call, on a row free or already the call's own.
LEMMA CheckRowInv ==
  ASSUME IInv, NEW c \in Call, pc[c] \in {"select", "refetch"},
         lock[req[c].stream] \in {NoCall, c}, CheckRow(c, req[c].stream)
  PROVE  IInv'
<1> DEFINE s == req[c].stream
<1>1. CASE Rollback(c, "stream_archived") \/ Rollback(c, "conflict")
  BY <1>1, RollbackInv DEF InTransaction, Finished
<1>2. CASE /\ s \notin archived
           /\ req[c].expected \in {AnyVersion, current_version[s]}
           /\ lock' = [lock EXCEPT ![s] = c]
           /\ new_version' = [new_version EXCEPT ![c] = current_version[s]]
           /\ pc' = [pc EXCEPT ![c] = "insert"]
           /\ UNCHANGED <<tables, req, staged>>
  <2> USE <1>2 DEF tables
  <2>0. s \in Stream /\ req[c] \in Request
    BY DEF IInv, TypeOK, Request
  <2>1. TypeOK'
    BY <2>0, ConstantsAssumption DEF IInv, TypeOK, PC, InTransaction
  <2>2. LockDiscipline'
    <3>1. ASSUME NEW d \in Call, pc'[d] = "insert"
          PROVE  /\ lock'[req'[d].stream] = d
                 /\ req'[d].stream \notin archived'
                 /\ req'[d].expected \in {AnyVersion, current_version'[req'[d].stream]}
      <4>1. CASE d = c
        BY <4>1, <2>0 DEF IInv, TypeOK
      <4>2. CASE d # c
        <5>1. pc[d] = "insert" /\ lock[req[d].stream] = d
          BY <4>2, <3>1 DEF IInv, TypeOK, LockDiscipline
        <5>2. req[d].stream # s
          BY <4>2, <5>1, ConstantsAssumption
        <5>3. QED
          BY <5>1, <5>2, <2>0 DEF IInv, TypeOK, LockDiscipline
      <4>3. QED
        BY <4>1, <4>2
    <3>2. ASSUME NEW t \in Stream, lock'[t] # NoCall
          PROVE  pc'[lock'[t]] \in {"refetch", "insert"} /\ req'[lock'[t]].stream = t
      <4>1. CASE t = s
        BY <4>1, <2>0 DEF IInv, TypeOK
      <4>2. CASE t # s
        BY <4>2, <3>2, <2>0 DEF IInv, TypeOK, LockDiscipline
      <4>3. QED
        BY <4>1, <4>2
    <3>3. QED
      BY <3>1, <3>2 DEF LockDiscipline
  <2>3. StagedRows'
    <3> SUFFICES ASSUME NEW d \in Call
                 PROVE  /\ pc'[d] # "insert" => staged'[d] = {}
                        /\ pc'[d] = "insert" =>
                             /\ new_version'[d] >= current_version'[req'[d].stream]
                             /\ new_version'[d] <= current_version'[req'[d].stream] + req'[d].size
                             /\ {e.position : e \in staged'[d]}
                                  = (current_version'[req'[d].stream] + 1)..new_version'[d]
                             /\ \A e, f \in staged'[d] : e.position = f.position => e = f
                        /\ \A e \in staged'[d] : e.call = d /\ e.stream = req'[d].stream
      BY DEF StagedRows
    <3>1. CASE d # c
      BY <3>1 DEF IInv, TypeOK, StagedRows
    <3>2. CASE d = c
      <4>1. staged[c] = {}
        BY DEF IInv, StagedRows
      <4>2. new_version'[c] = current_version[s] /\ current_version[s] \in Nat
        BY <2>0 DEF IInv, TypeOK
      <4>3. req[c].size \in Nat
        BY <2>0, ConstantsAssumption DEF Request
      <4>4. (current_version[s] + 1)..current_version[s] = {}
        BY <4>2
      <4>5. QED
        BY <3>2, <4>1, <4>2, <4>3, <4>4
    <3>3. QED
      BY <3>1, <3>2
  <2>4. DensePositions' /\ OutboxMatchesEvents'
    BY QuietTables
  <2>5. GlobalOrder'
    BY DEF IInv, GlobalOrder, AllRows
  <2>6. AllOrNothing'
    BY DEF IInv, TypeOK, AllOrNothing, EventsBy
  <2>7. ExpectedHonoured'
    BY DEF IInv, ExpectedHonoured, EventsBy
  <2>8. QED
    BY <2>1, <2>2, <2>3, <2>4, <2>5, <2>6, <2>7 DEF IInv
<1>3. QED
  BY <1>1, <1>2 DEF CheckRow, Accepts, LockRow, StartVersion

\* Steps that move one call between two states with no row of its own.
LEMMA AcquireInv ==
  ASSUME IInv, NEW c \in Call, NEW to \in {"select", "create"},
         pc[c] \in {"acquire", "select"}, pc' = [pc EXCEPT ![c] = to],
         UNCHANGED <<tables, lock, req, new_version, staged>>
  PROVE  IInv'
<1> USE DEF tables
<1>1. TypeOK'
  BY DEF IInv, TypeOK, PC, InTransaction
<1>2. LockDiscipline'
  BY DEF IInv, TypeOK, LockDiscipline
<1>3. StagedRows'
  BY DEF IInv, TypeOK, StagedRows
<1>4. DensePositions' /\ OutboxMatchesEvents'
  BY QuietTables
<1>5. GlobalOrder'
  BY DEF IInv, GlobalOrder, AllRows
<1>6. AllOrNothing' /\ ExpectedHonoured'
  BY DEF IInv, TypeOK, AllOrNothing, ExpectedHonoured, EventsBy
<1>7. QED
  BY <1>1, <1>2, <1>3, <1>4, <1>5, <1>6 DEF IInv

LEMMA CreateRowInv ==
  ASSUME IInv, NEW c \in Call, CreateRow(c)
  PROVE  IInv'
<1> USE DEF CreateRow, tables
<1>0. req[c].stream \in Stream
  BY DEF IInv, TypeOK, Request
<1>1. TypeOK'
  BY <1>0 DEF IInv, TypeOK, PC, InTransaction
<1>2. LockDiscipline'
  <2>1. ASSUME NEW d \in Call, pc'[d] = "insert"
        PROVE  /\ lock'[req'[d].stream] = d
               /\ req'[d].stream \notin archived'
               /\ req'[d].expected \in {AnyVersion, current_version'[req'[d].stream]}
    <3>1. pc[d] = "insert" /\ req[d].stream \in Stream
      BY <2>1 DEF IInv, TypeOK, Request
    <3>2. lock[req[d].stream] = d /\ d # NoCall
      BY <3>1, ConstantsAssumption DEF IInv, LockDiscipline
    <3>3. lock'[req[d].stream] = d
      BY <3>1, <3>2, <1>0 DEF IInv, TypeOK
    <3>4. QED
      BY <3>1, <3>3 DEF IInv, LockDiscipline
  <2>2. ASSUME NEW t \in Stream, lock'[t] # NoCall
        PROVE  pc'[lock'[t]] \in {"refetch", "insert"} /\ req'[lock'[t]].stream = t
    <3>1. CASE lock'[t] = c /\ t = req[c].stream
      BY <3>1 DEF IInv, TypeOK
    <3>2. CASE lock'[t] = lock[t]
      <4>1. lock[t] \in Call /\ lock[t] # c
        BY <3>2, <2>2 DEF IInv, TypeOK, LockDiscipline
      <4>2. QED
        BY <3>2, <4>1, <2>2 DEF IInv, TypeOK, LockDiscipline
    <3>3. QED
      BY <3>1, <3>2, <1>0 DEF IInv, TypeOK
  <2>3. QED
    BY <2>1, <2>2 DEF LockDiscipline
<1>3. StagedRows'
  BY DEF IInv, TypeOK, StagedRows
<1>4. DensePositions' /\ OutboxMatchesEvents'
  BY QuietTables
<1>5. GlobalOrder'
  BY DEF IInv, GlobalOrder, AllRows
<1>6. AllOrNothing' /\ ExpectedHonoured'
  BY DEF IInv, TypeOK, AllOrNothing, ExpectedHonoured, EventsBy
<1>7. QED
  BY <1>1, <1>2, <1>3, <1>4, <1>5, <1>6 DEF IInv

LEMMA InsertEventInv ==
  ASSUME IInv, NEW c \in Call, InsertEvent(c)
  PROVE  IInv'
<1> DEFINE s == req[c].stream
<1> DEFINE row == [stream |-> s, position |-> new_version[c] + 1,
                   global |-> sequence + 1, call |-> c]
<1>0. /\ s \in Stream /\ req[c].size \in Nat /\ req[c] \in Request
      /\ new_version[c] \in Nat /\ sequence \in Nat /\ current_version[s] \in Nat
  BY ConstantsAssumption DEF IInv, TypeOK, Request
<1>1. /\ pc[c] = "insert" /\ lock[s] = c
      /\ new_version[c] < current_version[s] + req[c].size
      /\ staged' = [staged EXCEPT ![c] = @ \cup {row}]
      /\ new_version' = [new_version EXCEPT ![c] = @ + 1]
      /\ sequence' = sequence + 1
      /\ UNCHANGED <<registered, current_version, archived, lock, events, outbox,
                     req, pc>>
  BY DEF InsertEvent, IInv, LockDiscipline
<1>2. row \in Event
  BY <1>0 DEF Event
<1>3. TypeOK'
  BY <1>0, <1>1, <1>2 DEF IInv, TypeOK
<1>4. LockDiscipline'
  BY <1>1 DEF IInv, LockDiscipline
<1>5. \A e \in AllRows : e \in Event
  BY DEF IInv, TypeOK, AllRows
<1>6. ASSUME NEW e \in AllRows, e.stream = s
      PROVE  e.position <= new_version[c]
  <2>1. CASE e \in events
    <3>1. e.position \in 1..current_version[s]
      BY <1>0, <1>6, <2>1 DEF IInv, DensePositions, EventsOf
    <3>2. current_version[s] <= new_version[c]
      BY <1>1 DEF IInv, StagedRows
    <3>3. QED
      BY <3>1, <3>2, <1>0
  <2>2. ASSUME NEW d \in Call, e \in staged[d]
        PROVE  e.position <= new_version[c]
    <3>1. pc[d] = "insert" /\ req[d].stream = s
      BY <2>2, <1>6 DEF IInv, StagedRows
    <3>2. d = c
      BY <3>1, <1>1 DEF IInv, LockDiscipline
    <3>3. e.position \in (current_version[s] + 1)..new_version[c]
      BY <2>2, <3>2, <1>1 DEF IInv, StagedRows
    <3>4. QED
      BY <3>3, <1>0
  <2>3. QED
    BY <2>1, <2>2 DEF AllRows
<1>7. StagedRows'
  <2> SUFFICES ASSUME NEW d \in Call
               PROVE  /\ pc'[d] # "insert" => staged'[d] = {}
                      /\ pc'[d] = "insert" =>
                           /\ new_version'[d] >= current_version'[req'[d].stream]
                           /\ new_version'[d] <= current_version'[req'[d].stream] + req'[d].size
                           /\ {e.position : e \in staged'[d]}
                                = (current_version'[req'[d].stream] + 1)..new_version'[d]
                           /\ \A e, f \in staged'[d] : e.position = f.position => e = f
                      /\ \A e \in staged'[d] : e.call = d /\ e.stream = req'[d].stream
    BY DEF StagedRows
  <2>1. CASE d # c
    BY <2>1, <1>1 DEF IInv, TypeOK, StagedRows
  <2>2. CASE d = c
    <3>1. staged'[c] = staged[c] \cup {row} /\ new_version'[c] = new_version[c] + 1
      BY <1>1 DEF IInv, TypeOK
    <3>2. /\ current_version[s] <= new_version[c]
          /\ {e.position : e \in staged[c]} = (current_version[s] + 1)..new_version[c]
          /\ \A e, f \in staged[c] : e.position = f.position => e = f
          /\ \A e \in staged[c] : e.call = c /\ e.stream = s
      BY <1>1 DEF IInv, StagedRows
    <3>3. {e.position : e \in staged'[c]}
            = {e.position : e \in staged[c]} \cup {new_version[c] + 1}
      <4>1. row.position = new_version[c] + 1
        OBVIOUS
      <4> HIDE DEF row
      <4>2. QED
        BY <3>1, <4>1
    <3>4. (current_version[s] + 1)..(new_version[c] + 1)
            = ((current_version[s] + 1)..new_version[c]) \cup {new_version[c] + 1}
      BY <1>0, <3>2
    <3>5. \A e \in staged[c] : e.position # new_version[c] + 1
      <4> SUFFICES ASSUME NEW e \in staged[c] PROVE e.position # new_version[c] + 1
        OBVIOUS
      <4>1. e.position \in (current_version[s] + 1)..new_version[c]
        BY <3>2
      <4>2. QED
        BY <4>1, <1>0
    <3>6. \A e, f \in staged'[c] : e.position = f.position => e = f
      BY <3>1, <3>2, <3>5
    <3>7. QED
      BY <2>2, <1>0, <1>1, <3>1, <3>2, <3>3, <3>4, <3>6
  <2>3. QED
    BY <2>1, <2>2
<1>8. DensePositions' /\ OutboxMatchesEvents'
  BY <1>1, QuietTables
<1>9. GlobalOrder'
  <2>1. AllRows' = AllRows \cup {row}
    BY <1>1 DEF AllRows, IInv, TypeOK
  <2>2. \A e \in AllRows : e.global \in Nat /\ e.position \in Nat /\ e.global <= sequence
    BY <1>5 DEF IInv, GlobalOrder, Event
  <2>3. \A e \in AllRows' : e.global <= sequence'
    BY <2>1, <2>2, <1>0, <1>1
  <2>4. ASSUME NEW e \in AllRows', NEW f \in AllRows'
        PROVE  /\ e.global = f.global => e = f
               /\ e.stream = f.stream /\ e.position < f.position => e.global < f.global
    <3>1. CASE e \in AllRows /\ f \in AllRows
      BY <3>1 DEF IInv, GlobalOrder
    <3>2. CASE e \in AllRows /\ f = row
      BY <3>2, <2>2, <1>0
    <3>3. CASE e = row /\ f \in AllRows
      <4>1. f.stream = s => f.position <= new_version[c]
        BY <3>3, <1>6
      <4>2. QED
        BY <3>3, <2>2, <4>1, <1>0
    <3>4. CASE e = row /\ f = row
      BY <3>4, <1>0
    <3>5. QED
      BY <3>1, <3>2, <3>3, <3>4, <2>1
  <2>5. QED
    BY <2>3, <2>4 DEF GlobalOrder
<1>10. AllOrNothing'
  <2>1. EventsBy(c) = {}
    BY <1>1 DEF IInv, AllOrNothing
  <2>2. QED
    BY <2>1, <1>1 DEF IInv, TypeOK, AllOrNothing, EventsBy
<1>11. ExpectedHonoured'
  BY <1>1 DEF IInv, ExpectedHonoured, EventsBy
<1>12. QED
  BY <1>3, <1>4, <1>7, <1>8, <1>9, <1>10, <1>11 DEF IInv

LEMMA CommitInv ==
  ASSUME IInv, NEW c \in Call, Commit(c)
  PROVE  IInv'
<1> DEFINE s == req[c].stream
<1>0. /\ s \in Stream /\ req[c].size \in Nat \ {0} /\ req[c] \in Request
      /\ new_version[c] \in Nat /\ current_version[s] \in Nat
  BY ConstantsAssumption DEF IInv, TypeOK, Request
<1>1. PICK answer \in {"returned", "failed"} : EndTransaction(c, answer)
  BY DEF Commit
<1>2. /\ pc[c] = "insert"
      /\ new_version[c] = current_version[s] + req[c].size
      /\ events' = events \cup staged[c]
      /\ outbox' = outbox \cup {e.global : e \in staged[c]}
      /\ current_version' = [current_version EXCEPT ![s] = new_version[c]]
      /\ registered' = registered \cup {s}
      /\ UNCHANGED <<archived, sequence, new_version>>
  BY DEF Commit, OutboxRows
<1>3. /\ pc' = [pc EXCEPT ![c] = answer]
      /\ lock' = [t \in Stream |-> IF lock[t] = c THEN NoCall ELSE lock[t]]
      /\ staged' = [staged EXCEPT ![c] = {}]
      /\ UNCHANGED req
  BY <1>1 DEF EndTransaction
<1>4. /\ lock[s] = c
      /\ s \notin archived
      /\ req[c].expected \in {AnyVersion, current_version[s]}
      /\ {e.position : e \in staged[c]} = (current_version[s] + 1)..new_version[c]
      /\ \A e, f \in staged[c] : e.position = f.position => e = f
      /\ \A e \in staged[c] : e.call = c /\ e.stream = s
  BY <1>2 DEF IInv, LockDiscipline, StagedRows
<1>5. TypeOK'
  <2>1. staged[c] \subseteq Event
    BY DEF IInv, TypeOK
  <2>2. {e.global : e \in staged[c]} \subseteq Nat
    BY <2>1 DEF Event
  <2>3. QED
    BY <1>0, <1>2, <1>3, <2>1, <2>2, ConstantsAssumption
    DEF IInv, TypeOK, PC, Finished
<1>6. LockDiscipline'
  <2>1. ASSUME NEW d \in Call, pc'[d] = "insert"
        PROVE  /\ lock'[req'[d].stream] = d
               /\ req'[d].stream \notin archived'
               /\ req'[d].expected \in {AnyVersion, current_version'[req'[d].stream]}
    <3>1. d # c /\ pc[d] = "insert" /\ req[d].stream \in Stream
      BY <2>1, <1>3 DEF IInv, TypeOK, Request
    <3>2. lock[req[d].stream] = d
      BY <3>1 DEF IInv, LockDiscipline
    <3>3. req[d].stream # s
      BY <3>1, <3>2, <1>4
    <3>4. current_version'[req[d].stream] = current_version[req[d].stream]
      BY <3>1, <3>3, <1>2 DEF IInv, TypeOK
    <3>5. QED
      BY <3>1, <3>2, <3>4, <1>2, <1>3 DEF IInv, LockDiscipline
  <2>2. ASSUME NEW t \in Stream, lock'[t] # NoCall
        PROVE  pc'[lock'[t]] \in {"refetch", "insert"} /\ req'[lock'[t]].stream = t
    <3>1. lock'[t] = lock[t] /\ lock[t] # c /\ lock[t] # NoCall
      BY <2>2, <1>3
    <3>2. QED
      BY <3>1, <1>3 DEF IInv, TypeOK, LockDiscipline
  <2>3. QED
    BY <2>1, <2>2 DEF LockDiscipline
<1>7. StagedRows'
  <2> SUFFICES ASSUME NEW d \in Call
               PROVE  /\ pc'[d] # "insert" => staged'[d] = {}
                      /\ pc'[d] = "insert" =>
                           /\ new_version'[d] >= current_version'[req'[d].stream]
                           /\ new_version'[d] <= current_version'[req'[d].stream] + req'[d].size
                           /\ {e.position : e \in staged'[d]}
                                = (current_version'[req'[d].stream] + 1)..new_version'[d]
                           /\ \A e, f \in staged'[d] : e.position = f.position => e = f
                      /\ \A e \in staged'[d] : e.call = d /\ e.stream = req'[d].stream
    BY DEF StagedRows
  <2>1. CASE d = c
    BY <2>1, <1>1, <1>3 DEF IInv, TypeOK
  <2>2. CASE d # c /\ pc[d] # "insert"
    BY <2>2, <1>3 DEF IInv, TypeOK, StagedRows
  <2>3. CASE d # c /\ pc[d] = "insert"
    <3>1. req[d].stream # s /\ req[d].stream \in Stream
      BY <2>3, <1>4 DEF IInv, TypeOK, LockDiscipline, Request
    <3>2. current_version'[req[d].stream] = current_version[req[d].stream]
      BY <3>1, <1>2 DEF IInv, TypeOK
    <3>3. staged'[d] = staged[d] /\ new_version'[d] = new_version[d] /\ req'[d] = req[d]
      BY <2>3, <1>2, <1>3 DEF IInv, TypeOK
    <3>4. /\ new_version[d] >= current_version[req[d].stream]
          /\ new_version[d] <= current_version[req[d].stream] + req[d].size
          /\ {e.position : e \in staged[d]}
               = (current_version[req[d].stream] + 1)..new_version[d]
          /\ \A e, f \in staged[d] : e.position = f.position => e = f
          /\ \A e \in staged[d] : e.call = d /\ e.stream = req[d].stream
      BY <2>3 DEF IInv, StagedRows
    <3>5. pc'[d] = "insert"
      BY <2>3, <1>3 DEF IInv, TypeOK
    <3>6. QED
      BY <3>2, <3>3, <3>4, <3>5
  <2>4. QED
    BY <2>1, <2>2, <2>3
<1>8. DensePositions'
  <2> SUFFICES ASSUME NEW t \in Stream
               PROVE  /\ {e.position : e \in EventsOf(t)'} = 1..current_version'[t]
                      /\ \A e, f \in EventsOf(t)' : e.position = f.position => e = f
    BY DEF DensePositions
  <2>1. CASE t # s
    <3>1. EventsOf(t)' = EventsOf(t) /\ current_version'[t] = current_version[t]
      BY <2>1, <1>2, <1>4 DEF EventsOf, IInv, TypeOK
    <3>2. QED
      BY <3>1 DEF IInv, DensePositions
  <2>2. CASE t = s
    <3>1. EventsOf(s)' = EventsOf(s) \cup staged[c]
      BY <1>2, <1>3, <1>4 DEF EventsOf
    <3>2. current_version'[s] = new_version[c]
      BY <1>0, <1>2 DEF IInv, TypeOK
    <3>3. /\ {e.position : e \in EventsOf(s)} = 1..current_version[s]
          /\ \A e, f \in EventsOf(s) : e.position = f.position => e = f
      BY <1>0 DEF IInv, DensePositions
    <3>4. {e.position : e \in EventsOf(s)'}
            = {e.position : e \in EventsOf(s)} \cup {e.position : e \in staged[c]}
      BY <3>1
    <3>5. 1..new_version[c]
            = (1..current_version[s]) \cup ((current_version[s] + 1)..new_version[c])
      BY <1>0, <1>2
    <3>6. ASSUME NEW e \in EventsOf(s), NEW f \in staged[c]
          PROVE  e.position # f.position
      <4>1. e.position \in 1..current_version[s]
        BY <3>3
      <4>2. f.position \in (current_version[s] + 1)..new_version[c]
        BY <1>4
      <4>3. QED
        BY <4>1, <4>2, <1>0
    <3>7. \A e, f \in EventsOf(s)' : e.position = f.position => e = f
      BY <3>1, <3>3, <3>6, <1>4
    <3>8. {e.position : e \in EventsOf(s)'} = 1..current_version'[s]
      BY <3>2, <3>3, <3>4, <3>5, <1>3, <1>4
    <3>9. EventsOf(t)' = EventsOf(s)' /\ current_version'[t] = current_version'[s]
      BY <2>2, <1>3
    <3>10. QED
      BY <3>7, <3>8, <3>9
  <2>3. QED
    BY <2>1, <2>2
<1>9. GlobalOrder'
  <2>1. AllRows' \subseteq AllRows
    BY <1>2, <1>3 DEF AllRows, IInv, TypeOK
  <2>2. QED
    BY <2>1, <1>2 DEF IInv, GlobalOrder
<1>10. OutboxMatchesEvents'
  BY <1>2 DEF IInv, OutboxMatchesEvents
<1>11. EventsBy(c) = {}
  BY <1>2 DEF IInv, AllOrNothing
<1>12. EventsBy(c)' = staged[c]
  BY <1>2, <1>4, <1>11 DEF EventsBy
<1>13. \A d \in Call : d # c => EventsBy(d)' = EventsBy(d)
  BY <1>2, <1>4 DEF EventsBy
<1>14. current_version[s] + 1 \in {e.position : e \in staged[c]}
  BY <1>0, <1>2, <1>4
<1>15. AllOrNothing'
  <2> SUFFICES ASSUME NEW d \in Call
               PROVE  /\ EventsBy(d)' # {} =>
                           {e.position : e \in EventsBy(d)'}
                             = (new_version'[d] - req'[d].size + 1)..new_version'[d]
                      /\ pc'[d] = "returned" => EventsBy(d)' # {}
                      /\ pc'[d] \notin {"returned", "failed"} => EventsBy(d)' = {}
    BY DEF AllOrNothing
  <2>1. CASE d # c
    BY <2>1, <1>2, <1>3, <1>13 DEF IInv, TypeOK, AllOrNothing
  <2>2. CASE d = c
    <3>1. new_version[c] - req[c].size + 1 = current_version[s] + 1
      BY <1>0, <1>2
    <3>2. pc'[c] = answer
      BY <1>3 DEF IInv, TypeOK
    <3>3. QED
      BY <2>2, <3>1, <3>2, <1>1, <1>2, <1>3, <1>4, <1>12, <1>14
  <2>3. QED
    BY <2>1, <2>2
<1>16. ExpectedHonoured'
  <2> SUFFICES ASSUME NEW d \in Call, EventsBy(d)' # {}, req'[d].expected # AnyVersion
               PROVE  \E e \in EventsBy(d)' : /\ e.stream = req'[d].stream
                                              /\ e.position = req'[d].expected + 1
    BY DEF ExpectedHonoured
  <2>1. CASE d # c
    BY <2>1, <1>3, <1>13 DEF IInv, ExpectedHonoured
  <2>2. CASE d = c
    <3>1. req[c].expected = current_version[s]
      BY <2>2, <1>3, <1>4
    <3>2. PICK e \in staged[c] : e.position = current_version[s] + 1
      BY <1>14
    <3>3. QED
      BY <2>2, <3>1, <3>2, <1>3, <1>4, <1>12
  <2>3. QED
    BY <2>1, <2>2
<1>17. QED
  BY <1>5, <1>6, <1>7, <1>8, <1>9, <1>10, <1>15, <1>16 DEF IInv

LEMMA ArchiveStreamInv ==
  ASSUME IInv, NEW s \in Stream, ArchiveStream(s)
  PROVE  IInv'
<1> USE DEF ArchiveStream
<1>1. TypeOK'
  BY DEF IInv, TypeOK
<1>2. LockDiscipline'
  BY ConstantsAssumption DEF IInv, LockDiscipline
<1>3. StagedRows'
  BY DEF IInv, StagedRows
<1>4. DensePositions' /\ OutboxMatchesEvents'
  BY QuietTables
<1>5. GlobalOrder' /\ AllOrNothing' /\ ExpectedHonoured'
  BY DEF IInv, GlobalOrder, AllRows, AllOrNothing, ExpectedHonoured, EventsBy
<1>6. QED
  BY <1>1, <1>2, <1>3, <1>4, <1>5 DEF IInv

LEMMA StutterInv ==
  ASSUME IInv, UNCHANGED vars
  PROVE  IInv'
<1> USE DEF vars
<1>1. TypeOK'
  BY DEF IInv, TypeOK
<1>2. LockDiscipline'
  BY DEF IInv, LockDiscipline
<1>3. StagedRows'
  BY DEF IInv, StagedRows
<1>4. DensePositions' /\ OutboxMatchesEvents'
  BY DEF IInv, DensePositions, EventsOf, OutboxMatchesEvents
<1>5. GlobalOrder'
  BY DEF IInv, GlobalOrder, AllRows
<1>6. AllOrNothing' /\ ExpectedHonoured'
  BY DEF IInv, AllOrNothing, ExpectedHonoured, EventsBy
<1>7. QED
  BY <1>1, <1>2, <1>3, <1>4, <1>5, <1>6 DEF IInv

LEMMA NextInv == IInv /\ [Next]_vars => IInv'
<1> SUFFICES ASSUME IInv, [Next]_vars PROVE IInv'
  OBVIOUS
<1>1. ASSUME NEW c \in Call, Acquire(c) PROVE IInv'
  BY <1>1, AcquireInv DEF Acquire
<1>2. ASSUME NEW c \in Call, SelectRow(c) PROVE IInv'
  BY <1>2, CheckRowInv DEF SelectRow
<1>3. ASSUME NEW c \in Call, SelectMissing(c) PROVE IInv'
  <2>1. CASE Rollback(c, "conflict")
    BY <2>1, <1>3, RollbackInv DEF SelectMissing, InTransaction, Finished
  <2>2. CASE /\ pc' = [pc EXCEPT ![c] = "create"]
             /\ UNCHANGED <<tables, lock, req, new_version, staged>>
    BY <2>2, <1>3, AcquireInv DEF SelectMissing
  <2>3. QED
    BY <2>1, <2>2, <1>3 DEF SelectMissing
<1>4. ASSUME NEW c \in Call, CreateRow(c) PROVE IInv'
  BY <1>4, CreateRowInv
<1>5. ASSUME NEW c \in Call, Refetch(c) PROVE IInv'
  BY <1>5, CheckRowInv DEF Refetch
<1>6. ASSUME NEW c \in Call, InsertEvent(c) PROVE IInv'
  BY <1>6, InsertEventInv
<1>7. ASSUME NEW c \in Call, Commit(c) PROVE IInv'
  BY <1>7, CommitInv
<1>8. ASSUME NEW c \in Call, Abort(c) PROVE IInv'
  BY <1>8, RollbackInv DEF Abort, Finished
<1>9. ASSUME NEW s \in Stream, ArchiveStream(s) PROVE IInv'
  BY <1>9, ArchiveStreamInv
<1>10. CASE Quiescent \/ UNCHANGED vars
  BY <1>10, StutterInv DEF Quiescent
<1>11. QED
  BY <1>1, <1>2, <1>3, <1>4, <1>5, <1>6, <1>7, <1>8, <1>9, <1>10 DEF Next, Step

LEMMA Invariance == Spec => []IInv
BY InitInv, NextInv, PTL DEF Spec

--------------------------------------------------------------------------------

\* The tables and the local variables of append keep their types.
THEOREM TypeCorrect == Spec => []TypeOK
<1>1. IInv => TypeOK
  BY DEF IInv
<1>2. QED
  BY <1>1, Invariance, PTL

\* Streams stay dense and free of duplicates under any interleaving of appends,
\* rollbacks and archivals: the row lock alone guarantees it.
THEOREM StreamsAreDense == Spec => []DensePositions
<1>1. IInv => DensePositions
  BY DEF IInv
<1>2. QED
  BY <1>1, Invariance, PTL

\* Replaying by global position replays each stream in its own order.
THEOREM ReplayKeepsStreamOrder == Spec => []GlobalFollowsStreamOrder
<1>1. IInv => GlobalFollowsStreamOrder
  BY DEF IInv, GlobalOrder, AllRows, GlobalFollowsStreamOrder
<1>2. QED
  BY <1>1, Invariance, PTL

\* The outbox mirrors the event table row for row.
THEOREM OutboxIsAtomic == Spec => []OutboxMatchesEvents
<1>1. IInv => OutboxMatchesEvents
  BY DEF IInv
<1>2. QED
  BY <1>1, Invariance, PTL

\* A batch is stored whole or not at all, and the answer given to its caller
\* does not lie.
THEOREM BatchesAreAtomic == Spec => []AllOrNothing
<1>1. IInv => AllOrNothing
  BY DEF IInv
<1>2. QED
  BY <1>1, Invariance, PTL

\* Optimistic concurrency: one winner for each version of each stream.
THEOREM OneWinner == Spec => []OneWinnerPerVersion
<1>1. IInv => OneWinnerPerVersion
  <2> SUFFICES ASSUME IInv, NEW c \in Call, NEW d \in Call,
                      EventsBy(c) # {}, EventsBy(d) # {},
                      req[c].stream = req[d].stream,
                      req[c].expected = req[d].expected,
                      req[c].expected # AnyVersion
               PROVE  c = d
    BY DEF OneWinnerPerVersion
  <2>1. PICK e \in EventsBy(c) : /\ e.stream = req[c].stream
                                 /\ e.position = req[c].expected + 1
    BY DEF IInv, ExpectedHonoured
  <2>2. PICK f \in EventsBy(d) : /\ f.stream = req[d].stream
                                 /\ f.position = req[d].expected + 1
    BY DEF IInv, ExpectedHonoured
  <2>3. req[c].stream \in Stream
    BY DEF IInv, TypeOK, Request
  <2>4. e = f
    BY <2>1, <2>2, <2>3 DEF IInv, DensePositions, EventsOf, EventsBy
  <2>5. QED
    BY <2>4, <2>1, <2>2 DEF EventsBy
<1>2. QED
  BY <1>1, Invariance, PTL

\* The log only grows, and a stream whose archive_stream has returned does not
\* grow at all.
THEOREM ArchivedFrozen == Spec => ArchivedStreamsFrozen
<1> DEFINE Frozen == /\ events \subseteq events'
                     /\ \A s \in archived : EventsOf(s)' = EventsOf(s)
<1>1. IInv /\ [Next]_vars => [Frozen]_vars
  <2> SUFFICES ASSUME IInv, Next PROVE Frozen
    OBVIOUS
  <2>1. CASE events' = events
    BY <2>1 DEF EventsOf
  <2>2. ASSUME NEW c \in Call, Commit(c) PROVE Frozen
    <3>1. req[c].stream \notin archived
      BY <2>2 DEF Commit, IInv, LockDiscipline
    <3>2. events' = events \cup staged[c] /\ \A e \in staged[c] : e.stream = req[c].stream
      BY <2>2 DEF Commit, IInv, StagedRows
    <3>3. QED
      BY <3>1, <3>2 DEF EventsOf
  <2>3. QED
    BY <2>1, <2>2 DEF Next, Step, Acquire, SelectRow, SelectMissing, CheckRow,
       CreateRow, Refetch, InsertEvent, Abort, ArchiveStream, Quiescent, vars,
       tables, Rollback, EndTransaction
<1>2. QED
  BY <1>1, Invariance, PTL DEF Spec, ArchivedStreamsFrozen

--------------------------------------------------------------------------------

\* The transactions of append implement the single-step appends of StreamLog.

Log == [s \in Stream |-> LogOf(s)]

\* What LogOf finds at a position is the call of the one event stored there.
LEMMA LogEntry ==
  ASSUME IInv, NEW s \in Stream, NEW p \in 1..current_version[s]
  PROVE  \E e \in events : e.stream = s /\ e.position = p /\ LogOf(s)[p] = e.call
<1>1. PICK e \in events : e.stream = s /\ e.position = p
  <2>1. p \in {e.position : e \in EventsOf(s)}
    BY DEF IInv, DensePositions
  <2>2. QED
    BY <2>1 DEF EventsOf
<1> DEFINE Stored(f) == f \in events /\ f.stream = s /\ f.position = p
<1>2. Stored(CHOOSE f \in events : f.stream = s /\ f.position = p)
  BY <1>1
<1>3. LogOf(s)[p] = (CHOOSE f \in events : f.stream = s /\ f.position = p).call
  BY DEF LogOf
<1>4. QED
  BY <1>2, <1>3

LEMMA LogIsSeq ==
  ASSUME IInv, NEW s \in Stream
  PROVE  /\ LogOf(s) \in Seq(Call)
         /\ Len(LogOf(s)) = current_version[s]
<1>1. current_version[s] \in Nat
  BY DEF IInv, TypeOK
<1>2. LogOf(s) \in [1..current_version[s] -> Call]
  <2>1. \A p \in 1..current_version[s] : LogOf(s)[p] \in Call
    BY LogEntry DEF IInv, TypeOK, Event
  <2>2. LogOf(s) = [p \in 1..current_version[s] |-> LogOf(s)[p]]
    BY DEF LogOf
  <2>3. QED
    BY <2>1, <2>2
<1>3. QED
  BY <1>1, <1>2

\* The two lemmas above as one state predicate, to be used after a step too.
LogShape ==
  /\ \A s \in Stream : LogOf(s) \in Seq(Call) /\ Len(LogOf(s)) = current_version[s]
  /\ \A s \in Stream : \A p \in 1..current_version[s] :
       \E e \in events : e.stream = s /\ e.position = p /\ LogOf(s)[p] = e.call

LEMMA LogHasShape == IInv => LogShape
BY LogIsSeq, LogEntry DEF LogShape

\* A step that leaves the tables of the log alone leaves the log alone.
LEMMA QuietLog ==
  ASSUME UNCHANGED <<current_version, events>>
  PROVE  Log' = Log
BY DEF Log, LogOf

LEMMA InitRefines == Init => Abstract!Init
<1> SUFFICES ASSUME Init PROVE Abstract!Init
  OBVIOUS
<1>1. IInv
  BY InitInv
<1>2. ASSUME NEW s \in Stream PROVE LogOf(s) = <<>>
  <2>1. Len(LogOf(s)) = 0 /\ LogOf(s) \in Seq(Call)
    BY <1>1, LogIsSeq DEF Init
  <2>2. QED
    BY <2>1, EmptySeq
<1>3. QED
  BY <1>2 DEF Abstract!Init, Init

\* Commit is the step at which a call takes effect.
LEMMA CommitRefines ==
  ASSUME IInv, IInv', NEW c \in Call, Commit(c)
  PROVE  Abstract!Accept(c)
<1> DEFINE st == req[c].stream
<1> DEFINE batch == [i \in 1..req[c].size |-> c]
<1>1. /\ pc[c] = "insert"
      /\ new_version[c] = current_version[st] + req[c].size
      /\ events' = events \cup staged[c]
      /\ current_version' = [current_version EXCEPT ![st] = new_version[c]]
      /\ UNCHANGED <<archived, req>>
  BY DEF Commit, EndTransaction
<1>2. /\ st \in Stream /\ req[c].size \in Nat
      /\ current_version[st] \in Nat /\ new_version[c] \in Nat
  BY ConstantsAssumption DEF IInv, TypeOK, Request
<1>3. /\ st \notin archived
      /\ req[c].expected \in {AnyVersion, current_version[st]}
      /\ \A e \in staged[c] : e.call = c /\ e.stream = st
      /\ {e.position : e \in staged[c]} = (current_version[st] + 1)..new_version[c]
  BY <1>1 DEF IInv, LockDiscipline, StagedRows
<1>4. LogOf(st) \in Seq(Call) /\ Len(LogOf(st)) = current_version[st]
  BY <1>2, LogIsSeq
<1>5. batch \in Seq(Call) /\ Len(batch) = req[c].size
  BY <1>2
<1>6. ~ \E s \in Stream : \E p \in DOMAIN LogOf(s) : LogOf(s)[p] = c
  <2> SUFFICES ASSUME NEW s \in Stream, NEW p \in 1..current_version[s]
               PROVE  LogOf(s)[p] # c
    BY DEF LogOf
  <2>1. PICK e \in events : LogOf(s)[p] = e.call
    BY LogEntry
  <2>2. e.call # c
    BY <1>1 DEF IInv, AllOrNothing, EventsBy
  <2>3. QED
    BY <2>1, <2>2
<1>7. /\ \A s \in Stream : /\ LogOf(s)' \in Seq(Call)
                           /\ Len(LogOf(s)') = current_version'[s]
      /\ \A s \in Stream : \A p \in 1..current_version'[s] :
           \E e \in events' : /\ e.stream = s /\ e.position = p
                              /\ LogOf(s)'[p] = e.call
  <2>1. LogShape'
    BY LogHasShape, PTL
  <2>2. QED
    BY <2>1 DEF LogShape
<1>8. \A s \in Stream : \A e, f \in events' :
        e.stream = s /\ f.stream = s /\ e.position = f.position => e = f
  BY DEF IInv, DensePositions, EventsOf
<1>9. ASSUME NEW s \in Stream, s # st
      PROVE  LogOf(s)' = LogOf(s)
  <2>1. current_version'[s] = current_version[s]
    BY <1>1, <1>9 DEF IInv, TypeOK
  <2>2. /\ LogOf(s) \in Seq(Call) /\ Len(LogOf(s)) = current_version[s]
        /\ LogOf(s)' \in Seq(Call) /\ Len(LogOf(s)') = current_version[s]
    BY <1>7, <2>1, LogIsSeq
  <2>3. ASSUME NEW p \in 1..current_version[s]
        PROVE  LogOf(s)'[p] = LogOf(s)[p]
    <3>1. PICK e \in events : e.stream = s /\ e.position = p /\ LogOf(s)[p] = e.call
      BY LogEntry
    <3>2. PICK f \in events' : f.stream = s /\ f.position = p /\ LogOf(s)'[p] = f.call
      BY <1>7, <2>1
    <3>3. QED
      BY <3>1, <3>2, <1>1, <1>8
  <2> HIDE DEF st
  <2>4. QED
    BY <2>2, <2>3, SeqEqual
<1>10. LogOf(st) \o batch \in Seq(Call)
       /\ Len(LogOf(st) \o batch) = new_version[c]
       /\ \A p \in 1..new_version[c] :
            (LogOf(st) \o batch)[p]
              = IF p <= current_version[st] THEN LogOf(st)[p]
                ELSE batch[p - current_version[st]]
  <2> HIDE DEF st, batch
  <2>1. LogOf(st) \o batch \in Seq(Call)
    BY <1>4, <1>5, ConcatProperties
  <2>2. Len(LogOf(st) \o batch) = new_version[c]
    <3>1. Len(LogOf(st) \o batch) = Len(LogOf(st)) + Len(batch)
      BY <1>4, <1>5, ConcatProperties
    <3>2. QED
      BY <3>1, <1>1, <1>4, <1>5
  <2>3. ASSUME NEW p \in 1..new_version[c]
        PROVE  (LogOf(st) \o batch)[p]
                 = IF p <= current_version[st] THEN LogOf(st)[p]
                   ELSE batch[p - current_version[st]]
    <3>1. p \in 1..(Len(LogOf(st)) + Len(batch))
      BY <1>1, <1>4, <1>5
    <3>2. (LogOf(st) \o batch)[p]
            = IF p <= Len(LogOf(st)) THEN LogOf(st)[p] ELSE batch[p - Len(LogOf(st))]
      BY <3>1, <1>4, <1>5, ConcatProperties
    <3>3. QED
      BY <3>2, <1>4
  <2>4. QED
    BY <2>1, <2>2, <2>3
<1>11. ASSUME NEW s \in Stream, s = st
       PROVE  LogOf(s)' = LogOf(st) \o batch
  <2>1. current_version'[s] = new_version[c]
    BY <1>1, <1>2, <1>11 DEF IInv, TypeOK
  <2>2. LogOf(s)' \in Seq(Call) /\ Len(LogOf(s)') = new_version[c]
    BY <1>7, <2>1
  <2>3. ASSUME NEW p \in 1..new_version[c]
        PROVE  LogOf(s)'[p] = (LogOf(st) \o batch)[p]
    <3>1. PICK f \in events' : f.stream = s /\ f.position = p /\ LogOf(s)'[p] = f.call
      BY <1>7, <2>1
    <3>2. CASE p <= current_version[st]
      <4>1. p \in 1..current_version[st]
        BY <3>2, <1>2
      <4>2. PICK e \in events : e.stream = st /\ e.position = p /\ LogOf(st)[p] = e.call
        BY <4>1, <1>2, LogEntry
      <4>3. e = f
        BY <3>1, <4>2, <1>1, <1>8, <1>11
      <4>4. QED
        BY <3>1, <3>2, <4>2, <4>3, <1>10
    <3>3. CASE ~(p <= current_version[st])
      <4>1. p \in (current_version[st] + 1)..new_version[c]
        BY <3>3, <1>2
      <4>2. PICK e \in staged[c] : e.position = p
        BY <4>1, <1>3
      <4>3. e = f
        BY <3>1, <4>2, <1>1, <1>3, <1>8, <1>11
      <4>4. batch[p - current_version[st]] = c
        BY <4>1, <1>1, <1>2
      <4>5. QED
        BY <3>1, <3>3, <4>2, <4>3, <4>4, <1>3, <1>10
    <3>4. QED
      BY <3>2, <3>3
  <2> HIDE DEF st, batch
  <2>4. QED
    BY <2>2, <2>3, <1>10, SeqEqual
<1>12. Log' = [Log EXCEPT ![st] = Log[st] \o batch]
  <2> HIDE DEF batch
  <2>1. \A s \in Stream : LogOf(s)' = IF s = st THEN LogOf(st) \o batch ELSE LogOf(s)
    BY <1>9, <1>11
  <2>2. Log' = [s \in Stream |-> LogOf(s)']
    BY DEF Log
  <2>3. QED
    BY <2>1, <2>2, <1>2 DEF Log
<1>13. Len(LogOf(st)) = current_version[st]
  BY <1>4
<1>14. QED
  BY <1>1, <1>2, <1>3, <1>6, <1>12, <1>13 DEF Abstract!Accept, Abstract!Occurs, Log

\* A row of event_streams is committed with the first events of its stream.
NoEmptyStream == \A s \in registered : s \in Stream /\ current_version[s] >= 1

LEMMA NoEmptyStreamInv == Spec => []NoEmptyStream
<1>1. Init => NoEmptyStream
  BY DEF Init, NoEmptyStream
<1>2. IInv /\ NoEmptyStream /\ [Next]_vars => NoEmptyStream'
  <2> SUFFICES ASSUME IInv, NoEmptyStream, [Next]_vars PROVE NoEmptyStream'
    OBVIOUS
  <2>1. ASSUME NEW c \in Call, Commit(c) PROVE NoEmptyStream'
    <3>1. /\ req[c].stream \in Stream /\ req[c].size \in Nat \ {0}
          /\ current_version[req[c].stream] \in Nat
      BY ConstantsAssumption DEF IInv, TypeOK, Request
    <3>2. new_version[c] >= 1
      BY <3>1, <2>1 DEF Commit
    <3>3. /\ registered' = registered \cup {req[c].stream}
          /\ current_version' = [current_version EXCEPT ![req[c].stream] = new_version[c]]
      BY <2>1 DEF Commit
    <3>4. QED
      BY <3>1, <3>2, <3>3 DEF IInv, TypeOK, NoEmptyStream
  <2>2. CASE UNCHANGED <<registered, current_version>>
    BY <2>2 DEF NoEmptyStream
  <2>3. QED
    BY <2>1, <2>2 DEF Next, Step, Acquire, SelectRow, SelectMissing, CheckRow,
       CreateRow, Refetch, InsertEvent, Abort, ArchiveStream, Quiescent, vars,
       tables, Rollback, EndTransaction
<1>3. QED
  BY <1>1, <1>2, Invariance, PTL DEF Spec

LEMMA NextRefines ==
  IInv /\ IInv' /\ NoEmptyStream /\ [Next]_vars => [Abstract!Next]_Abstract!vars
<1> SUFFICES ASSUME IInv, IInv', NoEmptyStream, [Next]_vars
             PROVE  [Abstract!Next]_Abstract!vars
  OBVIOUS
<1>1. ASSUME NEW c \in Call, Commit(c) PROVE Abstract!Next
  BY <1>1, CommitRefines DEF Abstract!Next
<1>2. ASSUME NEW s \in Stream, ArchiveStream(s) PROVE Abstract!Next
  <2>1. LogOf(s) # <<>>
    <3>1. current_version[s] >= 1 /\ current_version[s] \in Nat
      BY <1>2 DEF ArchiveStream, NoEmptyStream, IInv, TypeOK
    <3>2. Len(LogOf(s)) = current_version[s] /\ Len(<<>>) = 0
      BY LogIsSeq, EmptySeq
    <3>3. QED
      BY <3>1, <3>2
  <2>2. QED
    BY <1>2, <2>1, QuietLog DEF ArchiveStream, Abstract!Next, Abstract!Close, Log
<1>3. CASE UNCHANGED <<current_version, events, archived, req>>
  BY <1>3, QuietLog DEF Abstract!vars, Log
<1>4. QED
  BY <1>1, <1>2, <1>3 DEF Next, Step, Acquire, SelectRow, SelectMissing, CheckRow,
     CreateRow, Refetch, InsertEvent, Abort, Quiescent, vars, tables, Rollback,
     EndTransaction

\* append implements the abstract log: every transaction is one atomic append
\* or nothing.
THEOREM Refinement == Spec => ImplementsStreamLog
<1>1. QED
  BY InitRefines, NextRefines, Invariance, NoEmptyStreamInv, PTL
  DEF Spec, ImplementsStreamLog, Abstract!Spec

--------------------------------------------------------------------------------

\* The feed a reader by global position sees.  The bound on its positions needs an
\* argument: each position was taken by one event of one call, which takes it once.

Slot == Call \X (1..MaxBatch)

\* Events the open transaction of c has inserted.
Placed(c) == new_version[c] - current_version[req[c].stream]

\* A call uses its slots in order, the first when it starts to insert.
Used(c, k) == pc[c] \in Finished \/ (pc[c] = "insert" /\ k <= Placed(c))

SlotsTaken ==
  \E f \in Injection(1..sequence, Slot) : \A n \in 1..sequence : Used(f[n][1], f[n][2])

PositiveGlobals == \A e \in AllRows : e.global > 0

FeedInv == PositiveGlobals /\ SlotsTaken

LEMMA PlacedIsNat ==
  ASSUME IInv, NEW c \in Call
  PROVE  /\ req[c].stream \in Stream /\ req[c].size \in 1..MaxBatch
         /\ new_version[c] \in Nat /\ current_version[req[c].stream] \in Nat
         /\ pc[c] = "insert" => Placed(c) \in 0..req[c].size
<1>1. req[c] \in Request
  BY DEF IInv, TypeOK
<1>2. /\ req[c].stream \in Stream /\ req[c].size \in 1..MaxBatch
      /\ new_version[c] \in Nat /\ current_version[req[c].stream] \in Nat
  BY <1>1 DEF Request, IInv, TypeOK
<1>3. QED
  BY <1>2, ConstantsAssumption DEF IInv, StagedRows, Placed

LEMMA InitFeed == Init => FeedInv
<1> SUFFICES ASSUME Init
             PROVE  FeedInv
  OBVIOUS
<1>1. PositiveGlobals
  BY DEF Init, PositiveGlobals, AllRows
<1>2. sequence = 0 /\ 1..0 = {}
  BY DEF Init
<1>3. [n \in {} |-> <<>>] \in Injection({}, Slot)
  BY DEF Injection, IsInjective
<1>4. QED
  BY <1>1, <1>2, <1>3 DEF FeedInv, SlotsTaken

\* A step that takes no position only moves calls on.
LEMMA SlotsKept ==
  ASSUME SlotsTaken, sequence' = sequence,
         \A c \in Call, k \in 1..MaxBatch : Used(c, k) => Used(c, k)'
  PROVE  SlotsTaken'
<1>1. PICK f \in Injection(1..sequence, Slot) :
        \A n \in 1..sequence : Used(f[n][1], f[n][2])
  BY DEF SlotsTaken
<1>2. \A n \in 1..sequence : f[n][1] \in Call /\ f[n][2] \in 1..MaxBatch
  BY DEF Injection, Slot
<1>3. \A n \in 1..sequence : Used(f[n][1], f[n][2])'
  BY <1>1, <1>2
<1>4. QED
  BY <1>3 DEF SlotsTaken

\* The slot of the event a call is about to insert is still free.
LEMMA InsertTakesSlot ==
  ASSUME IInv, SlotsTaken, NEW c \in Call, InsertEvent(c)
  PROVE  /\ SlotsTaken'
         /\ IsFiniteSet(Call) => sequence < Cardinality(Call) * MaxBatch
<1> DEFINE s == req[c].stream
           slot == <<c, Placed(c) + 1>>
<1>1. /\ pc[c] = "insert" /\ new_version[c] < current_version[s] + req[c].size
      /\ new_version' = [new_version EXCEPT ![c] = new_version[c] + 1]
      /\ sequence' = sequence + 1
      /\ UNCHANGED <<current_version, pc, req>>
  BY DEF InsertEvent
<1>2. /\ sequence \in Nat
      /\ req[c].size \in 1..MaxBatch /\ Placed(c) \in 0..req[c].size
      /\ Placed(c) < req[c].size
  BY <1>1, PlacedIsNat DEF Placed, IInv, TypeOK
<1>3. slot \in Slot /\ ~Used(slot[1], slot[2])
  <2>1. Placed(c) + 1 \in 1..MaxBatch
    BY <1>2, ConstantsAssumption
  <2>2. ~(Placed(c) + 1 <= Placed(c)) /\ pc[c] \notin Finished
    BY <1>1, <1>2 DEF Finished
  <2>3. QED
    BY <1>1, <2>1, <2>2 DEF Slot, Used
<1>4. PICK f \in Injection(1..sequence, Slot) :
        \A n \in 1..sequence : Used(f[n][1], f[n][2])
  BY DEF SlotsTaken
<1>5. /\ f \in [1..sequence -> Slot]
      /\ \A m, n \in 1..sequence : f[m] = f[n] => m = n
      /\ \A n \in 1..sequence : f[n] # slot /\ f[n][1] \in Call /\ f[n][2] \in 1..MaxBatch
  <2> HIDE DEF slot
  <2>1. f \in [1..sequence -> Slot] /\ \A m, n \in 1..sequence : f[m] = f[n] => m = n
    BY DEF Injection, IsInjective
  <2>2. \A n \in 1..sequence : f[n] # slot
    BY <1>3, <1>4
  <2>3. \A n \in 1..sequence : f[n][1] \in Call /\ f[n][2] \in 1..MaxBatch
    BY <2>1 DEF Slot
  <2>4. QED
    BY <2>1, <2>2, <2>3
<1>6. SlotsTaken'
  <2> DEFINE g == [n \in 1..(sequence + 1) |-> IF n = sequence + 1 THEN slot ELSE f[n]]
  <2>1. \A n \in 1..(sequence + 1) : n = sequence + 1 \/ n \in 1..sequence
    BY <1>2
  <2>2. g \in Injection(1..(sequence + 1), Slot)
    <3> HIDE DEF slot
    <3>1. g \in [1..(sequence + 1) -> Slot]
      BY <1>3, <1>5, <2>1
    <3>2. \A m, n \in 1..(sequence + 1) : g[m] = g[n] => m = n
      BY <1>5, <2>1
    <3> HIDE DEF g
    <3>3. QED
      BY <3>1, <3>2 DEF Injection, IsInjective
  <2>3. Placed(c)' = Placed(c) + 1 /\ \A d \in Call : d # c => Placed(d)' = Placed(d)
    BY <1>1, PlacedIsNat DEF Placed, IInv, TypeOK
  <2>4. \A d \in Call, k \in 1..MaxBatch : Used(d, k) => Used(d, k)'
    <3>1. TAKE d \in Call, k \in 1..MaxBatch
    <3>2. CASE d = c
      BY <1>1, <1>2, <2>3, <3>2 DEF Used
    <3>3. CASE d # c
      BY <1>1, <2>3, <3>3 DEF Used
    <3>4. QED
      BY <3>2, <3>3
  <2>5. PICK k \in 1..MaxBatch : k = Placed(c) + 1
    BY <1>3 DEF Slot
  <2>6. Used(c, k)'
    BY <1>1, <2>3, <2>5 DEF Used
  <2>7. PICK h : h = g
    OBVIOUS
  <2>8. \A n \in 1..(sequence + 1) : Used(h[n][1], h[n][2])'
    <3>1. TAKE n \in 1..(sequence + 1)
    <3>2. CASE n \in 1..sequence
      <4>1. h[n] = f[n]
        BY <1>2, <2>7, <3>2
      <4>2. QED
        BY <1>4, <1>5, <2>4, <3>2, <4>1
    <3>3. CASE n = sequence + 1
      <4>1. h[n] = <<c, k>>
        BY <2>5, <2>7, <3>3
      <4>2. QED
        BY <2>6, <4>1
    <3>4. QED
      BY <2>1, <3>2, <3>3
  <2>9. h \in Injection(1..sequence', Slot) /\ sequence' = sequence + 1
    BY <1>1, <2>2, <2>7
  <2> HIDE DEF g
  <2>10. QED
    BY <2>8, <2>9 DEF SlotsTaken
<1>7. ASSUME IsFiniteSet(Call)
      PROVE  sequence < Cardinality(Call) * MaxBatch
  <2>1. /\ IsFiniteSet(Slot)
        /\ Cardinality(Slot) = Cardinality(Call) * MaxBatch
    <3>1. IsFiniteSet(1..MaxBatch) /\ Cardinality(1..MaxBatch) = MaxBatch
      BY FS_Interval, ConstantsAssumption
    <3>2. QED
      BY <1>7, <3>1, FS_Product DEF Slot
  <2>2. /\ IsFiniteSet(Slot \ {slot})
        /\ Cardinality(Slot \ {slot}) = Cardinality(Slot) - 1
        /\ Cardinality(Slot) \in Nat
    <3> HIDE DEF slot
    <3>1. QED
      BY <1>3, <2>1, FS_RemoveElement, FS_CardinalityType
  <2>3. f \in Injection(1..sequence, Slot \ {slot})
    <3> HIDE DEF slot
    <3>1. f \in [1..sequence -> Slot \ {slot}]
      BY <1>5
    <3>2. QED
      BY <3>1, <1>5 DEF Injection, IsInjective
  <2>4. Cardinality(1..sequence) <= Cardinality(Slot \ {slot})
    <3> HIDE DEF slot
    <3>1. QED
      BY <2>2, <2>3, FS_Injection
  <2>5. Cardinality(1..sequence) = sequence
    BY <1>2, FS_Interval
  <2>6. QED
    BY <1>2, <2>1, <2>2, <2>4, <2>5
<1>8. QED
  BY <1>6, <1>7

LEMMA NextFeed ==
  ASSUME IInv, FeedInv, [Next]_vars
  PROVE  FeedInv'
<1> USE DEF FeedInv
<1>0. sequence \in Nat /\ \A e \in AllRows : e.global <= sequence
  BY DEF IInv, TypeOK, GlobalOrder
<1>1. PositiveGlobals'
  <2>1. ASSUME NEW c \in Call, InsertEvent(c)
        PROVE  \A e \in AllRows' : e \in AllRows \/ e.global = sequence + 1
    <3> DEFINE row == [stream |-> req[c].stream, position |-> new_version[c] + 1,
                       global |-> sequence + 1, call |-> c]
    <3>1. staged' = [staged EXCEPT ![c] = staged[c] \cup {row}] /\ events' = events
      BY <2>1 DEF InsertEvent
    <3>2. row.global = sequence + 1
      OBVIOUS
    <3> HIDE DEF row
    <3>3. \A d \in Call : staged'[d] \subseteq staged[d] \cup {row}
      BY <3>1 DEF IInv, TypeOK
    <3>4. QED
      BY <3>1, <3>2, <3>3 DEF AllRows
  <2>2. ASSUME NEW c \in Call, Commit(c)
        PROVE  AllRows' \subseteq AllRows
    BY <2>2 DEF Commit, EndTransaction, AllRows, IInv, TypeOK
  <2>3. ASSUME NEW c \in Call, NEW outcome \in Finished, Rollback(c, outcome)
        PROVE  AllRows' \subseteq AllRows
    BY <2>3 DEF Rollback, EndTransaction, tables, AllRows, IInv, TypeOK
  <2>4. CASE UNCHANGED <<events, staged>>
    BY <2>4 DEF PositiveGlobals, AllRows
  <2>5. CASE AllRows' \subseteq AllRows
    BY <2>5 DEF PositiveGlobals
  <2>6. CASE \E c \in Call : InsertEvent(c)
    BY <2>1, <2>6, <1>0 DEF PositiveGlobals
  <2>7. QED
    BY <2>2, <2>3, <2>4, <2>5, <2>6 DEF Next, Step, Acquire, SelectRow, SelectMissing,
       CheckRow, CreateRow, Refetch, Abort, ArchiveStream, Quiescent, vars, tables, Finished
<1>2. SlotsTaken'
  <2>1. CASE \E c \in Call : InsertEvent(c)
    BY <2>1, InsertTakesSlot
  <2>2. ASSUME NEW c \in Call, Commit(c)
        PROVE  SlotsTaken'
    <3> DEFINE s == req[c].stream
    <3>1. /\ pc[c] = "insert" /\ sequence' = sequence
          /\ UNCHANGED <<req, new_version>>
          /\ current_version' = [current_version EXCEPT ![s] = new_version[c]]
          /\ \E answer \in Finished : pc' = [pc EXCEPT ![c] = answer]
      BY <2>2 DEF Commit, EndTransaction, Finished
    <3>2. \A d \in Call : d # c /\ pc[d] = "insert" => req[d].stream # s
      BY <3>1 DEF IInv, LockDiscipline
    <3>3. \A d \in Call, k \in 1..MaxBatch : Used(d, k) => Used(d, k)'
      <4>1. TAKE d \in Call, k \in 1..MaxBatch
      <4>2. CASE d = c
        BY <3>1, <4>2 DEF Used, IInv, TypeOK
      <4>3. CASE d # c
        <5>1. pc'[d] = pc[d]
          BY <3>1, <4>3
        <5>2. pc[d] = "insert" => Placed(d)' = Placed(d)
          BY <3>1, <3>2, <4>3, PlacedIsNat DEF Placed, IInv, TypeOK
        <5>3. QED
          BY <5>1, <5>2 DEF Used
      <4>4. QED
        BY <4>2, <4>3
    <3>4. QED
      BY <3>1, <3>3, SlotsKept
  <2>3. ASSUME NEW c \in Call, pc[c] \notin Finished, pc[c] # "insert" \/ pc'[c] \in Finished,
               \A d \in Call : d # c => pc'[d] = pc[d] /\ new_version'[d] = new_version[d],
               UNCHANGED <<sequence, current_version, req>>
        PROVE  SlotsTaken'
    <3>1. \A d \in Call, k \in 1..MaxBatch : Used(d, k) => Used(d, k)'
      BY <2>3 DEF Used, Placed
    <3>2. QED
      BY <2>3, <3>1, SlotsKept
  <2>4. CASE UNCHANGED <<sequence, current_version, req, pc, new_version>>
    <3>1. \A d \in Call, k \in 1..MaxBatch : Used(d, k) => Used(d, k)'
      BY <2>4 DEF Used, Placed
    <3>2. QED
      BY <2>4, <3>1, SlotsKept
  <2>5. ASSUME NEW c \in Call, pc[c] \in InTransaction, NEW outcome \in Finished,
               Rollback(c, outcome)
        PROVE  SlotsTaken'
    <3>1. /\ pc' = [pc EXCEPT ![c] = outcome]
          /\ UNCHANGED <<sequence, current_version, req, new_version>>
      BY <2>5 DEF Rollback, EndTransaction, tables
    <3>2. /\ pc[c] \notin Finished /\ pc'[c] \in Finished
          /\ \A d \in Call : d # c => pc'[d] = pc[d]
      BY <3>1, <2>5 DEF InTransaction, Finished, IInv, TypeOK
    <3>3. QED
      BY <2>3, <3>1, <3>2
  <2>6. ASSUME NEW c \in Call, pc[c] \in {"select", "refetch"}, CheckRow(c, req[c].stream)
        PROVE  SlotsTaken'
    <3>1. CASE \E outcome \in Finished : Rollback(c, outcome)
      BY <2>5, <2>6, <3>1 DEF InTransaction
    <3>2. CASE /\ new_version' = [new_version EXCEPT ![c] = StartVersion(req[c].stream)]
               /\ pc' = [pc EXCEPT ![c] = "insert"]
               /\ UNCHANGED <<tables, req, staged>>
      <4>1. \A d \in Call : d # c => pc'[d] = pc[d] /\ new_version'[d] = new_version[d]
        BY <3>2 DEF IInv, TypeOK
      <4>2. pc[c] \notin Finished /\ pc[c] # "insert"
        BY <2>6 DEF Finished
      <4>3. QED
        BY <2>3, <3>2, <4>1, <4>2 DEF tables
    <3>3. QED
      BY <2>6, <3>1, <3>2 DEF CheckRow, Finished
  <2>7. ASSUME NEW c \in Call, pc[c] \in {"acquire", "select", "create"},
               NEW to, pc' = [pc EXCEPT ![c] = to], UNCHANGED <<tables, req, new_version>>
        PROVE  SlotsTaken'
    <3>1. \A d \in Call : d # c => pc'[d] = pc[d] /\ new_version'[d] = new_version[d]
      BY <2>7 DEF IInv, TypeOK
    <3>2. pc[c] \notin Finished /\ pc[c] # "insert"
      BY <2>7 DEF Finished
    <3>3. QED
      BY <2>3, <2>7, <3>1, <3>2 DEF tables
  <2>8. ASSUME NEW c \in Call, Step(c)
        PROVE  SlotsTaken'
    <3>1. CASE Acquire(c)
      BY <2>7, <3>1 DEF Acquire
    <3>2. CASE SelectRow(c)
      BY <2>6, <3>2 DEF SelectRow
    <3>3. CASE SelectMissing(c)
      BY <2>5, <2>7, <3>3 DEF SelectMissing, Finished, InTransaction
    <3>4. CASE CreateRow(c)
      BY <2>7, <3>4 DEF CreateRow
    <3>5. CASE Refetch(c)
      BY <2>6, <3>5 DEF Refetch
    <3>6. QED
      BY <2>1, <2>2, <2>8, <3>1, <3>2, <3>3, <3>4, <3>5 DEF Step
  <2>9. QED
    BY <2>4, <2>5, <2>8 DEF Next, Abort, ArchiveStream, Quiescent, vars, Finished
<1>3. QED
  BY <1>1, <1>2

\* Each step is one of the feed's, or leaves the feed alone.
LEMMA FeedRefines ==
  ASSUME IsFiniteSet(Call), IInv, FeedInv, [Next]_vars
  PROVE  [Feed!FeedNext]_Feed!feed
<1> DEFINE committed == {e.global : e \in events}
           private == {e.global : e \in UNION {staged[c] : c \in Call}}
<1>0. sequence \in Nat /\ \A e \in AllRows : e.global \in 1..sequence
  <2>1. \A e \in AllRows : e.global \in Nat
    BY DEF IInv, TypeOK, Event, AllRows
  <2>2. QED
    BY <2>1 DEF FeedInv, PositiveGlobals, IInv, TypeOK, GlobalOrder
<1>1. ASSUME NEW c \in Call, InsertEvent(c)
      PROVE  Feed!FeedNext
  <2> DEFINE row == [stream |-> req[c].stream, position |-> new_version[c] + 1,
                     global |-> sequence + 1, call |-> c]
  <2>1. /\ staged' = [staged EXCEPT ![c] = staged[c] \cup {row}]
        /\ events' = events
        /\ sequence' = sequence + 1
    BY <1>1 DEF InsertEvent
  <2>2. row.global = sequence + 1
    OBVIOUS
  <2> HIDE DEF row
  <2>3. UNION {staged'[d] : d \in Call} = (UNION {staged[d] : d \in Call}) \cup {row}
    <3>1. \A d \in Call : staged'[d] = IF d = c THEN staged[d] \cup {row} ELSE staged[d]
      BY <2>1 DEF IInv, TypeOK
    <3>2. QED
      BY <3>1
  <2>4. private' = private \cup {sequence + 1}
    BY <2>2, <2>3
  <2>5. sequence < Cardinality(Call) * MaxBatch
    BY <1>1, InsertTakesSlot DEF FeedInv
  <2>6. Cardinality(private) < Cardinality(Call) * MaxBatch
    <3>1. private \in SUBSET (1..sequence)
      BY <1>0 DEF AllRows
    <3> HIDE DEF private
    <3>2. IsFiniteSet(1..sequence) /\ Cardinality(1..sequence) = sequence
      BY <1>0, FS_Interval
    <3>3. IsFiniteSet(private) /\ Cardinality(private) <= sequence
      BY <3>1, <3>2, FS_Subset
    <3>4. Cardinality(private) \in Nat /\ Cardinality(Call) * MaxBatch \in Nat
      <4>1. Cardinality(Call) \in Nat /\ MaxBatch \in Nat
        BY FS_CardinalityType, ConstantsAssumption
      <4>2. QED
        BY <3>3, <4>1, FS_CardinalityType
    <3>5. QED
      BY <1>0, <2>5, <3>3, <3>4
  <2>7. Feed!Cardinality(private) = Cardinality(private)
    <3> HIDE DEF private
    <3>1. QED
      BY DEF Feed!Cardinality, Cardinality
  <2>8. Feed!Insert
    BY <2>1, <2>4, <2>5, <2>6, <2>7 DEF Feed!Insert
  <2>9. QED
    BY <2>8 DEF Feed!FeedNext
<1>2. ASSUME NEW c \in Call, NEW outcome \in Finished, EndTransaction(c, outcome),
             sequence' = sequence, events' \in {events, events \cup staged[c]},
             events' # events => staged[c] # {}
      PROVE  [Feed!FeedNext]_Feed!feed
  <2> DEFINE rows == {e.global : e \in staged[c]}
  <2>1. \A d \in Call : staged'[d] = IF d = c THEN {} ELSE staged[d]
    BY <1>2 DEF EndTransaction, IInv, TypeOK
  <2>2. \A d \in Call : d # c => \A e \in staged[d] : e.global \notin rows
    <3> SUFFICES ASSUME NEW d \in Call, d # c, NEW e \in staged[d], NEW f \in staged[c],
                        e.global = f.global
                 PROVE  FALSE
      OBVIOUS
    <3>1. e \in AllRows /\ f \in AllRows
      BY DEF AllRows
    <3>2. e = f /\ e.call = d /\ f.call = c
      BY <3>1 DEF IInv, GlobalOrder, StagedRows
    <3>3. QED
      BY <3>2
  <2>3. rows \in SUBSET private
    OBVIOUS
  <2>4. private' = private \ rows
    BY <2>1, <2>2
  <2>5. CASE rows = {}
    <3>1. staged[c] = {}
      BY <2>5
    <3>2. private' = private /\ committed' = committed
      BY <2>4, <2>5, <3>1, <1>2
    <3>3. QED
      BY <1>2, <3>2 DEF Feed!feed
  <2>6. CASE rows # {} /\ events' = events
    <3>1. committed' = committed
      BY <2>6
    <3>2. \E taken \in SUBSET private :
            taken # {} /\ private' = private \ taken
      BY <2>3, <2>4, <2>6
    <3>3. QED
      BY <1>2, <3>1, <3>2 DEF Feed!FeedNext, Feed!RollbackRows
  <2>7. CASE rows # {} /\ events' = events \cup staged[c]
    <3>1. committed' = committed \cup rows
      BY <2>7
    <3>2. \E taken \in SUBSET private :
            taken # {} /\ private' = private \ taken /\ committed' = committed \cup taken
      BY <2>3, <2>4, <2>7, <3>1
    <3>3. QED
      BY <1>2, <3>2 DEF Feed!FeedNext, Feed!CommitRows
  <2>8. QED
    BY <1>2, <2>5, <2>6, <2>7
<1>3. ASSUME NEW c \in Call, Commit(c)
      PROVE  [Feed!FeedNext]_Feed!feed
  <2>1. staged[c] # {}
    <3>1. /\ pc[c] = "insert"
          /\ new_version[c] = current_version[req[c].stream] + req[c].size
      BY <1>3 DEF Commit
    <3>2. /\ {e.position : e \in staged[c]}
               = (current_version[req[c].stream] + 1)..new_version[c]
          /\ req[c].size \in Nat \ {0} /\ current_version[req[c].stream] \in Nat
      BY <3>1, PlacedIsNat, ConstantsAssumption DEF IInv, StagedRows
    <3>3. new_version[c] \in {e.position : e \in staged[c]}
      BY <3>1, <3>2
    <3>4. QED
      BY <3>3
  <2>2. \E outcome \in Finished : EndTransaction(c, outcome)
    BY <1>3 DEF Commit, Finished
  <2>3. sequence' = sequence /\ events' = events \cup staged[c]
    BY <1>3 DEF Commit
  <2>4. QED
    BY <1>2, <2>1, <2>2, <2>3
<1>4. ASSUME NEW c \in Call, NEW outcome \in Finished, Rollback(c, outcome)
      PROVE  [Feed!FeedNext]_Feed!feed
  BY <1>2, <1>4 DEF Rollback, tables
<1>5. CASE UNCHANGED <<events, staged, sequence>>
  BY <1>5 DEF Feed!feed
<1>6. QED
  BY <1>1, <1>3, <1>4, <1>5 DEF Next, Step, Acquire, SelectRow, SelectMissing, CheckRow,
     CreateRow, Refetch, Abort, ArchiveStream, Quiescent, vars, tables, Finished

\* What load_all can see of the store behaves as the feed the projection daemon is
\* modelled over, so what is proved of the daemon over that feed holds over the
\* store.
THEOREM FeedRefinement ==
  ASSUME IsFiniteSet(Call)
  PROVE  Spec => ImplementsFeed
<1>1. Init => Feed!FeedInit
  BY DEF Init, Feed!FeedInit
<1>2. IInv /\ FeedInv /\ [Next]_vars => FeedInv' /\ [Feed!FeedNext]_Feed!feed
  BY NextFeed, FeedRefines
<1>3. QED
  BY <1>1, <1>2, InitFeed, Invariance, PTL DEF Spec, ImplementsFeed, Feed!FeedSpec

================================================================================
