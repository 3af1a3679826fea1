------------------------- MODULE OutboxPublisherProofs --------------------------
(***************************************************************************)
(* Proofs about OutboxPublisher, for every set of rows and of daemons, dry *)
(* runs among them or not, every batch size and every number of attempts,  *)
(* refusals and interrupts.                                                *)
(***************************************************************************)
EXTENDS OutboxPublisher, TLAPS

--------------------------------------------------------------------------------

\* The rows an open transaction works on are locked by it, and neither published
\* nor given up.
LockDiscipline ==
  /\ \A d \in Publisher :
       /\ pc[d] = "poll" => \A r \in Row : lock[r] # d
       /\ todo[d] \cup tried[d] \subseteq {r \in Row : lock[r] = d}
       /\ marked[d] \subseteq tried[d]
       /\ todo[d] \cap tried[d] = {}
  /\ \A r \in Row : lock[r] # Free => r \notin published /\ attempts[r] < MaxAttempts

\* Rows marked by the transaction that holds them.
Marked == {r \in Row : lock[r] # Free /\ r \in marked[lock[r]]}
Tried == {r \in Row : lock[r] # Free /\ r \in tried[lock[r]]}

MarkedWasReceived == \A r \in Marked : received[r] > 0

\* Each receipt with an answer has a mark, committed or not, or was undone by an
\* interrupt.
ReceiptsMarked ==
  \A r \in Row :
    received[r] - unsure[r] <= interrupts + (IF r \in published \cup Marked THEN 1 ELSE 0)

\* Each attempt of real publishers on a row left unpublished was refused.
AttemptsRefused ==
  DryRun = {} =>
    \A r \in Row \ published :
      refusals[r] >= attempts[r] + (IF r \in Tried \ Marked THEN 1 ELSE 0)

IInv ==
  /\ TypeOK
  /\ LockDiscipline
  /\ PublishedWasReceived
  /\ MarkedWasReceived
  /\ ReceiptsMarked
  /\ AttemptsRefused

--------------------------------------------------------------------------------

LEMMA InitInv == Init => IInv
<1> SUFFICES ASSUME Init PROVE IInv
  OBVIOUS
<1> USE DEF Init
<1>1. TypeOK
  BY OutboxAssumption DEF TypeOK
<1>2. Marked = {}
  BY OutboxAssumption DEF Marked
<1>3. LockDiscipline
  BY OutboxAssumption DEF LockDiscipline
<1>4. ReceiptsMarked /\ AttemptsRefused
  BY OutboxAssumption DEF ReceiptsMarked, AttemptsRefused, Tried
<1>5. QED
  BY <1>1, <1>2, <1>3, <1>4 DEF IInv, PublishedWasReceived, MarkedWasReceived

LEMMA AppendRowsInv ==
  ASSUME IInv, NEW rows \in SUBSET Row, NEW started \in 1..MaxStarts,
         AppendRows(rows, started)
  PROVE  IInv'
<1>1. UNCHANGED <<DryRun, published, attempts, lock, pc, todo, marked, tried,
                  received, refusals, unsure, interrupts>>
  BY DEF AppendRows, transaction, broker
<1>2. TypeOK'
  BY <1>1, OutboxAssumption DEF AppendRows, IInv, TypeOK
<1>3. QED
  BY <1>1, <1>2 DEF IInv, LockDiscipline, PublishedWasReceived, MarkedWasReceived,
    ReceiptsMarked, AttemptsRefused, Marked, Tried

LEMMA SelectBatchInv ==
  ASSUME IInv, NEW d \in Publisher, SelectBatch(d)
  PROVE  IInv'
<1> USE DEF IInv
<1>1. PICK batch \in SUBSET Pending :
        /\ todo' = [todo EXCEPT ![d] = batch]
        /\ lock' = [r \in Row |-> IF r \in batch THEN d ELSE lock[r]]
  BY DEF SelectBatch
<1>2. /\ pc[d] = "poll" /\ pc' = [pc EXCEPT ![d] = "publish"]
      /\ UNCHANGED <<DryRun, created_at, published, attempts, marked, tried,
                     received, refusals, unsure, interrupts>>
  BY DEF SelectBatch, table, broker
<1>3. /\ batch \subseteq Row /\ d # Free
      /\ \A r \in batch : lock[r] = Free /\ r \notin published /\ attempts[r] < MaxAttempts
  BY <1>1, OutboxAssumption DEF Pending, Present
<1>4. marked[d] = {} /\ tried[d] = {}
  BY <1>2 DEF LockDiscipline, TypeOK
<1>5. TypeOK'
  BY <1>1, <1>2, <1>3 DEF TypeOK
<1>6. LockDiscipline'
  <2>1. ASSUME NEW e \in Publisher
        PROVE  /\ pc'[e] = "poll" => \A r \in Row : lock'[r] # e
               /\ todo'[e] \cup tried'[e] \subseteq {r \in Row : lock'[r] = e}
               /\ marked'[e] \subseteq tried'[e]
               /\ todo'[e] \cap tried'[e] = {}
    <3>1. CASE e = d
      BY <1>1, <1>2, <1>3, <1>4, <3>1 DEF TypeOK
    <3>2. CASE e # d
      BY <1>1, <1>2, <1>3, <3>2, OutboxAssumption DEF TypeOK, LockDiscipline
    <3>3. QED
      BY <3>1, <3>2
  <2>2. \A r \in Row : lock'[r] # Free => r \notin published' /\ attempts'[r] < MaxAttempts
    BY <1>1, <1>2, <1>3 DEF LockDiscipline
  <2>3. QED
    BY <2>1, <2>2 DEF LockDiscipline
<1>7. Marked' = Marked /\ Tried' = Tried
  BY <1>1, <1>2, <1>3, <1>4 DEF Marked, Tried
<1>8. QED
  BY <1>2, <1>5, <1>6, <1>7
  DEF PublishedWasReceived, MarkedWasReceived, ReceiptsMarked, AttemptsRefused

\* A row is taken from todo and counted as tried: what any publish does.
LEMMA TakenInv ==
  ASSUME IInv, NEW d \in Publisher, NEW r \in todo[d],
         todo' = [todo EXCEPT ![d] = @ \ {r}],
         tried' = [tried EXCEPT ![d] = @ \cup {r}],
         marked' = marked \/ marked' = [marked EXCEPT ![d] = @ \cup {r}],
         UNCHANGED <<published, attempts, lock, pc>>
  PROVE  /\ LockDiscipline'
         /\ r \in Row /\ lock[r] = d /\ d # Free
         /\ r \notin published \cup Marked
         /\ Tried' = Tried \cup {r}
         /\ Marked' = IF marked' = marked THEN Marked ELSE Marked \cup {r}
<1> USE DEF IInv
<1>1. /\ r \in Row /\ lock[r] = d /\ d # Free
      /\ r \notin tried[d] /\ r \notin marked[d] /\ r \notin published
  BY OutboxAssumption DEF LockDiscipline, TypeOK
<1>2. LockDiscipline'
  BY <1>1 DEF LockDiscipline, TypeOK
<1>3. r \notin Marked
  BY <1>1 DEF Marked
<1>4. Tried' = Tried \cup {r}
  BY <1>1, OutboxAssumption DEF Tried, TypeOK, LockDiscipline
<1>5. Marked' = IF marked' = marked THEN Marked ELSE Marked \cup {r}
  <2>1. CASE marked' = marked
    BY <2>1 DEF Marked
  <2>2. CASE marked' # marked
    BY <1>1, <2>2, OutboxAssumption DEF Marked, TypeOK, LockDiscipline
  <2>3. QED
    BY <2>1, <2>2
<1>6. QED
  BY <1>1, <1>2, <1>3, <1>4, <1>5

LEMMA PublishReturnsInv ==
  ASSUME IInv, NEW d \in Publisher, NEW r \in Row, PublishReturns(d, r)
  PROVE  IInv'
<1> USE DEF IInv
<1>1. /\ r \in todo[d]
      /\ todo' = [todo EXCEPT ![d] = @ \ {r}]
      /\ tried' = [tried EXCEPT ![d] = @ \cup {r}]
      /\ UNCHANGED <<DryRun, created_at, published, attempts, lock, pc,
                     refusals, unsure, interrupts>>
  BY DEF PublishReturns, Current, table
<1>2. TypeOK'
  BY <1>1 DEF PublishReturns, TypeOK
<1>3. CASE d \in DryRun
  <2>1. marked' = marked /\ received' = received
    BY <1>3 DEF PublishReturns, MarksPublished, TypeOK
  <2>2. /\ LockDiscipline' /\ Marked' = Marked
    BY <1>1, <2>1, TakenInv
  <2>3. QED
    BY <1>1, <1>2, <1>3, <2>1, <2>2
    DEF PublishedWasReceived, MarkedWasReceived, ReceiptsMarked, AttemptsRefused
<1>4. CASE d \notin DryRun
  <2>1. /\ marked' = [marked EXCEPT ![d] = @ \cup {r}]
        /\ received' = [received EXCEPT ![r] = @ + 1]
    BY <1>4 DEF PublishReturns, MarksPublished
  <2>2. r \notin marked[d]
    BY <1>1 DEF LockDiscipline
  <2>3. marked' # marked
    BY <2>1, <2>2 DEF TypeOK
  <2>4. /\ LockDiscipline' /\ r \notin published \cup Marked
        /\ Tried' = Tried \cup {r} /\ Marked' = Marked \cup {r}
    BY <1>1, <2>1, <2>3, TakenInv
  <2>5. PublishedWasReceived' /\ MarkedWasReceived'
    BY <1>1, <2>1, <2>4 DEF PublishedWasReceived, MarkedWasReceived, TypeOK, Marked
  <2>6. ReceiptsMarked'
    BY <1>1, <2>1, <2>4, OutboxAssumption DEF ReceiptsMarked, TypeOK
  <2>7. AttemptsRefused'
    BY <1>1, <2>4 DEF AttemptsRefused, TypeOK
  <2>8. QED
    BY <1>2, <2>4, <2>5, <2>6, <2>7
<1>5. QED
  BY <1>3, <1>4

LEMMA PublishRaisesInv ==
  ASSUME IInv, NEW d \in Publisher, NEW r \in Row, PublishRaises(d, r)
  PROVE  IInv'
<1> USE DEF IInv
<1>1. /\ r \in todo[d]
      /\ todo' = [todo EXCEPT ![d] = @ \ {r}]
      /\ tried' = [tried EXCEPT ![d] = @ \cup {r}]
      /\ refusals' = [refusals EXCEPT ![r] = @ + 1]
      /\ UNCHANGED <<DryRun, created_at, published, attempts, lock, pc, marked, interrupts>>
  BY DEF PublishRaises, Current, table
<1>2. \/ received' = received /\ unsure' = unsure
      \/ /\ received' = [received EXCEPT ![r] = @ + 1]
         /\ unsure' = [unsure EXCEPT ![r] = @ + 1]
  BY DEF PublishRaises
<1>3. TypeOK'
  BY <1>1, <1>2 DEF TypeOK
<1>4. /\ LockDiscipline' /\ r \notin published \cup Marked
      /\ Tried' = Tried \cup {r} /\ Marked' = Marked
  BY <1>1, TakenInv
<1>5. r \notin Tried
  BY <1>1, <1>4 DEF LockDiscipline, Tried, TypeOK
<1>6. PublishedWasReceived' /\ MarkedWasReceived'
  BY <1>1, <1>2, <1>4 DEF PublishedWasReceived, MarkedWasReceived, TypeOK, Marked
<1>7. ReceiptsMarked'
  BY <1>1, <1>2, <1>4, OutboxAssumption DEF ReceiptsMarked, TypeOK
<1>8. AttemptsRefused'
  BY <1>1, <1>4, <1>5, OutboxAssumption DEF AttemptsRefused, TypeOK
<1>9. QED
  BY <1>3, <1>4, <1>6, <1>7, <1>8

\* What is left of a transaction that has ended.
LEMMA EndTransactionKeeps ==
  ASSUME IInv, NEW d \in Publisher, EndTransaction(d)
  PROVE  /\ lock' \in [Row -> Publisher \cup {Free}]
         /\ pc' \in [Publisher -> {"poll", "publish"}]
         /\ todo' \in [Publisher -> SUBSET Row]
         /\ marked' \in [Publisher -> SUBSET Row]
         /\ tried' \in [Publisher -> SUBSET Row]
         /\ \A e \in Publisher :
              /\ pc'[e] = "poll" => \A r \in Row : lock'[r] # e
              /\ todo'[e] \cup tried'[e] \subseteq {r \in Row : lock'[r] = e}
              /\ marked'[e] \subseteq tried'[e]
              /\ todo'[e] \cap tried'[e] = {}
         /\ \A r \in Row : lock'[r] # Free => lock[r] # Free /\ lock[r] # d /\ lock'[r] = lock[r]
         /\ Marked' = Marked \ marked[d]
         /\ Tried' = Tried \ tried[d]
<1> USE DEF IInv, EndTransaction
<1>1. d # Free
  BY OutboxAssumption
<1>2. \A r \in Row : lock'[r] = IF lock[r] = d THEN Free ELSE lock[r]
  OBVIOUS
<1>3. \A e \in Publisher : e # d => /\ pc'[e] = pc[e] /\ todo'[e] = todo[e]
                                    /\ marked'[e] = marked[e] /\ tried'[e] = tried[e]
  BY DEF TypeOK
<1>4. pc'[d] = "poll" /\ todo'[d] = {} /\ marked'[d] = {} /\ tried'[d] = {}
  BY DEF TypeOK
<1>5. ASSUME NEW e \in Publisher
      PROVE  /\ pc'[e] = "poll" => \A r \in Row : lock'[r] # e
             /\ todo'[e] \cup tried'[e] \subseteq {r \in Row : lock'[r] = e}
             /\ marked'[e] \subseteq tried'[e]
             /\ todo'[e] \cap tried'[e] = {}
  <2>1. CASE e = d
    BY <1>1, <1>2, <1>4, <2>1
  <2>2. CASE e # d
    BY <1>1, <1>2, <1>3, <2>2, OutboxAssumption DEF LockDiscipline
  <2>3. QED
    BY <2>1, <2>2
<1>6. \A r \in marked[d] \cup tried[d] : r \in Row /\ lock[r] = d
  BY DEF LockDiscipline
<1>7. \A e \in Publisher \ {d} : \A r \in marked[e] \cup tried[e] : lock[r] = e
  BY DEF LockDiscipline
<1>8. Marked' = Marked \ marked[d]
  BY <1>1, <1>2, <1>3, <1>6, <1>7 DEF Marked, TypeOK
<1>9. Tried' = Tried \ tried[d]
  BY <1>1, <1>2, <1>3, <1>6, <1>7 DEF Tried, TypeOK
<1>10. QED
  BY <1>1, <1>2, <1>5, <1>8, <1>9 DEF TypeOK

LEMMA CommitBatchInv ==
  ASSUME IInv, NEW d \in Publisher, CommitBatch(d)
  PROVE  IInv'
<1> USE DEF IInv
<1>1. /\ EndTransaction(d)
      /\ published' = published \cup marked[d]
      /\ attempts' = [r \in Row |-> IF r \in tried[d] THEN attempts[r] + 1 ELSE attempts[r]]
      /\ UNCHANGED <<DryRun, created_at, received, refusals, unsure, interrupts>>
  BY DEF CommitBatch, AttemptsCounted, broker
<1>2. \A r \in marked[d] \cup tried[d] : /\ r \in Row /\ lock[r] = d /\ d # Free
                                         /\ r \notin published /\ attempts[r] < MaxAttempts
  BY OutboxAssumption DEF LockDiscipline
<1>3. marked[d] \subseteq Marked /\ marked[d] \subseteq tried[d] /\ tried[d] \subseteq Tried
  BY <1>2 DEF Marked, Tried, LockDiscipline
<1>4. /\ Marked' = Marked \ marked[d]
      /\ Tried' = Tried \ tried[d]
      /\ \A r \in Row : lock'[r] # Free => lock[r] # Free /\ lock[r] # d /\ lock'[r] = lock[r]
  BY <1>1, EndTransactionKeeps
<1>5. TypeOK'
  <2>1. published' \subseteq Row
    BY <1>1, <1>2 DEF TypeOK
  <2>2. attempts' \in [Row -> 0..MaxAttempts]
    BY <1>1, <1>2, OutboxAssumption DEF TypeOK
  <2>3. QED
    BY <1>1, <2>1, <2>2, EndTransactionKeeps DEF TypeOK
<1>6. LockDiscipline'
  <2>1. \A r \in Row : lock'[r] # Free => r \notin published' /\ attempts'[r] < MaxAttempts
    BY <1>1, <1>2, <1>4 DEF LockDiscipline
  <2>2. QED
    BY <1>1, <2>1, EndTransactionKeeps DEF LockDiscipline
<1>7. PublishedWasReceived' /\ MarkedWasReceived'
  BY <1>1, <1>3, <1>4 DEF PublishedWasReceived, MarkedWasReceived
<1>8. ReceiptsMarked'
  <2>1. published' \cup Marked' = published \cup Marked
    BY <1>1, <1>3, <1>4
  <2>2. QED
    BY <1>1, <2>1 DEF ReceiptsMarked
<1>9. AttemptsRefused'
  <2>1. ASSUME DryRun = {}, NEW r \in Row, r \notin published'
        PROVE  refusals[r] >= attempts'[r] + (IF r \in Tried' \ Marked' THEN 1 ELSE 0)
    <3>1. r \notin published /\ r \notin marked[d]
      BY <1>1, <2>1
    <3>2. refusals[r] >= attempts[r] + (IF r \in Tried \ Marked THEN 1 ELSE 0)
      BY <2>1, <3>1 DEF AttemptsRefused
    <3>3. refusals[r] \in Nat /\ attempts[r] \in Nat
      BY DEF TypeOK
    <3>4. CASE r \in tried[d]
      <4>1. r \in Tried /\ r \notin Marked
        BY <1>2, <1>3, <3>1, <3>4 DEF Marked
      <4>2. attempts'[r] = attempts[r] + 1 /\ r \notin Tried'
        BY <1>1, <1>4, <3>4
      <4>3. QED
        BY <3>2, <3>3, <4>1, <4>2
    <3>5. CASE r \notin tried[d]
      BY <1>1, <1>4, <3>1, <3>2, <3>3, <3>5
    <3>6. QED
      BY <3>4, <3>5
  <2>2. QED
    BY <1>1, <2>1 DEF AttemptsRefused
<1>10. QED
  BY <1>5, <1>6, <1>7, <1>8, <1>9

LEMMA InterruptInv ==
  ASSUME IInv, NEW d \in Publisher, Interrupt(d)
  PROVE  IInv'
<1> USE DEF IInv
<1>1. /\ EndTransaction(d)
      /\ interrupts < MaxInterrupts /\ interrupts' = interrupts + 1
      /\ UNCHANGED <<DryRun, created_at, published, attempts, received, refusals, unsure>>
  BY DEF Interrupt, table, broker
<1>2. TypeOK'
  BY <1>1, EndTransactionKeeps, OutboxAssumption DEF TypeOK
<1>3. LockDiscipline'
  BY <1>1, EndTransactionKeeps DEF LockDiscipline
<1>4. Marked' = Marked \ marked[d] /\ Tried' = Tried \ tried[d]
  BY <1>1, EndTransactionKeeps
<1>5. marked[d] \subseteq tried[d] /\ tried[d] \subseteq Tried
  BY OutboxAssumption DEF Tried, LockDiscipline
<1>6. PublishedWasReceived' /\ MarkedWasReceived'
  BY <1>1, <1>4 DEF PublishedWasReceived, MarkedWasReceived
<1>7. ReceiptsMarked'
  BY <1>1, <1>4, OutboxAssumption DEF ReceiptsMarked, TypeOK
<1>8. AttemptsRefused'
  <2>1. Tried' \ Marked' \subseteq Tried \ Marked
    BY <1>4, <1>5
  <2>2. QED
    BY <1>1, <2>1 DEF AttemptsRefused, TypeOK
<1>9. QED
  BY <1>2, <1>3, <1>6, <1>7, <1>8

LEMMA NextInv == IInv /\ [Next]_vars => IInv'
<1> SUFFICES ASSUME IInv, [Next]_vars PROVE IInv'
  OBVIOUS
<1>1. CASE UNCHANGED vars
  BY <1>1 DEF vars, table, transaction, broker, IInv, TypeOK, LockDiscipline,
    PublishedWasReceived, MarkedWasReceived, ReceiptsMarked, AttemptsRefused, Marked, Tried
<1>2. ASSUME NEW d \in Publisher, ProcessBatch(d) PROVE IInv'
  BY <1>1, <1>2, SelectBatchInv, PublishReturnsInv, PublishRaisesInv, CommitBatchInv
  DEF ProcessBatch, SelectNothing
<1>3. QED
  BY <1>1, <1>2, AppendRowsInv, InterruptInv DEF Next

LEMMA Invariance == Spec => []IInv
<1>1. Init => IInv
  BY InitInv
<1>2. IInv /\ [Next]_vars => IInv'
  BY NextInv
<1>3. QED
  BY <1>1, <1>2, PTL DEF Spec

--------------------------------------------------------------------------------

\* Among other things, no daemon takes a row beyond max_attempts attempts.
THEOREM TypeCorrect == Spec => []TypeOK
<1>1. IInv => TypeOK
  BY DEF IInv
<1>2. QED
  BY <1>1, Invariance, PTL

\* What the table calls published, Kafka has received.
THEOREM PublishedMeansReceived == Spec => []PublishedWasReceived
<1>1. IInv => PublishedWasReceived
  BY DEF IInv
<1>2. QED
  BY <1>1, Invariance, PTL

\* A row is received at most once beyond its lost answers and the batches that did
\* not commit, however many daemons drain the table.
THEOREM RepeatsAreAccounted == Spec => []RepeatsAccounted
<1>1. IInv => RepeatsAccounted
  <2> SUFFICES ASSUME IInv, NEW r \in Row
               PROVE  received[r] - unsure[r] <= 1 + interrupts
    BY DEF RepeatsAccounted
  <2>1. /\ received[r] \in Nat /\ unsure[r] \in Nat /\ interrupts \in Nat
        /\ received[r] - unsure[r]
             <= interrupts + (IF r \in published \cup Marked THEN 1 ELSE 0)
    BY OutboxAssumption DEF IInv, TypeOK, ReceiptsMarked
  <2>2. QED
    BY <2>1
<1>2. QED
  BY <1>1, Invariance, PTL

\* Real publishers give a row up only after max_attempts refusals.
THEOREM GivenUpAfterRefusals == Spec => []GivenUpMeansRefused
<1>1. IInv => GivenUpMeansRefused
  <2> SUFFICES ASSUME IInv, DryRun = {}, NEW r \in Present \ published,
                      attempts[r] = MaxAttempts
               PROVE  refusals[r] >= MaxAttempts
    BY DEF GivenUpMeansRefused
  <2>1. refusals[r] \in Nat /\ r \in Row
    BY DEF IInv, TypeOK, Present
  <2>2. refusals[r] >= attempts[r] + (IF r \in Tried \ Marked THEN 1 ELSE 0)
    BY <2>1 DEF IInv, AttemptsRefused
  <2>3. QED
    BY <2>1, <2>2, OutboxAssumption
<1>2. QED
  BY <1>1, Invariance, PTL

\* No step of any daemon touches a row that is published or given up.
THEOREM SettledStaysSettled == Spec => SettledIsFinal
<1> DEFINE Final ==
      \A r \in Row :
        r \in published \/ attempts[r] = MaxAttempts =>
          received'[r] = received[r] /\ attempts'[r] = attempts[r]
<1>1. IInv /\ [Next]_vars => [Final]_vars
  <2> SUFFICES ASSUME IInv, Next, NEW r \in Row,
                      r \in published \/ attempts[r] = MaxAttempts
               PROVE  received'[r] = received[r] /\ attempts'[r] = attempts[r]
    OBVIOUS
  <2>1. lock[r] = Free
    BY OutboxAssumption DEF IInv, LockDiscipline, TypeOK
  <2>2. \A d \in Publisher : r \notin todo[d] /\ r \notin tried[d]
    BY <2>1, OutboxAssumption DEF IInv, LockDiscipline
  <2>3. ASSUME NEW d \in Publisher, NEW q \in Row, PublishReturns(d, q) \/ PublishRaises(d, q)
        PROVE  received'[r] = received[r] /\ attempts'[r] = attempts[r]
    <3>1. q # r /\ UNCHANGED attempts
      BY <2>2, <2>3 DEF PublishReturns, PublishRaises, Current, table
    <3>2. received'[r] = received[r]
      BY <2>3, <3>1 DEF PublishReturns, PublishRaises, IInv, TypeOK
    <3>3. QED
      BY <3>1, <3>2
  <2>4. ASSUME NEW d \in Publisher, CommitBatch(d)
        PROVE  received'[r] = received[r] /\ attempts'[r] = attempts[r]
    BY <2>2, <2>4 DEF CommitBatch, AttemptsCounted, broker
  <2>5. QED
    BY <2>3, <2>4 DEF Next, AppendRows, ProcessBatch, SelectBatch, SelectNothing, Interrupt,
      vars, table, broker
<1>2. QED
  BY <1>1, Invariance, PTL DEF Spec, SettledIsFinal

================================================================================
