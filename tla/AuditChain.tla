------------------------------ MODULE AuditChain -------------------------------
(***************************************************************************)
(* run_integrity_check (src/integrity/audit_chain.py) on one entity: a     *)
(* check hashes the entity's stream, chains the result to the check before *)
(* it and appends an AuditIntegrityCheckRun to the audit stream.  Checks   *)
(* interleave between their four reads and writes, with each other and     *)
(* with appends to the entity.                                             *)
(*                                                                         *)
(* SHA-256 is taken to be free of collisions: the chain hash of a list of  *)
(* payloads is the list itself, "" being the empty list, and hashing on    *)
(* from a previous hash is concatenation.                                  *)
(***************************************************************************)
EXTENDS Integers, Sequences, SequencesExt, FiniteSets

CONSTANTS
  Check,      \* invocations of the tool
  Payload,    \* payloads of events
  MaxEvents,  \* bound: length of the entity's stream
  MaxChanges  \* bound: stored payloads changed in place

ASSUME AuditAssumption ==
  /\ MaxEvents \in Nat
  /\ MaxChanges \in Nat

VARIABLES
  events,   \* payloads of the entity's stream
  audits,   \* AuditIntegrityCheckRun events, in order
  \* each check
  pc,
  loaded,   \* payloads it has read
  result,   \* the event it will append, and its verdict
  version,  \* audit_ledger.version
  began,    \* records there were when it began (not in the code)
  \* the environment
  changes   \* positions of verified events whose payload was changed in place

check == <<pc, loaded, result, version, began>>
vars == <<events, audits, check, changes>>

Hash == UNION {[1..n -> Payload] : n \in 0..MaxEvents}

Audit == [events_verified_count : 0..MaxEvents, integrity_hash : Hash,
          previous_hash : Hash, tamper_detected : BOOLEAN]

TypeOK ==
  /\ events \in Hash
  /\ audits \in Seq(Audit)
  /\ pc \in [Check -> {"load", "audits", "ledger", "append", "done", "conflict"}]
  /\ loaded \in [Check -> Hash]
  /\ result \in [Check -> Audit]
  /\ version \in [Check -> Nat]
  /\ began \in [Check -> Nat]
  /\ changes \in SUBSET (1..MaxEvents)

--------------------------------------------------------------------------------

ChainHash(previous, payloads) == previous \o payloads

Genesis == [events_verified_count |-> 0, integrity_hash |-> <<>>,
            previous_hash |-> <<>>, tamper_detected |-> FALSE]

Smaller(m, n) == IF m < n THEN m ELSE n

\* Slips a maintainer could make, each paired in PROJECT.json with the property
\* that notices it: chaining on from the previous hash whatever it covers, naming
\* the hash before the previous one.
VerdictUnverified(payloads, last) ==
  LET new == SubSeq(payloads, Smaller(last.events_verified_count, Len(payloads)) + 1,
                    Len(payloads))
  IN  [events_verified_count |-> Len(payloads),
       integrity_hash |-> ChainHash(last.integrity_hash, new),
       previous_hash |-> last.integrity_hash,
       tamper_detected |-> FALSE]
VerdictGrandparent(payloads, last) ==
  [events_verified_count |-> Len(payloads),
   integrity_hash |-> payloads,
   previous_hash |-> last.previous_hash,
   tamper_detected |-> FALSE]

\* The outcome of a check that read these payloads and this last audit, Genesis
\* when there is none.  A prefix that does not hash to the stored hash starts a
\* new baseline; otherwise the chain goes on and is compared with itself, computed
\* from the start.
Verdict(payloads, last) ==
  LET count == Smaller(last.events_verified_count, Len(payloads))
      prefix == SubSeq(payloads, 1, count)
      rest == SubSeq(payloads, count + 1, Len(payloads))
      rebaseline == prefix # last.integrity_hash
      hash == IF rebaseline THEN payloads ELSE ChainHash(last.integrity_hash, rest)
  IN  [events_verified_count |-> Len(payloads),
       integrity_hash |-> hash,
       previous_hash |-> prefix,
       tamper_detected |-> ~rebaseline /\ hash # payloads]

--------------------------------------------------------------------------------

Init ==
  /\ events = <<>>
  /\ audits = <<>>
  /\ pc = [c \in Check |-> "load"]
  /\ loaded = [c \in Check |-> <<>>]
  /\ result = [c \in Check |-> Genesis]
  /\ version = [c \in Check |-> 0]
  /\ began = [c \in Check |-> 0]
  /\ changes = {}

\* load_stream of the entity.
LoadEvents(c) ==
  /\ pc[c] = "load"
  /\ loaded' = [loaded EXCEPT ![c] = events]
  /\ began' = [began EXCEPT ![c] = Len(audits)]
  /\ pc' = [pc EXCEPT ![c] = "audits"]
  /\ UNCHANGED <<events, audits, result, version, changes>>

\* load_stream of the audit stream, and the computation of the new hash.
LoadLastAudit(c) ==
  /\ pc[c] = "audits"
  /\ LET last == IF audits = <<>> THEN Genesis ELSE Last(audits)
     IN  result' = [result EXCEPT ![c] = Verdict(loaded[c], last)]
  /\ pc' = [pc EXCEPT ![c] = "ledger"]
  /\ UNCHANGED <<events, audits, loaded, version, began, changes>>

\* AuditLedgerAggregate.load: the audit stream a second time, for its version.
LoadLedger(c) ==
  /\ pc[c] = "ledger"
  /\ version' = [version EXCEPT ![c] = Len(audits)]
  /\ pc' = [pc EXCEPT ![c] = "append"]
  /\ UNCHANGED <<events, audits, loaded, result, began, changes>>

AppendAudit(c) ==
  /\ pc[c] = "append"
  /\ \/ /\ Len(audits) = version[c]
        /\ audits' = Append(audits, result[c])
        /\ pc' = [pc EXCEPT ![c] = "done"]
     \/ /\ Len(audits) # version[c]
        /\ pc' = [pc EXCEPT ![c] = "conflict"]
        /\ UNCHANGED audits
  /\ UNCHANGED <<events, loaded, result, version, began, changes>>

\* Handlers and agents append to the entity's stream.
AppendEvent(p) ==
  /\ Len(events) < MaxEvents
  /\ events' = Append(events, p)
  /\ UNCHANGED <<audits, check, changes>>

\* A stored payload that a check has verified is changed in place: what the chain
\* is there to notice.
ChangeEvent(i, p) ==
  /\ Cardinality(changes) < MaxChanges
  /\ audits # <<>>
  /\ i <= Last(audits).events_verified_count
  /\ i \notin changes
  /\ events[i] # p
  /\ events' = [events EXCEPT ![i] = p]
  /\ changes' = changes \cup {i}
  /\ UNCHANGED <<audits, check>>

\* The finite set of checks of an instance is used up.
Quiescent ==
  /\ \A c \in Check : pc[c] \in {"done", "conflict"}
  /\ UNCHANGED vars

RunCheck(c) ==
  \/ LoadEvents(c)
  \/ LoadLastAudit(c)
  \/ LoadLedger(c)
  \/ AppendAudit(c)

Next ==
  \/ \E c \in Check : RunCheck(c)
  \/ \E p \in Payload : AppendEvent(p)
  \/ \E i \in DOMAIN events, p \in Payload : ChangeEvent(i, p)
  \/ Quiescent

Spec == Init /\ [][Next]_vars

--------------------------------------------------------------------------------

\* The record at i names the hash of the one before it, and covers no less.
Linked(log, i) ==
  i > 1 => /\ log[i].previous_hash = log[i - 1].integrity_hash
           /\ log[i].events_verified_count >= log[i - 1].events_verified_count

\* "Each AuditIntegrityCheckRun event records a SHA-256 hash of all events since
\* the previous check, chained to the previous check's hash" (lines 4-5).  Not each:
\* a check reads its version after the hash it chains to, so two that overlap can
\* name the same predecessor without a conflict.  What is left: a check before
\* whose first read the previous record was already there extends the chain,
\* whatever is appended to the entity while it runs and whatever other checks do,
\* so long as no stored payload changes.
ForksNeedOverlap ==
  [][\A c \in Check :
       /\ pc[c] = "append" /\ pc'[c] = "done"
       /\ began[c] = Len(audits)
       /\ changes = {}
       => Linked(audits', Len(audits'))]_vars

\* As long as no stored payload changes, every record is the hash of the prefix it
\* counts, whatever order checks and appends took.
RecordsArePrefixes ==
  changes = {} =>
    \A i \in DOMAIN audits :
      audits[i].integrity_hash = SubSeq(events, 1, audits[i].events_verified_count)

================================================================================
