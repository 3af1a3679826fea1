--------------------------- MODULE RegulatoryPackage ---------------------------
(***************************************************************************)
(* generate_regulatory_package (src/regulatory/package.py) beside the      *)
(* audit chain: it reads the entity's stream, then runs an integrity check *)
(* that reads the stream again, and puts both in one package.  Of the      *)
(* stream it keeps what was recorded up to the examination date; events    *)
(* are recorded in the order of their positions, so a date is the number   *)
(* of events recorded up to it.  The compliance view is read through       *)
(* ComplianceAudit; narrative and participation retell the event stream.   *)
(***************************************************************************)
EXTENDS AuditChain

CONSTANT
  Examined  \* the checks that a package runs; the others come from the tool

ASSUME PackageAssumption == Examined \subseteq Check

VARIABLES
  package,  \* of each of them
  altered   \* payloads that had been changed when it was begun (not in the code)

packageVars == <<package, altered>>
allVars == <<vars, package, altered>>

Unfinished == [status |-> "none", event_stream |-> <<>>, integrity_hash |-> <<>>,
               events_verified |-> 0, chain_valid |-> FALSE]

PackageTypeOK ==
  /\ TypeOK
  /\ package \in [Examined -> [status : {"none", "begun", "finished"}, event_stream : Hash,
                               integrity_hash : Hash, events_verified : 0..MaxEvents,
                               chain_valid : BOOLEAN]]
  /\ altered \in [Examined -> SUBSET (1..MaxEvents)]

PackageInit ==
  /\ Init
  /\ package = [c \in Examined |-> Unfinished]
  /\ altered = [c \in Examined |-> {}]

\* load_stream, and the events up to the date.
BeginPackage(c, examination_date) ==
  /\ package[c].status = "none"
  /\ package' = [package EXCEPT ![c] =
       [Unfinished EXCEPT !.status = "begun",
          !.event_stream = SubSeq(events, 1, Smaller(examination_date, Len(events)))]]
  /\ altered' = [altered EXCEPT ![c] = changes]
  /\ UNCHANGED vars

\* The check raised a conflict: the package says so, and holds no hash.
WithError(p) == [p EXCEPT !.status = "finished"]

WithIntegrity(p, audit) ==
  [p EXCEPT !.status = "finished",
            !.integrity_hash = audit.integrity_hash,
            !.events_verified = audit.events_verified_count,
            !.chain_valid = ~audit.tamper_detected]

FinishPackage(c) ==
  /\ package[c].status = "begun"
  /\ \/ pc[c] = "done" /\ package' = [package EXCEPT ![c] = WithIntegrity(@, result[c])]
     \/ pc[c] = "conflict" /\ package' = [package EXCEPT ![c] = WithError(@)]
  /\ UNCHANGED <<vars, altered>>

\* run_integrity_check for a package starts once the stream is read.
CheckForPackage(c) ==
  /\ c \in Examined => package[c].status = "begun"
  /\ RunCheck(c)
  /\ UNCHANGED packageVars

AroundPackages ==
  /\ \/ \E p \in Payload : AppendEvent(p)
     \/ \E i \in DOMAIN events, p \in Payload : ChangeEvent(i, p)
  /\ UNCHANGED packageVars

PackagesDone ==
  /\ \A c \in Examined : package[c].status = "finished"
  /\ Quiescent
  /\ UNCHANGED packageVars

PackageNext ==
  \/ \E c \in Examined :
       \/ \E date \in 0..MaxEvents : BeginPackage(c, date)
       \/ FinishPackage(c)
  \/ \E c \in Check : CheckForPackage(c)
  \/ AroundPackages
  \/ PackagesDone

PackageSpec == PackageInit /\ [][PackageNext]_allVars

--------------------------------------------------------------------------------

\* "The package is independently verifiable" (package.py, line 66): although stream
\* and hash come from two reads, with appends and other checks in between, the
\* events in a package are the first of those its integrity hash covers, if the
\* check went through.  They differ only when a payload was changed between the two
\* reads; a change made before the package was begun is in both, however often an
\* older record of the chain contradicts it.
PackageVerifiable ==
  \A c \in Examined :
    LET p == package[c]
    IN  p.status = "finished" /\ p.chain_valid =>
          /\ p.events_verified = Len(p.integrity_hash)
          /\ changes = altered[c] => IsPrefix(p.event_stream, p.integrity_hash)

================================================================================
