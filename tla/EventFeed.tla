------------------------------- MODULE EventFeed -------------------------------
(***************************************************************************)
(* The events table as a reader by global position sees it.  A position    *)
(* is taken from the identity sequence when a row is inserted              *)
(* (src/schema.sql), becomes visible when the transaction that inserted it *)
(* commits (src/event_store.py, append) and is never used if it rolls      *)
(* back, so positions of transactions open together appear in any order.   *)
(* EventStore implements this feed (property ImplementsFeed there).        *)
(***************************************************************************)
EXTENDS Integers, FiniteSets

CONSTANTS
  MaxEvents, \* bound: positions ever taken
  MaxOpen    \* bound: positions held by open transactions at one time

VARIABLES
  sequence,  \* last position taken
  open,      \* positions inserted by transactions still open
  committed  \* positions of visible rows

feed == <<sequence, open, committed>>

FeedTypeOK ==
  /\ sequence \in 0..MaxEvents
  /\ open \subseteq 1..sequence
  /\ committed \subseteq (1..sequence) \ open

FeedInit ==
  /\ sequence = 0
  /\ open = {}
  /\ committed = {}

Insert ==
  /\ sequence < MaxEvents
  /\ Cardinality(open) < MaxOpen
  /\ sequence' = sequence + 1
  /\ open' = open \cup {sequence + 1}
  /\ UNCHANGED committed

CommitRows(rows) ==
  /\ rows # {}
  /\ open' = open \ rows
  /\ committed' = committed \cup rows
  /\ UNCHANGED sequence

RollbackRows(rows) ==
  /\ rows # {}
  /\ open' = open \ rows
  /\ UNCHANGED <<sequence, committed>>

FeedNext ==
  \/ Insert
  \/ \E rows \in SUBSET open : CommitRows(rows) \/ RollbackRows(rows)

FeedSpec == FeedInit /\ [][FeedNext]_feed

================================================================================
