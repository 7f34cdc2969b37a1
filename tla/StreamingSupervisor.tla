-------------------------- MODULE StreamingSupervisor -------------------------
(***************************************************************************)
(* StreamingSupervisor (broker_adapters/_shared/streaming.py): the state   *)
(* of a feed whose messages may be lost, repeated and delivered out of     *)
(* order, over connections that break.  Message n has the sequence n; it   *)
(* has an id unless n is in Nameless.                                      *)
(*                                                                         *)
(* ingest is one step: between the gap and last_sequence it awaits only a  *)
(* callback, on_degraded, which nothing in src/ sets.  A message without a *)
(* sequence, which moves nothing but the ids, is left out.                 *)
(***************************************************************************)
EXTENDS Integers, FiniteSets

CONSTANTS
  MaxSequence,   \* bound: the messages of the feed
  Nameless,      \* the messages without an id
  MaxSeen, Keep, \* 10_000 and 5000
  MaxAttempts    \* of a reconnect_loop

ASSUME StreamAssumption ==
  /\ MaxSequence \in Nat /\ Nameless \subseteq 1 .. MaxSequence
  /\ MaxSeen \in Nat /\ Keep \in 0 .. MaxSeen /\ MaxAttempts \in Nat

VARIABLES
  connected, degraded,
  last,      \* last_sequence; 0 is none
  seen,      \* seen_ids
  gaps,      \* gaps > 0
  attempts,  \* left to reconnect_loop; 0: it is not running
  accepted,  \* the messages ingest returned True for, and from which one on
  first

streamVars == <<connected, degraded, last, seen, gaps, attempts, accepted, first>>

StreamInit ==
  /\ connected = FALSE /\ degraded = FALSE
  /\ last = 0 /\ seen = {} /\ gaps = FALSE
  /\ attempts = 0 /\ accepted = {} /\ first = 0

StreamTypeOK ==
  /\ {connected, degraded, gaps} \subseteq BOOLEAN
  /\ last \in 0 .. MaxSequence /\ first \in 0 .. MaxSequence
  /\ seen \subseteq accepted \ Nameless /\ Cardinality(seen) =< MaxSeen
  /\ attempts \in 0 .. MaxAttempts

Duplicate(m) == m \in seen
IsGapAtRest(m) == last # 0 /\ m > last + 1 /\ ~degraded
IsGap(m) == last # 0 /\ m > last + 1

\* The window of ids is cut to any of them: a set has no order.
Windows(ids) ==
  IF Cardinality(ids) =< MaxSeen THEN {ids} ELSE {w \in SUBSET ids : Cardinality(w) = Keep}

Ingest(m) ==
  /\ ~Duplicate(m)
  /\ seen' \in Windows(IF m \in Nameless THEN seen ELSE seen \cup {m})
  /\ IF IsGap(m) THEN gaps' = TRUE /\ degraded' = TRUE ELSE UNCHANGED <<gaps, degraded>>
  /\ last' = m
  /\ connected' = TRUE
  /\ accepted' = accepted \cup {m}
  /\ first' = IF first = 0 THEN m ELSE first
  /\ UNCHANGED attempts

NoteConnected == connected' = TRUE /\ degraded' = FALSE
NoteDisconnected == connected' = FALSE /\ degraded' = TRUE

Disconnect ==
  /\ connected /\ attempts = 0
  /\ NoteDisconnected
  /\ attempts' = MaxAttempts
  /\ UNCHANGED <<last, seen, gaps, accepted, first>>

\* reconnect_loop
Reconnect ==
  /\ attempts > 0
  /\ \/ NoteConnected /\ attempts' = 0
     \/ NoteDisconnected /\ attempts' = attempts - 1
  /\ UNCHANGED <<last, seen, gaps, accepted, first>>

\* check_frozen, too long after the last message
CheckFrozen ==
  /\ accepted # {} /\ ~degraded
  /\ degraded' = TRUE
  /\ UNCHANGED <<connected, last, seen, gaps, attempts, accepted, first>>

StreamNext ==
  \/ \E m \in 1 .. MaxSequence : Ingest(m)
  \/ Disconnect
  \/ Reconnect
  \/ CheckFrozen

\* As long as no gap was reported, no message is missing between the first one and any
\* other that was accepted, however the feed lost, repeated and reordered them and
\* whatever connections broke.
GapsAreNoticed ==
  ~gaps => \A m \in accepted : m > first => first .. m \subseteq accepted
=============================================================================
