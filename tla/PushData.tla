------------------------------ MODULE PushData ------------------------------
(***************************************************************************)
(* The data of the event push source (agentlight-source-events) and the    *)
(* pure transformations its operations are made of.                        *)
(*                                                                         *)
(* The live set is a function from session ids to a status, with NoSession *)
(* for an id the HashMap does not hold; the producer index is a function   *)
(* from ids to a producer, with NoProducer for an id without an entry.     *)
(* The tombstone list keeps its order, because the cap evicts its oldest   *)
(* member.  A status stands for the whole session record (status, name,    *)
(* project, link and timestamps): no step branches on the rest except      *)
(* through the equality test that decides whether a call changed anything. *)
(*                                                                         *)
(* Operators named Mut... are bugs that a property of some run must catch; *)
(* no other definition uses them.                                          *)
(***************************************************************************)
EXTENDS Integers, Sequences, FiniteSets

CONSTANTS
  SessionIds,   \* session ids the producers may use
  Producers,    \* producer names
  NoProducer,   \* an event, or an id, without a producer
  Statuses,     \* statuses an event may carry
  Done,         \* the status that clear_done removes
  NoSession,    \* the id is not in the live set
  MAX_REMOVED   \* how many tombstones are kept

ASSUME DataAssumption ==
  /\ NoProducer \notin Producers
  /\ Done \in Statuses
  /\ NoSession \notin Statuses
  /\ MAX_REMOVED \in Nat \ {0}

(***************************************************************************)
(* What the event of one session says, and a batch of events.  A batch     *)
(* names a session at most once (of several events for one id the last     *)
(* one would win); `producer' is the first producer named by any event,    *)
(* hence any of those named, and NoProducer when no event names one.       *)
(***************************************************************************)
Payload == [status : Statuses, producer : Producers \cup {NoProducer}]

Events == UNION {[S -> Payload] : S \in SUBSET SessionIds}

Named(events) == {events[i].producer : i \in DOMAIN events} \ {NoProducer}

Batches ==
  {b \in [events : Events, producer : Producers \cup {NoProducer}] :
     IF Named(b.events) = {} THEN b.producer = NoProducer
                             ELSE b.producer \in Named(b.events)}

LiveSet == [SessionIds -> Statuses \cup {NoSession}]
ProducerIndex == [SessionIds -> Producers \cup {NoProducer}]

Live(sessions) == {i \in SessionIds : sessions[i] # NoSession}
DoneIds(sessions) == {i \in SessionIds : sessions[i] = Done}

-----------------------------------------------------------------------------
(***************************************************************************)
(* Sessions and producers under their two locks.                           *)
(***************************************************************************)

MutUpserted(sessions, events) ==
  [i \in SessionIds |-> IF i \in DOMAIN events THEN events[i].producer
                                               ELSE sessions[i]]

\* Upsert every event of the batch.
Upserted(sessions, events) ==
  [i \in SessionIds |-> IF i \in DOMAIN events THEN events[i].status
                                               ELSE sessions[i]]

\* The producer of an event replaces the entry of its id, or removes it.
Reindexed(producers, events) ==
  [i \in SessionIds |-> IF i \in DOMAIN events THEN events[i].producer
                                               ELSE producers[i]]

MutPrunable(producers, keep, producer) ==
  {i \in SessionIds \ keep : producer # NoProducer}

\* The sessions a snapshot of `producer' prunes: its own, absent from `keep'.
\* A batch without a producer prunes nothing.
Prunable(producers, keep, producer) ==
  {i \in SessionIds \ keep : /\ producer # NoProducer
                             /\ producers[i] = producer}

\* The live set without the ids in S.
Without(sessions, S) ==
  [i \in SessionIds |-> IF i \in S THEN NoSession ELSE sessions[i]]

\* The index without the entries of ids that are not live.
IndexOfLive(producers, sessions) ==
  [i \in SessionIds |-> IF sessions[i] = NoSession THEN NoProducer
                                                   ELSE producers[i]]

\* The events of ids in S only.
EventsOf(events, S) == [i \in DOMAIN events \cap S |-> events[i]]

-----------------------------------------------------------------------------
(***************************************************************************)
(* The tombstone list, oldest first.                                       *)
(***************************************************************************)
Tombstones(removed) == {removed[k] : k \in DOMAIN removed}

\* Drop the tombstone of i, if there is one.
Forgotten(removed, i) ==
  IF i \in Tombstones(removed)
  THEN LET k == CHOOSE n \in DOMAIN removed : removed[n] = i
       IN  SubSeq(removed, 1, k - 1) \o SubSeq(removed, k + 1, Len(removed))
  ELSE removed

MutCapped(removed) ==
  IF Len(removed) > MAX_REMOVED + 1
  THEN SubSeq(removed, Len(removed) - MAX_REMOVED + 1, Len(removed))
  ELSE removed

\* The newest MAX_REMOVED members of the list.
Capped(removed) ==
  IF Len(removed) > MAX_REMOVED
  THEN SubSeq(removed, Len(removed) - MAX_REMOVED + 1, Len(removed))
  ELSE removed

\* Add a tombstone for i unless it has one, evicting the oldest over the cap.
Remembered(removed, i) ==
  IF i \in Tombstones(removed) THEN removed ELSE Capped(Append(removed, i))

\* No id has two tombstones.
Distinct(removed) ==
  \A j, k \in DOMAIN removed : removed[j] = removed[k] => j = k

=============================================================================
