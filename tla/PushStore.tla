----------------------------- MODULE PushStore ------------------------------
(***************************************************************************)
(* What the push source promises: every operation takes effect at once,    *)
(* on the live set, the producer index and the tombstones together.        *)
(*                                                                         *)
(* This is the abstract specification.  PushSource.tla is the code, one    *)
(* lock section at a time; with one request in flight its durable store    *)
(* goes through exactly the steps of this module.                          *)
(*                                                                         *)
(* Tombstones are a set here: which ones the cap evicts is not promised    *)
(* beyond "the newest stay".                                               *)
(***************************************************************************)
EXTENDS PushData

VARIABLES
  sessions,    \* the live set
  producers,   \* the producer of each session that has one
  tombstones   \* ids the user removed and no producer has upserted since

vars == <<sessions, producers, tombstones>>

TypeOK ==
  /\ sessions \in LiveSet
  /\ producers \in ProducerIndex
  /\ tombstones \in SUBSET SessionIds

Init ==
  /\ sessions = [i \in SessionIds |-> NoSession]
  /\ producers = [i \in SessionIds |-> NoProducer]
  /\ tombstones = {}

\* The tombstones after S was removed: all of them while they fit, otherwise
\* as many as the cap allows, the new ones before any old one.
Bury(S) ==
  /\ tombstones' \in SUBSET (tombstones \cup S)
  /\ IF Cardinality(tombstones \cup S) <= MAX_REMOVED
     THEN tombstones' = tombstones \cup S
     ELSE /\ Cardinality(tombstones') = MAX_REMOVED
          /\ S \subseteq tombstones' \/ tombstones' \subseteq S

-----------------------------------------------------------------------------
MutApply(b) ==
  /\ sessions' = Upserted(sessions, b.events)
  /\ producers' = Reindexed(producers, b.events)
  /\ UNCHANGED tombstones

\* An upsert is activity: it revives the sessions it names.
Apply(b) ==
  /\ sessions' = Upserted(sessions, b.events)
  /\ producers' = Reindexed(producers, b.events)
  /\ tombstones' = tombstones \ DOMAIN b.events

MutApplySnapshot(b) ==
  LET kept == Without(sessions,
                      Prunable(producers, DOMAIN b.events, b.producer))
  IN  /\ sessions' = Upserted(kept, b.events)
      /\ producers' = Reindexed(IndexOfLive(producers, kept), b.events)
      /\ UNCHANGED tombstones

\* A heartbeat replaces its producer's sessions and revives none of the
\* removed ones.
ApplySnapshot(b) ==
  LET events == EventsOf(b.events, SessionIds \ tombstones)
      kept   == Without(sessions,
                        Prunable(producers, DOMAIN events, b.producer))
  IN  /\ sessions' = Upserted(kept, events)
      /\ producers' = Reindexed(IndexOfLive(producers, kept), events)
      /\ UNCHANGED tombstones

RemoveSession(i) ==
  /\ sessions[i] # NoSession
  /\ sessions' = Without(sessions, {i})
  /\ producers' = [producers EXCEPT ![i] = NoProducer]
  /\ Bury({i})

ClearDone ==
  /\ DoneIds(sessions) # {}
  /\ sessions' = Without(sessions, DoneIds(sessions))
  /\ producers' = IndexOfLive(producers, sessions')
  /\ Bury(DoneIds(sessions))

Next ==
  \/ \E b \in Batches : Apply(b) \/ ApplySnapshot(b)
  \/ \E i \in SessionIds : RemoveSession(i)
  \/ ClearDone

Spec == Init /\ [][Next]_vars

-----------------------------------------------------------------------------
\* A session the user removed stays away until a producer upserts it: no id
\* is live and tombstoned at once (apply clears the tombstone it revives,
\* apply_snapshot filters tombstoned events out).
LiveXorTombstoned == Live(sessions) \cap tombstones = {}

\* Only live sessions have an owner, so a snapshot can prune nothing that is
\* gone and a new session inherits no owner from an old one of the same id.
OwnersAreLive == \A i \in SessionIds : producers[i] # NoProducer
                                         => sessions[i] # NoSession

\* The store cannot grow without limit: the cap on tombstones holds whatever
\* sequence of removals and revivals led here.
TombstonesBounded == /\ IsFiniteSet(tombstones)
                     /\ Cardinality(tombstones) <= MAX_REMOVED

\* A removed session comes back only by an upsert that names it; a heartbeat,
\* a clear or another session's removal never revives one.
ReviveOnlyByUpsert ==
  [][\A i \in tombstones : sessions'[i] # NoSession
        => \E b \in Batches : i \in DOMAIN b.events /\ Apply(b)]_vars

=============================================================================
