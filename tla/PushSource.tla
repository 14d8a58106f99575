----------------------------- MODULE PushSource -----------------------------
(***************************************************************************)
(* EventPushSource (agentlight-source-events/src/source.rs): the live set  *)
(* a hub serves.  HTTP handlers and UI commands call it from several       *)
(* threads; `sessions', `producers' and `removed' each have a Mutex of     *)
(* their own, so a call is a sequence of lock sections and the sections of *)
(* different calls interleave.  One action is one lock section (sections   *)
(* that hold the sessions and the producers lock together are one step).   *)
(*                                                                         *)
(* The durable store is the file the last completed rename put in place;   *)
(* FileReplace.tla looks inside that write.  Clocks (last_ingest, the      *)
(* `seen' flag, stale health, the 24 h downgrade of snapshot()) change     *)
(* none of the state modelled here and are left out.                       *)
(***************************************************************************)
EXTENDS PushData

CONSTANTS
  Threads,     \* handler threads: at most this many calls overlap
  Upserts,     \* the batches the producers may POST as an upsert
  Snapshots,   \* the batches they may POST with mode "snapshot"
  WritesFail   \* whether writing the store file may fail

ASSUME RequestAssumption == /\ Upserts \subseteq Batches
                            /\ Snapshots \subseteq Batches
                            /\ WritesFail \in BOOLEAN

VARIABLES
  sessions,    \* Mutex<HashMap<String, Session>>
  producers,   \* Mutex<HashMap<String, String>>
  removed,     \* Mutex<Vec<String>>: tombstones, oldest first
  disk,        \* the store file: what a restart would load
  pc,          \* where each thread is in its call
  batch,       \* the batch a thread is applying
  todo,        \* ids a thread has still to look up, forget or remember
  changed,     \* whether the thread's call has changed the live set
  image,       \* what persist() has copied so far
  published    \* the live set the sinks read last

live == <<sessions, producers, removed>>
local == <<pc, batch, todo, changed, image>>
vars == <<live, disk, local, published>>

Image == [sessions : LiveSet, producers : ProducerIndex,
          removed : Seq(SessionIds)]

PCs == {"idle", "forget", "filter", "disown", "remember",
        "persist", "copy_removed", "write", "emit"}

EmptyImage ==
  [sessions  |-> [i \in SessionIds |-> NoSession],
   producers |-> [i \in SessionIds |-> NoProducer],
   removed   |-> <<>>]

NoBatch == [events |-> [i \in {} |-> NoSession], producer |-> NoProducer]

TypeOK ==
  /\ sessions \in LiveSet
  /\ producers \in ProducerIndex
  /\ removed \in Seq(SessionIds)
  /\ disk \in Image
  /\ pc \in [Threads -> PCs]
  /\ batch \in [Threads -> [events : Events,
                            producer : Producers \cup {NoProducer}]]
  /\ todo \in [Threads -> SUBSET SessionIds]
  /\ changed \in [Threads -> BOOLEAN]
  /\ image \in [Threads -> Image]
  /\ published \in LiveSet

Init ==
  /\ sessions = EmptyImage.sessions
  /\ producers = EmptyImage.producers
  /\ removed = <<>>
  /\ disk = EmptyImage
  /\ pc = [t \in Threads |-> "idle"]
  /\ batch = [t \in Threads |-> NoBatch]
  /\ todo = [t \in Threads |-> {}]
  /\ changed = [t \in Threads |-> FALSE]
  /\ image = [t \in Threads |-> EmptyImage]
  /\ published = EmptyImage.sessions

Goto(t, label) == pc' = [pc EXCEPT ![t] = label]

\* The call of t returns and its locals are gone.
Return(t) ==
  /\ Goto(t, "idle")
  /\ batch' = [batch EXCEPT ![t] = NoBatch]
  /\ todo' = [todo EXCEPT ![t] = {}]
  /\ changed' = [changed EXCEPT ![t] = FALSE]
  /\ image' = [image EXCEPT ![t] = EmptyImage]

-----------------------------------------------------------------------------
(***************************************************************************)
(* apply: forget the tombstone of each event, then upsert the batch.       *)
(***************************************************************************)
MutApply(t, b) ==
  /\ pc[t] = "idle"
  /\ Goto(t, "forget")
  /\ batch' = [batch EXCEPT ![t] = b]
  /\ UNCHANGED <<live, disk, todo, changed, image, published>>

Apply(t, b) ==
  /\ pc[t] = "idle"
  /\ Goto(t, "forget")
  /\ batch' = [batch EXCEPT ![t] = b]
  /\ todo' = [todo EXCEPT ![t] = DOMAIN b.events]
  /\ UNCHANGED <<live, disk, changed, image, published>>

ForgetRemoved(t, i) ==
  /\ pc[t] = "forget" /\ i \in todo[t]
  /\ removed' = Forgotten(removed, i)
  /\ todo' = [todo EXCEPT ![t] = @ \ {i}]
  /\ UNCHANGED <<sessions, producers, disk, pc, batch, changed, image,
                 published>>

Upsert(t) ==
  /\ pc[t] = "forget" /\ todo[t] = {}
  /\ sessions' = Upserted(sessions, batch[t].events)
  /\ producers' = Reindexed(producers, batch[t].events)
  /\ changed' = [changed EXCEPT ![t] = sessions' # sessions]
  /\ Goto(t, "persist")
  /\ UNCHANGED <<removed, disk, batch, todo, image, published>>

(***************************************************************************)
(* apply_snapshot: drop the tombstoned events of the batch, then prune the *)
(* producer's other sessions and upsert the rest.                          *)
(***************************************************************************)
ApplySnapshot(t, b) ==
  /\ pc[t] = "idle"
  /\ Goto(t, "filter")
  /\ batch' = [batch EXCEPT ![t] = b]
  /\ todo' = [todo EXCEPT ![t] = DOMAIN b.events]
  /\ UNCHANGED <<live, disk, changed, image, published>>

FilterRemoved(t, i) ==
  /\ pc[t] = "filter" /\ i \in todo[t]
  /\ batch' = IF i \in Tombstones(removed)
              THEN [batch EXCEPT ![t].events = EventsOf(@, SessionIds \ {i})]
              ELSE batch
  /\ todo' = [todo EXCEPT ![t] = @ \ {i}]
  /\ UNCHANGED <<live, disk, pc, changed, image, published>>

MutReplaceLive(t, kept, index, seen) ==
  /\ pc[t] = "filter" /\ todo[t] = {}
  /\ sessions' = Upserted(kept, batch[t].events)
  /\ producers' = index
  /\ changed' = [changed EXCEPT ![t] = sessions' # seen]
  /\ Goto(t, "persist")
  /\ UNCHANGED <<removed, disk, batch, todo, image, published>>

MutKept(t) == Without(sessions, Prunable(producers, DOMAIN batch[t].events,
                                         batch[t].producer))

\* The index keeps the entries of the sessions it pruned.
MutReplaceLiveIndex(t) ==
  MutReplaceLive(t, MutKept(t), Reindexed(producers, batch[t].events), sessions)

\* A prune alone does not count as a change.
MutReplaceLiveSignal(t) ==
  LET kept == MutKept(t) IN
  MutReplaceLive(t, kept, Reindexed(IndexOfLive(producers, kept),
                                    batch[t].events), kept)

\* The index is cut down to the old live set after the events were entered.
MutReplaceLiveOrder(t) ==
  LET kept == MutKept(t) IN
  MutReplaceLive(t, kept, IndexOfLive(Reindexed(producers, batch[t].events),
                                      kept), sessions)

ReplaceLive(t) ==
  LET events == batch[t].events
      kept   == Without(sessions, Prunable(producers, DOMAIN events,
                                           batch[t].producer))
  IN  /\ pc[t] = "filter" /\ todo[t] = {}
      /\ sessions' = Upserted(kept, events)
      /\ producers' = Reindexed(IndexOfLive(producers, kept), events)
      /\ changed' = [changed EXCEPT ![t] = sessions' # sessions]
      /\ Goto(t, "persist")
      /\ UNCHANGED <<removed, disk, batch, todo, image, published>>

(***************************************************************************)
(* remove and clear_done: take sessions out, then leave tombstones.        *)
(***************************************************************************)
RemoveSession(t, i) ==
  /\ pc[t] = "idle"
  /\ sessions' = Without(sessions, {i})
  /\ changed' = [changed EXCEPT ![t] = sessions[i] # NoSession]
  /\ todo' = [todo EXCEPT ![t] = {i}]
  /\ Goto(t, "disown")
  /\ UNCHANGED <<producers, removed, disk, batch, image, published>>

\* The entry goes even when there was no session to remove.
RemoveProducer(t) ==
  /\ pc[t] = "disown"
  /\ producers' = [i \in SessionIds |-> IF i \in todo[t] THEN NoProducer
                                                         ELSE producers[i]]
  /\ IF changed[t]
     THEN Goto(t, "remember") /\ UNCHANGED <<batch, todo, changed, image>>
     ELSE Return(t)
  /\ UNCHANGED <<sessions, removed, disk, published>>

\* With nothing done the index is cut down to the live set all the same, and
\* the call is over.
ClearDone(t) ==
  LET done == DoneIds(sessions) IN
  /\ pc[t] = "idle"
  /\ sessions' = Without(sessions, done)
  /\ producers' = IndexOfLive(producers, sessions')
  /\ \/ done = {} /\ UNCHANGED <<pc, todo, changed>>
     \/ /\ done # {}
        /\ changed' = [changed EXCEPT ![t] = TRUE]
        /\ todo' = [todo EXCEPT ![t] = done]
        /\ Goto(t, "remember")
  /\ UNCHANGED <<removed, disk, batch, image, published>>

\* Only the first removed id gets its tombstone.
MutRememberRemoved(t, i) ==
  /\ pc[t] = "remember" /\ i \in todo[t]
  /\ removed' = Remembered(removed, i)
  /\ todo' = [todo EXCEPT ![t] = {}]
  /\ Goto(t, "persist")
  /\ UNCHANGED <<sessions, producers, disk, batch, changed, image, published>>

RememberRemoved(t, i) ==
  /\ pc[t] = "remember" /\ i \in todo[t]
  /\ removed' = Remembered(removed, i)
  /\ todo' = [todo EXCEPT ![t] = @ \ {i}]
  /\ Goto(t, IF todo[t] = {i} THEN "persist" ELSE "remember")
  /\ UNCHANGED <<sessions, producers, disk, batch, changed, image, published>>

-----------------------------------------------------------------------------
(***************************************************************************)
(* persist: copy sessions and producers, copy the tombstones, replace the  *)
(* file; then wake the sinks if the call changed the live set.             *)
(***************************************************************************)
CopyLive(t) ==
  /\ pc[t] = "persist"
  /\ image' = [image EXCEPT
                 ![t].sessions = sessions,
                 ![t].producers = IndexOfLive(producers, sessions)]
  /\ Goto(t, "copy_removed")
  /\ UNCHANGED <<live, disk, batch, todo, changed, published>>

\* The tombstones are not part of the file.
MutCopyRemoved(t) ==
  /\ pc[t] = "copy_removed"
  /\ Goto(t, "write")
  /\ UNCHANGED <<live, disk, batch, todo, changed, image, published>>

CopyRemoved(t) ==
  /\ pc[t] = "copy_removed"
  /\ image' = [image EXCEPT ![t].removed = removed]
  /\ Goto(t, "write")
  /\ UNCHANGED <<live, disk, batch, todo, changed, published>>

\* A write that fails is ignored: the old file stays.
WriteStore(t) ==
  /\ pc[t] = "write"
  /\ disk' \in IF WritesFail THEN {disk, image[t]} ELSE {image[t]}
  /\ IF changed[t]
     THEN Goto(t, "emit") /\ UNCHANGED <<batch, todo, changed, image>>
     ELSE Return(t)
  /\ UNCHANGED <<live, published>>

\* The sink publishes: it reads the live set under the sessions lock.
Emit(t) ==
  /\ pc[t] = "emit"
  /\ published' = sessions
  /\ Return(t)
  /\ UNCHANGED <<live, disk>>

-----------------------------------------------------------------------------
\* The process dies, wherever its threads are, and a new one loads the store.
Restart ==
  /\ sessions' = disk.sessions
  /\ producers' = disk.producers
  /\ removed' = Capped(disk.removed)
  /\ pc' = [t \in Threads |-> "idle"]
  /\ batch' = [t \in Threads |-> NoBatch]
  /\ todo' = [t \in Threads |-> {}]
  /\ changed' = [t \in Threads |-> FALSE]
  /\ image' = [t \in Threads |-> EmptyImage]
  /\ published' = disk.sessions
  /\ UNCHANGED disk

Step(t) ==
  \/ \E i \in SessionIds : \/ ForgetRemoved(t, i)
                           \/ FilterRemoved(t, i)
                           \/ RememberRemoved(t, i)
  \/ Upsert(t)
  \/ ReplaceLive(t)
  \/ RemoveProducer(t)
  \/ CopyLive(t)
  \/ CopyRemoved(t)
  \/ WriteStore(t)
  \/ Emit(t)

Call(t) ==
  \/ \E b \in Upserts : Apply(t, b)
  \/ \E b \in Snapshots : ApplySnapshot(t, b)
  \/ \E i \in SessionIds : RemoveSession(t, i)
  \/ ClearDone(t)

Next == Restart \/ \E t \in Threads : Call(t) \/ Step(t)

Spec == Init /\ [][Next]_vars

-----------------------------------------------------------------------------
(***************************************************************************)
(* What holds however the calls interleave.                                *)
(***************************************************************************)

\* A producer entry outlives its session only while the remove() that took
\* the session out has not reached the index yet: no call leaves an entry
\* behind that a later session of the same id would inherit.
EntriesHaveSessions ==
  \A i \in SessionIds :
    producers[i] # NoProducer /\ sessions[i] = NoSession
      => \E t \in Threads : pc[t] = "disown" /\ i \in todo[t]

\* The tombstone list never names an id twice and never exceeds the cap, in
\* memory and in the store: a duplicate would survive forget_removed, which
\* drops one entry, and hide the session from every later heartbeat.
Proper(s) == Len(s) <= MAX_REMOVED /\ Distinct(s)
TombstonesProper ==
  /\ Proper(removed)
  /\ Proper(disk.removed)
  /\ \A t \in Threads : Proper(image[t].removed)

\* A change no sink has seen is owed an emit: whoever made it is still in its
\* call and will publish, so the last view published is never left behind.
ChangesAreEmitted ==
  sessions # published => \E t \in Threads : changed[t]

\* A session disappears because the user removed or cleared it, because a
\* heartbeat of the producer that owns it left it out, or in a crash; never
\* because of another producer's heartbeat, or of one without a producer.
LossHasCause ==
  [][\A i \in SessionIds :
       sessions[i] # NoSession /\ sessions'[i] = NoSession
         => \/ \E t \in Threads : pc[t] = "idle" /\ i \in todo'[t]
            \/ \E t \in Threads : /\ pc[t] = "filter"
                                  /\ pc'[t] = "persist"
                                  /\ batch[t].producer = producers[i]
                                  /\ producers[i] \in Producers
            \/ Restart]_vars

(***************************************************************************)
(* What holds while one call runs at a time, and what the source's         *)
(* comments say of it without that condition.                              *)
(***************************************************************************)
Quiet == \A t \in Threads : pc[t] = "idle"

\* A removed session is not resurrected by a heartbeat, and an upsert clears
\* its tombstone: between calls no live session has one.
LiveXorTombstoned ==
  Quiet => Live(sessions) \cap Tombstones(removed) = {}

\* Every mutation is persisted: between calls a restart would load exactly
\* the state in memory.
StoreIsCurrent ==
  Quiet => disk = [sessions |-> sessions, producers |-> producers,
                   removed |-> removed]

\* When every event names its producer, every live session has its owner in
\* the index between calls, so the owner's heartbeats can prune it.
LiveAreOwned ==
  Quiet => \A i \in Live(sessions) : producers[i] # NoProducer

\* The durable store goes through the steps of PushStore.tla: each call is
\* atomic and durable as a whole, and a crash loses or keeps all of it.
Store == INSTANCE PushStore WITH
           sessions   <- disk.sessions,
           producers  <- disk.producers,
           tombstones <- Tombstones(disk.removed)
StoreIsAtomic == Store!Spec

\* "A producer snapshot skips them so the next heartbeat cannot resurrect a
\* session the user dismissed from the UI": what a heartbeat inserts has no
\* tombstone.
HeartbeatsReviveNothing ==
  [][\A t \in Threads : ReplaceLive(t) =>
       \A i \in Tombstones(removed) : sessions[i] = NoSession
                                        => sessions'[i] = NoSession]_vars

=============================================================================
