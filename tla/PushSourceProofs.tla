-------------------------- MODULE PushSourceProofs --------------------------
(***************************************************************************)
(* What holds of the push source however its calls interleave and wherever *)
(* it crashes, for any number of threads, sessions and producers and for   *)
(* any cap: type correctness and the tombstone list's shape, the index and *)
(* the live set, and the change signal.                                    *)
(***************************************************************************)
EXTENDS PushSource, PushDataProofs, FiniteSetTheorems, TLAPS

\* The batch a request carries is well typed.
LEMMA RequestType ==
  /\ \A b \in Upserts \cup Snapshots :
       /\ b \in [events : Events, producer : Producers \cup {NoProducer}]
       /\ DOMAIN b.events \in SUBSET SessionIds
  /\ NoBatch \in [events : Events, producer : Producers \cup {NoProducer}]
<1>1. \A b \in Upserts \cup Snapshots :
        b \in [events : Events, producer : Producers \cup {NoProducer}]
  BY RequestAssumption DEF Batches
<1>2. \A b \in Upserts \cup Snapshots : DOMAIN b.events \in SUBSET SessionIds
  BY <1>1, EventsType
<1>3. NoBatch.events \in [{} -> Payload]
  BY DEF NoBatch
<1>4. NoBatch.events \in Events
  BY <1>3 DEF Events
<1>5. QED
  BY <1>1, <1>2, <1>4 DEF NoBatch

\* The state a process starts from is well typed.
LEMMA EmptyType == EmptyImage \in Image /\ Proper(EmptyImage.removed)
<1>1. EmptyImage.removed = <<>> /\ <<>> \in Seq(SessionIds) /\ Len(<<>>) = 0
      /\ DOMAIN <<>> = {}
  BY DEF EmptyImage
<1>2. QED
  BY <1>1, DataAssumption
     DEF EmptyImage, Image, LiveSet, ProducerIndex, Proper, Distinct

-----------------------------------------------------------------------------
(***************************************************************************)
(* Types and tombstones.  The two go together: a restart loads the list    *)
(* from the store, a write puts a thread's copy there.                     *)
(***************************************************************************)
Typed == TypeOK /\ TombstonesProper

\* Returning from a call restores the initial locals.
LEMMA ReturnTyped ==
  ASSUME Typed, NEW t \in Threads, Return(t)
  PROVE  /\ pc' \in [Threads -> PCs]
         /\ batch' \in [Threads -> [events : Events,
                                    producer : Producers \cup {NoProducer}]]
         /\ todo' \in [Threads -> SUBSET SessionIds]
         /\ changed' \in [Threads -> BOOLEAN]
         /\ image' \in [Threads -> Image]
         /\ \A u \in Threads : Proper(image'[u].removed)
BY RequestType, EmptyType
   DEF Typed, TypeOK, TombstonesProper, Return, Goto, PCs

\* Every step of every call, and a crash, keeps types and tombstones.
LEMMA TypedStep == Typed /\ [Next]_vars => Typed'
<1> SUFFICES ASSUME Typed, [Next]_vars
             PROVE  Typed'
  OBVIOUS
<1> USE DEF Typed, TypeOK, TombstonesProper, Goto, PCs, live
<1>1. CASE Restart
  BY <1>1, CappedProper, RequestType, EmptyType DEF Restart, Image, Proper
<1>2. ASSUME NEW t \in Threads, NEW b \in Upserts, Apply(t, b)
      PROVE  Typed'
  BY <1>2, RequestType DEF Apply
<1>3. ASSUME NEW t \in Threads, NEW b \in Snapshots, ApplySnapshot(t, b)
      PROVE  Typed'
  BY <1>3, RequestType DEF ApplySnapshot
<1>4. ASSUME NEW t \in Threads, NEW i \in SessionIds, RemoveSession(t, i)
      PROVE  Typed'
  BY <1>4, WithoutType DEF RemoveSession
<1>5. ASSUME NEW t \in Threads, ClearDone(t)
      PROVE  Typed'
  <2>1. DoneIds(sessions) \in SUBSET SessionIds
    BY DEF DoneIds
  <2>2. sessions' \in LiveSet /\ producers' \in ProducerIndex
    BY <1>5, <2>1, WithoutType, IndexOfLiveType DEF ClearDone
  <2>3. CASE DoneIds(sessions) = {}
    BY <1>5, <2>2, <2>3 DEF ClearDone
  <2>4. CASE DoneIds(sessions) # {}
    BY <1>5, <2>1, <2>2, <2>4 DEF ClearDone
  <2>5. QED
    BY <2>3, <2>4
<1>6. ASSUME NEW t \in Threads, NEW i \in SessionIds, ForgetRemoved(t, i)
      PROVE  Typed'
  <2>1. removed' \in Seq(SessionIds) /\ Proper(removed')
    BY <1>6, ForgottenProper, DataAssumption, LenProperties
       DEF ForgetRemoved, Proper
  <2>2. QED
    BY <1>6, <2>1 DEF ForgetRemoved
<1>7. ASSUME NEW t \in Threads, NEW i \in SessionIds, FilterRemoved(t, i)
      PROVE  Typed'
  <2>1. EventsOf(batch[t].events, SessionIds \ {i}) \in Events
    BY EventsOfType
  <2>2. QED
    BY <1>7, <2>1 DEF FilterRemoved
<1>8. ASSUME NEW t \in Threads, NEW i \in SessionIds, RememberRemoved(t, i)
      PROVE  Typed'
  <2>1. removed' \in Seq(SessionIds) /\ Proper(removed')
    BY <1>8, RememberedProper DEF RememberRemoved, Proper
  <2>2. QED
    BY <1>8, <2>1 DEF RememberRemoved
<1>9. ASSUME NEW t \in Threads, Upsert(t)
      PROVE  Typed'
  <2>1. sessions' \in LiveSet /\ producers' \in ProducerIndex
    BY <1>9, UpsertedType, ReindexedType DEF Upsert
  <2>2. QED
    BY <1>9, <2>1 DEF Upsert
<1>10. ASSUME NEW t \in Threads, ReplaceLive(t)
       PROVE  Typed'
  <2> DEFINE events == batch[t].events
             kept == Without(sessions, Prunable(producers, DOMAIN events,
                                                batch[t].producer))
             index == IndexOfLive(producers, kept)
  <2>1. events \in Events /\ kept \in LiveSet /\ index \in ProducerIndex
    BY WithoutType, IndexOfLiveType
  <2>2. sessions' = Upserted(kept, events)
        /\ producers' = Reindexed(index, events)
    BY <1>10 DEF ReplaceLive
  <2> HIDE DEF events, kept, index
  <2>3. sessions' \in LiveSet /\ producers' \in ProducerIndex
    BY <2>1, <2>2, UpsertedType, ReindexedType
  <2>4. QED
    BY <1>10, <2>3 DEF ReplaceLive
<1>11. ASSUME NEW t \in Threads, RemoveProducer(t)
       PROVE  Typed'
  <2>1. producers' \in ProducerIndex
    BY <1>11 DEF RemoveProducer, ProducerIndex
  <2>2. CASE changed[t]
    BY <1>11, <2>1, <2>2 DEF RemoveProducer
  <2>3. CASE ~changed[t]
    BY <1>11, <2>1, <2>3, ReturnTyped DEF RemoveProducer
  <2>4. QED
    BY <2>2, <2>3
<1>12. ASSUME NEW t \in Threads, CopyLive(t)
       PROVE  Typed'
  <2>1. IndexOfLive(producers, sessions) \in ProducerIndex
    BY IndexOfLiveType
  <2>2. QED
    BY <1>12, <2>1 DEF CopyLive, Image
<1>13. ASSUME NEW t \in Threads, CopyRemoved(t)
       PROVE  Typed'
  BY <1>13 DEF CopyRemoved, Image
<1>14. ASSUME NEW t \in Threads, WriteStore(t)
       PROVE  Typed'
  <2>1. disk' \in Image /\ Proper(disk'.removed)
    BY <1>14 DEF WriteStore
  <2>2. CASE changed[t]
    BY <1>14, <2>1, <2>2 DEF WriteStore
  <2>3. CASE ~changed[t]
    BY <1>14, <2>1, <2>3, ReturnTyped DEF WriteStore
  <2>4. QED
    BY <2>2, <2>3
<1>15. ASSUME NEW t \in Threads, Emit(t)
       PROVE  Typed'
  BY <1>15, ReturnTyped DEF Emit
<1>16. CASE UNCHANGED vars
  BY <1>16 DEF vars, local
<1>17. QED
  BY <1>1, <1>2, <1>3, <1>4, <1>5, <1>6, <1>7, <1>8, <1>9, <1>10, <1>11,
     <1>12, <1>13, <1>14, <1>15, <1>16 DEF Next, Call, Step

\* The first process starts well typed, with an empty tombstone list.
LEMMA TypedInit == Init => Typed
BY EmptyType, RequestType
   DEF Init, Typed, TypeOK, TombstonesProper, PCs, Image, Proper, EmptyImage

\* Types and tombstones together are an invariant.
LEMMA TypedAlways == Spec => []Typed
BY TypedInit, TypedStep, PTL DEF Spec

\* Every state of the push source is well typed.
THEOREM TypeCorrect == Spec => []TypeOK
<1>1. Typed => TypeOK
  BY DEF Typed
<1>2. QED
  BY <1>1, TypedAlways, PTL

\* In memory, in every copy under way and in the store the tombstone list is
\* within the cap and names no id twice, whatever calls overlap.
THEOREM TombstonesAreProper == Spec => []TombstonesProper
<1>1. Typed => TombstonesProper
  BY DEF Typed
<1>2. QED
  BY <1>1, TypedAlways, PTL

-----------------------------------------------------------------------------
(***************************************************************************)
(* The index and the live set.  EntriesHaveSessions speaks of memory; it   *)
(* is inductive with the same fact, unconditional, for the store and for   *)
(* every copy on its way there, because a restart brings the store back.   *)
(***************************************************************************)
Coherent(m) == \A i \in SessionIds : m.producers[i] # NoProducer
                                        => m.sessions[i] # NoSession

Owned == /\ EntriesHaveSessions
         /\ Coherent(disk)
         /\ \A t \in Threads : Coherent(image[t])

\* The empty state owns nothing.
LEMMA EmptyCoherent == Coherent(EmptyImage)
BY DEF Coherent, EmptyImage

\* Every step keeps memory, copies and store free of stray owners.
LEMMA OwnedStep == Typed /\ Owned /\ [Next]_vars => Owned'
<1> SUFFICES ASSUME Typed, Owned, [Next]_vars
             PROVE  Owned'
  OBVIOUS
<1> USE DEF Typed, TypeOK, Owned, EntriesHaveSessions, Goto, live
<1>1. CASE Restart
  BY <1>1, EmptyCoherent DEF Restart, Coherent
<1>2. ASSUME NEW t \in Threads, NEW b \in Upserts, Apply(t, b)
      PROVE  Owned'
  BY <1>2 DEF Apply
<1>3. ASSUME NEW t \in Threads, NEW b \in Snapshots, ApplySnapshot(t, b)
      PROVE  Owned'
  BY <1>3 DEF ApplySnapshot
<1>4. ASSUME NEW t \in Threads, NEW i \in SessionIds, RemoveSession(t, i)
      PROVE  Owned'
  <2>1. pc'[t] = "disown" /\ todo'[t] = {i} /\ producers' = producers
    BY <1>4 DEF RemoveSession
  <2>2. \A u \in Threads : pc[u] = "disown"
                            => pc'[u] = "disown" /\ todo'[u] = todo[u]
    BY <1>4 DEF RemoveSession
  <2>3. \A j \in SessionIds \ {i} : sessions'[j] = sessions[j]
    BY <1>4 DEF RemoveSession, Without
  <2>4. EntriesHaveSessions'
    BY <2>1, <2>2, <2>3
  <2>5. QED
    BY <1>4, <2>4 DEF RemoveSession
<1>5. ASSUME NEW t \in Threads, ClearDone(t)
      PROVE  Owned'
  <2>1. EntriesHaveSessions'
    BY <1>5, IndexOfLiveType DEF ClearDone
  <2>2. QED
    BY <1>5, <2>1 DEF ClearDone
<1>6. ASSUME NEW t \in Threads, NEW i \in SessionIds, ForgetRemoved(t, i)
      PROVE  Owned'
  BY <1>6 DEF ForgetRemoved
<1>7. ASSUME NEW t \in Threads, NEW i \in SessionIds, FilterRemoved(t, i)
      PROVE  Owned'
  BY <1>7 DEF FilterRemoved
<1>8. ASSUME NEW t \in Threads, NEW i \in SessionIds, RememberRemoved(t, i)
      PROVE  Owned'
  BY <1>8 DEF RememberRemoved
<1>9. ASSUME NEW t \in Threads, Upsert(t)
      PROVE  Owned'
  <2>1. /\ sessions' = Upserted(sessions, batch[t].events)
        /\ producers' = Reindexed(producers, batch[t].events)
        /\ batch[t].events \in Events
    BY <1>9 DEF Upsert
  <2>2. \A i \in SessionIds :
          producers'[i] # NoProducer /\ sessions'[i] = NoSession
            => producers[i] # NoProducer /\ sessions[i] = NoSession
    BY <2>1, UpsertedType, ReindexedType
  <2>3. \A u \in Threads : pc[u] = "disown"
                            => pc'[u] = "disown" /\ todo'[u] = todo[u]
    BY <1>9 DEF Upsert
  <2>4. EntriesHaveSessions'
    BY <2>2, <2>3
  <2>5. QED
    BY <1>9, <2>4 DEF Upsert
<1>10. ASSUME NEW t \in Threads, ReplaceLive(t)
       PROVE  Owned'
  <2> DEFINE events == batch[t].events
             kept == Without(sessions, Prunable(producers, DOMAIN events,
                                                batch[t].producer))
             index == IndexOfLive(producers, kept)
  <2>1. /\ events \in Events /\ kept \in LiveSet /\ index \in ProducerIndex
        /\ \A i \in SessionIds : index[i] # NoProducer => kept[i] # NoSession
    BY WithoutType, IndexOfLiveType
  <2>2. sessions' = Upserted(kept, events)
        /\ producers' = Reindexed(index, events)
    BY <1>10 DEF ReplaceLive
  <2> HIDE DEF events, kept, index
  <2>3. \A i \in SessionIds : producers'[i] # NoProducer
                                => sessions'[i] # NoSession
    <3> TAKE i \in SessionIds
    <3>1. CASE i \in DOMAIN events
      BY <2>1, <2>2, <3>1, UpsertedType
    <3>2. CASE i \notin DOMAIN events
      <4>1. Reindexed(index, events)[i] = index[i]
        BY <2>1, <3>2, ReindexedType
      <4>2. kept[i] # NoSession => Upserted(kept, events)[i] # NoSession
        BY <2>1, UpsertedType
      <4>3. QED
        BY <2>1, <2>2, <4>1, <4>2
    <3>3. QED
      BY <3>1, <3>2
  <2>4. QED
    BY <1>10, <2>3 DEF ReplaceLive
<1>11. ASSUME NEW t \in Threads, RemoveProducer(t)
       PROVE  Owned'
  <2>1. /\ \A i \in todo[t] : i \in SessionIds => producers'[i] = NoProducer
        /\ \A i \in SessionIds \ todo[t] : producers'[i] = producers[i]
        /\ UNCHANGED <<sessions, disk>>
    BY <1>11 DEF RemoveProducer
  <2>2. /\ \A u \in Threads \ {t} : pc'[u] = pc[u] /\ todo'[u] = todo[u]
        /\ \A u \in Threads : image'[u] = image[u] \/ image'[u] = EmptyImage
    BY <1>11 DEF RemoveProducer, Return
  <2>3. EntriesHaveSessions'
    BY <2>1, <2>2
  <2>4. QED
    BY <2>1, <2>2, <2>3, EmptyCoherent
<1>12. ASSUME NEW t \in Threads, CopyLive(t)
       PROVE  Owned'
  <2>1. /\ image'[t].sessions = sessions
        /\ image'[t].producers = IndexOfLive(producers, sessions)
        /\ \A u \in Threads \ {t} : image'[u] = image[u]
    BY <1>12 DEF CopyLive, Image
  <2>2. \A u \in Threads : Coherent(image'[u])
    BY <2>1, IndexOfLiveType DEF Coherent
  <2>3. QED
    BY <1>12, <2>2 DEF CopyLive
<1>13. ASSUME NEW t \in Threads, CopyRemoved(t)
       PROVE  Owned'
  <2>1. \A u \in Threads : /\ image'[u].sessions = image[u].sessions
                            /\ image'[u].producers = image[u].producers
    BY <1>13 DEF CopyRemoved, Image
  <2>2. \A u \in Threads : Coherent(image'[u])
    BY <2>1 DEF Coherent
  <2>3. QED
    BY <1>13, <2>2 DEF CopyRemoved
<1>14. ASSUME NEW t \in Threads, WriteStore(t)
       PROVE  Owned'
  <2>1. /\ Coherent(disk')
        /\ \A u \in Threads : image'[u] = image[u] \/ image'[u] = EmptyImage
        /\ \A u \in Threads : pc[u] = "disown"
                               => pc'[u] = "disown" /\ todo'[u] = todo[u]
        /\ UNCHANGED <<sessions, producers>>
    BY <1>14 DEF WriteStore, Return
  <2>2. QED
    BY <2>1, EmptyCoherent
<1>15. ASSUME NEW t \in Threads, Emit(t)
       PROVE  Owned'
  <2>1. /\ \A u \in Threads : image'[u] = image[u] \/ image'[u] = EmptyImage
        /\ \A u \in Threads : pc[u] = "disown"
                               => pc'[u] = "disown" /\ todo'[u] = todo[u]
        /\ UNCHANGED <<sessions, producers, disk>>
    BY <1>15 DEF Emit, Return
  <2>2. QED
    BY <2>1, EmptyCoherent
<1>16. CASE UNCHANGED vars
  BY <1>16 DEF vars, local
<1>17. QED
  BY <1>1, <1>2, <1>3, <1>4, <1>5, <1>6, <1>7, <1>8, <1>9, <1>10, <1>11,
     <1>12, <1>13, <1>14, <1>15, <1>16 DEF Next, Call, Step

\* A producer entry without its session belongs to a remove() in progress:
\* no interleaving and no crash leaves one behind.
THEOREM EntriesOwned == Spec => []EntriesHaveSessions
<1>1. Init => Owned
  BY EmptyCoherent DEF Init, Owned, EntriesHaveSessions, EmptyImage
<1>2. Owned => EntriesHaveSessions
  BY DEF Owned
<1>3. QED
  BY <1>1, <1>2, OwnedStep, TypedAlways, PTL DEF Spec

-----------------------------------------------------------------------------
(***************************************************************************)
(* The change signal.  A merge assigns `changed', so the proof needs that  *)
(* no thread still owes an emit when it reaches one.                       *)
(***************************************************************************)
Signalled ==
  /\ ChangesAreEmitted
  /\ \A t \in Threads : changed[t] => pc[t] \notin {"idle", "forget", "filter"}

\* Every step keeps each unseen change owed by a call in progress.
LEMMA SignalledStep == Typed /\ Signalled /\ [Next]_vars => Signalled'
<1> SUFFICES ASSUME Typed, Signalled, [Next]_vars
             PROVE  Signalled'
  OBVIOUS
<1> USE DEF Typed, TypeOK, Signalled, ChangesAreEmitted, Goto, live
<1>1. CASE Restart
  BY <1>1 DEF Restart
<1>2. ASSUME NEW t \in Threads, NEW b \in Upserts, Apply(t, b)
      PROVE  Signalled'
  BY <1>2 DEF Apply
<1>3. ASSUME NEW t \in Threads, NEW b \in Snapshots, ApplySnapshot(t, b)
      PROVE  Signalled'
  BY <1>3 DEF ApplySnapshot
<1>4. ASSUME NEW t \in Threads, NEW i \in SessionIds, RemoveSession(t, i)
      PROVE  Signalled'
  <2>1. ~changed[t]
    BY <1>4 DEF RemoveSession
  <2>2. sessions[i] = NoSession => sessions' = sessions
    BY <1>4 DEF RemoveSession, Without, LiveSet
  <2>3. QED
    BY <1>4, <2>1, <2>2 DEF RemoveSession
<1>5. ASSUME NEW t \in Threads, ClearDone(t)
      PROVE  Signalled'
  <2>1. CASE DoneIds(sessions) = {}
    <3>1. sessions' = sessions
      BY <1>5, <2>1 DEF ClearDone, Without, LiveSet
    <3>2. QED
      BY <1>5, <2>1, <3>1 DEF ClearDone
  <2>2. CASE DoneIds(sessions) # {}
    BY <1>5, <2>2 DEF ClearDone
  <2>3. QED
    BY <2>1, <2>2
<1>6. ASSUME NEW t \in Threads, NEW i \in SessionIds, ForgetRemoved(t, i)
      PROVE  Signalled'
  BY <1>6 DEF ForgetRemoved
<1>7. ASSUME NEW t \in Threads, NEW i \in SessionIds, FilterRemoved(t, i)
      PROVE  Signalled'
  BY <1>7 DEF FilterRemoved
<1>8. ASSUME NEW t \in Threads, NEW i \in SessionIds, RememberRemoved(t, i)
      PROVE  Signalled'
  BY <1>8 DEF RememberRemoved
<1>9. ASSUME NEW t \in Threads, Upsert(t)
      PROVE  Signalled'
  BY <1>9 DEF Upsert
<1>10. ASSUME NEW t \in Threads, ReplaceLive(t)
       PROVE  Signalled'
  BY <1>10 DEF ReplaceLive
<1>11. ASSUME NEW t \in Threads, RemoveProducer(t)
       PROVE  Signalled'
  BY <1>11 DEF RemoveProducer, Return
<1>12. ASSUME NEW t \in Threads, CopyLive(t)
       PROVE  Signalled'
  BY <1>12 DEF CopyLive
<1>13. ASSUME NEW t \in Threads, CopyRemoved(t)
       PROVE  Signalled'
  BY <1>13 DEF CopyRemoved
<1>14. ASSUME NEW t \in Threads, WriteStore(t)
       PROVE  Signalled'
  BY <1>14 DEF WriteStore, Return
<1>15. ASSUME NEW t \in Threads, Emit(t)
       PROVE  Signalled'
  BY <1>15 DEF Emit, Return
<1>16. CASE UNCHANGED vars
  BY <1>16 DEF vars, local
<1>17. QED
  BY <1>1, <1>2, <1>3, <1>4, <1>5, <1>6, <1>7, <1>8, <1>9, <1>10, <1>11,
     <1>12, <1>13, <1>14, <1>15, <1>16 DEF Next, Call, Step

\* A change that no sink has read is owed an emit by a call in progress.
THEOREM NoChangeUnsignalled == Spec => []ChangesAreEmitted
<1>1. Init => Signalled
  BY DEF Init, Signalled, ChangesAreEmitted
<1>2. Signalled => ChangesAreEmitted
  BY DEF Signalled
<1>3. QED
  BY <1>1, <1>2, SignalledStep, TypedAlways, PTL DEF Spec

-----------------------------------------------------------------------------
(***************************************************************************)
(* Who may take a session out.                                             *)
(***************************************************************************)

\* A session disappears only because the user removed or cleared it, because
\* the producer that owns it left it out of a heartbeat, or in a crash:
\* overlapping calls never make one producer's heartbeat take another's.
THEOREM NoSessionJustVanishes == Spec => LossHasCause
<1> DEFINE Cause(i) ==
             \/ \E t \in Threads : pc[t] = "idle" /\ i \in todo'[t]
             \/ \E t \in Threads : /\ pc[t] = "filter"
                                   /\ pc'[t] = "persist"
                                   /\ batch[t].producer = producers[i]
                                   /\ producers[i] \in Producers
             \/ Restart
           Lost(i) == sessions[i] # NoSession /\ sessions'[i] = NoSession
<1>1. Typed /\ [Next]_vars => [\A i \in SessionIds : Lost(i) => Cause(i)]_vars
  <2> SUFFICES ASSUME Typed, Next, NEW i \in SessionIds, Lost(i)
               PROVE  Cause(i)
    OBVIOUS
  <2> USE DEF Typed, TypeOK
  <2>1. CASE Restart
    BY <2>1
  <2>2. ASSUME NEW t \in Threads, NEW j \in SessionIds, RemoveSession(t, j)
        PROVE  Cause(i)
    BY <2>2, WithoutType DEF RemoveSession
  <2>3. ASSUME NEW t \in Threads, ClearDone(t)
        PROVE  Cause(i)
    <3>1. i \in DoneIds(sessions)
      BY <2>3, WithoutType DEF ClearDone
    <3>2. pc[t] = "idle" /\ todo'[t] = DoneIds(sessions)
      BY <2>3, <3>1 DEF ClearDone
    <3>3. QED
      BY <3>1, <3>2
  <2>4. ASSUME NEW t \in Threads, Upsert(t)
        PROVE  FALSE
    BY <2>4, UpsertedType DEF Upsert
  <2>5. ASSUME NEW t \in Threads, ReplaceLive(t)
        PROVE  Cause(i)
    <3> DEFINE events == batch[t].events
               pruned == Prunable(producers, DOMAIN events, batch[t].producer)
               kept == Without(sessions, pruned)
    <3>1. events \in Events /\ kept \in LiveSet
          /\ (kept[i] # NoSession <=> i \notin pruned /\ sessions[i] # NoSession)
      BY WithoutType
    <3>2. sessions' = Upserted(kept, events)
      BY <2>5 DEF ReplaceLive
    <3>3. producers[i] \in Producers \cup {NoProducer}
      BY DEF ProducerIndex
    <3>4. pc[t] = "filter" /\ pc'[t] = "persist"
      BY <2>5 DEF ReplaceLive, Goto
    <3>5. kept[i] = NoSession
      <4> HIDE DEF kept, events
      <4> QED
        BY <3>1, <3>2, UpsertedType
    <3>6. i \in pruned
      BY <3>1, <3>5
    <3>7. batch[t].producer = producers[i] /\ producers[i] # NoProducer
      BY <3>6 DEF Prunable
    <3>8. QED
      BY <3>3, <3>4, <3>7
  <2>6. ASSUME UNCHANGED sessions
        PROVE  FALSE
    BY <2>6
  <2>7. QED
    BY <2>1, <2>2, <2>3, <2>4, <2>5, <2>6
       DEF Next, Call, Step, Apply, ApplySnapshot, ForgetRemoved,
           FilterRemoved, RememberRemoved, RemoveProducer, CopyLive,
           CopyRemoved, WriteStore, Emit, live
<1>2. QED
  BY <1>1, TypedAlways, PTL DEF Spec, LossHasCause

-----------------------------------------------------------------------------
(***************************************************************************)
(* One call at a time.  What the source's comments promise of a removed    *)
(* session needs this condition (two overlapping calls break it), and      *)
(* nothing else: the store file may fail to be written at any time.        *)
(***************************************************************************)
OneCall == \A t, u \in Threads : t = u

Apart(m) == Live(m.sessions) \cap Tombstones(m.removed) = {}

Memory == [sessions |-> sessions, producers |-> producers, removed |-> removed]

\* No session is live and tombstoned, in memory, in the store, or in the copy
\* that is about to be written: an upsert has forgotten a tombstone before it
\* inserts the session, a heartbeat has filtered the event out, and a removal
\* has taken the session out before it leaves the tombstone.
Exclusive ==
  /\ Apart(Memory)
  /\ Apart(disk)
  /\ \A t \in Threads :
       /\ pc[t] \in {"forget", "filter"} =>
            (DOMAIN batch[t].events \ todo[t]) \cap Tombstones(removed) = {}
       /\ pc[t] \in {"disown", "remember"} => todo[t] \cap Live(sessions) = {}
       /\ pc[t] = "copy_removed" => image[t].sessions = sessions
       /\ pc[t] = "write" => /\ image[t].sessions = sessions
                             /\ image[t].removed = removed

\* Every step of the one call under way, and a crash, keeps them apart.
LEMMA ExclusiveStep ==
  ASSUME OneCall
  PROVE  Typed /\ Exclusive /\ [Next]_vars => Exclusive'
<1> SUFFICES ASSUME Typed, Exclusive, [Next]_vars
             PROVE  Exclusive'
  OBVIOUS
<1> USE DEF Typed, TypeOK, Exclusive, Apart, Memory, Live, Goto, PCs, live,
            OneCall
<1>1. CASE Restart
  <2>1. Tombstones(Capped(disk.removed)) \subseteq Tombstones(disk.removed)
    BY CappedProper DEF Image, TombstonesProper, Proper
  <2>2. QED
    BY <1>1, <2>1 DEF Restart
<1>2. ASSUME NEW t \in Threads, NEW b \in Upserts, Apply(t, b)
      PROVE  Exclusive'
  BY <1>2 DEF Apply
<1>3. ASSUME NEW t \in Threads, NEW b \in Snapshots, ApplySnapshot(t, b)
      PROVE  Exclusive'
  BY <1>3 DEF ApplySnapshot
<1>4. ASSUME NEW t \in Threads, NEW i \in SessionIds, RemoveSession(t, i)
      PROVE  Exclusive'
  BY <1>4, WithoutType DEF RemoveSession
<1>5. ASSUME NEW t \in Threads, ClearDone(t)
      PROVE  Exclusive'
  BY <1>5, WithoutType DEF ClearDone
<1>6. ASSUME NEW t \in Threads, NEW i \in SessionIds, ForgetRemoved(t, i)
      PROVE  Exclusive'
  <2>1. Tombstones(removed') = Tombstones(removed) \ {i}
    BY <1>6, ForgottenProper DEF ForgetRemoved, TombstonesProper, Proper
  <2>2. QED
    BY <1>6, <2>1 DEF ForgetRemoved
<1>7. ASSUME NEW t \in Threads, NEW i \in SessionIds, FilterRemoved(t, i)
      PROVE  Exclusive'
  <2>1. batch'[t].events \in Events /\ todo'[t] = todo[t] \ {i}
    BY <1>7, TypedStep DEF FilterRemoved, Next, Step
  <2>2. CASE i \in Tombstones(removed)
    <3>1. batch'[t].events = EventsOf(batch[t].events, SessionIds \ {i})
      BY <1>7, <2>2 DEF FilterRemoved
    <3>2. DOMAIN batch'[t].events = DOMAIN batch[t].events \cap (SessionIds \ {i})
      BY <3>1, EventsOfType
    <3>3. QED
      BY <1>7, <2>1, <3>2 DEF FilterRemoved
  <2>3. CASE i \notin Tombstones(removed)
    BY <1>7, <2>1, <2>3 DEF FilterRemoved
  <2>4. QED
    BY <2>2, <2>3
<1>8. ASSUME NEW t \in Threads, NEW i \in SessionIds, RememberRemoved(t, i)
      PROVE  Exclusive'
  <2>1. Tombstones(removed') \subseteq Tombstones(removed) \cup {i}
    BY <1>8, RememberedProper DEF RememberRemoved, TombstonesProper, Proper
  <2>2. QED
    BY <1>8, <2>1 DEF RememberRemoved
<1>9. ASSUME NEW t \in Threads, Upsert(t)
      PROVE  Exclusive'
  BY <1>9, UpsertedType DEF Upsert
<1>10. ASSUME NEW t \in Threads, ReplaceLive(t)
       PROVE  Exclusive'
  <2>1. PICK kept \in LiveSet :
          /\ \A i \in SessionIds : kept[i] # NoSession
                                     => sessions[i] # NoSession
          /\ sessions' = Upserted(kept, batch[t].events)
    BY <1>10, WithoutType DEF ReplaceLive
  <2>2. batch[t].events \in Events
    OBVIOUS
  <2>3. \A i \in SessionIds : sessions'[i] # NoSession
           => i \in DOMAIN batch[t].events \/ sessions[i] # NoSession
    BY <2>1, <2>2, UpsertedType
  <2>4. QED
    BY <1>10, <2>3 DEF ReplaceLive
<1>11. ASSUME NEW t \in Threads, RemoveProducer(t)
       PROVE  Exclusive'
  BY <1>11 DEF RemoveProducer, Return
<1>12. ASSUME NEW t \in Threads, CopyLive(t)
       PROVE  Exclusive'
  BY <1>12 DEF CopyLive, Image
<1>13. ASSUME NEW t \in Threads, CopyRemoved(t)
       PROVE  Exclusive'
  BY <1>13 DEF CopyRemoved, Image
<1>14. ASSUME NEW t \in Threads, WriteStore(t)
       PROVE  Exclusive'
  BY <1>14 DEF WriteStore, Return
<1>15. ASSUME NEW t \in Threads, Emit(t)
       PROVE  Exclusive'
  BY <1>15 DEF Emit, Return
<1>16. CASE UNCHANGED vars
  BY <1>16 DEF vars, local
<1>17. QED
  BY <1>1, <1>2, <1>3, <1>4, <1>5, <1>6, <1>7, <1>8, <1>9, <1>10, <1>11,
     <1>12, <1>13, <1>14, <1>15, <1>16 DEF Next, Call, Step

\* Nothing is live and nothing tombstoned in a process that starts.
LEMMA ExclusiveInit == Init => Exclusive
BY DEF Init, Exclusive, Apart, Memory, Live, EmptyImage, Tombstones

\* A removed session is live again only without its tombstone, whatever the
\* calls made one after the other, the cap, failing writes and crashes.
THEOREM RemovedStayAway ==
  ASSUME OneCall
  PROVE  Spec => []LiveXorTombstoned
<1>1. Exclusive => LiveXorTombstoned
  BY DEF Exclusive, LiveXorTombstoned, Apart, Memory
<1>2. QED
  BY <1>1, ExclusiveInit, ExclusiveStep, TypedAlways, PTL DEF Spec

-----------------------------------------------------------------------------
(***************************************************************************)
(* Owners, when every event is signed: the producer of a live session can  *)
(* prune it with its next heartbeat.                                       *)
(***************************************************************************)
Signed(events) == \A i \in DOMAIN events : events[i].producer # NoProducer

Claimed(m) == \A i \in Live(m.sessions) : m.producers[i] # NoProducer

\* Live sessions have an owner in memory, in the store and in the copy on its
\* way there; what is still to be inserted is signed.
AllClaimed ==
  /\ Claimed(Memory)
  /\ Claimed(disk)
  /\ \A t \in Threads :
       /\ Signed(batch[t].events)
       /\ pc[t] \in {"copy_removed", "write"} => Claimed(image[t])

\* Inserting signed events leaves every live session with an owner.
LEMMA InsertedClaimed ==
  ASSUME NEW s \in LiveSet, NEW o \in ProducerIndex, NEW events \in Events,
         Signed(events),
         \A i \in SessionIds : s[i] # NoSession => o[i] # NoProducer
  PROVE  \A i \in SessionIds : Upserted(s, events)[i] # NoSession
                                 => Reindexed(o, events)[i] # NoProducer
BY UpsertedType, ReindexedType DEF Signed, Reindexed

\* Every step keeps the owners of the live sessions.
LEMMA ClaimedStep ==
  ASSUME OneCall, \A b \in Upserts \cup Snapshots : Signed(b.events)
  PROVE  Typed /\ Exclusive /\ AllClaimed /\ [Next]_vars => AllClaimed'
<1> SUFFICES ASSUME Typed, Exclusive, AllClaimed, [Next]_vars
             PROVE  AllClaimed'
  OBVIOUS
<1> USE DEF Typed, TypeOK, AllClaimed, Claimed, Memory, Live, Goto, PCs, live,
            OneCall
<1>0. Signed(NoBatch.events)
  BY DEF NoBatch, Signed
<1>1. CASE Restart
  BY <1>0, <1>1 DEF Restart
<1>2. ASSUME NEW t \in Threads, NEW b \in Upserts, Apply(t, b)
      PROVE  AllClaimed'
  BY <1>2 DEF Apply
<1>3. ASSUME NEW t \in Threads, NEW b \in Snapshots, ApplySnapshot(t, b)
      PROVE  AllClaimed'
  BY <1>3 DEF ApplySnapshot
<1>4. ASSUME NEW t \in Threads, NEW i \in SessionIds, RemoveSession(t, i)
      PROVE  AllClaimed'
  BY <1>4, WithoutType DEF RemoveSession
<1>5. ASSUME NEW t \in Threads, ClearDone(t)
      PROVE  AllClaimed'
  <2>1. \A i \in Live(sessions') : producers'[i] = producers[i]
                                    /\ i \in Live(sessions)
    BY <1>5, WithoutType DEF ClearDone, IndexOfLive
  <2>2. QED
    BY <1>5, <2>1 DEF ClearDone
<1>6. ASSUME NEW t \in Threads, NEW i \in SessionIds, ForgetRemoved(t, i)
      PROVE  AllClaimed'
  BY <1>6 DEF ForgetRemoved
<1>7. ASSUME NEW t \in Threads, NEW i \in SessionIds, FilterRemoved(t, i)
      PROVE  AllClaimed'
  <2>1. Signed(EventsOf(batch[t].events, SessionIds \ {i}))
    BY DEF Signed, EventsOf
  <2>2. QED
    BY <1>7, <2>1 DEF FilterRemoved
<1>8. ASSUME NEW t \in Threads, NEW i \in SessionIds, RememberRemoved(t, i)
      PROVE  AllClaimed'
  BY <1>8 DEF RememberRemoved
<1>9. ASSUME NEW t \in Threads, Upsert(t)
      PROVE  AllClaimed'
  BY <1>9, InsertedClaimed DEF Upsert
<1>10. ASSUME NEW t \in Threads, ReplaceLive(t)
       PROVE  AllClaimed'
  <2> DEFINE events == batch[t].events
             kept == Without(sessions, Prunable(producers, DOMAIN events,
                                                batch[t].producer))
             index == IndexOfLive(producers, kept)
  <2>1. events \in Events /\ kept \in LiveSet /\ index \in ProducerIndex
    BY WithoutType, IndexOfLiveType
  <2>2. \A i \in SessionIds : kept[i] # NoSession => index[i] # NoProducer
    BY WithoutType DEF IndexOfLive
  <2>3. /\ sessions' = Upserted(kept, events)
        /\ producers' = Reindexed(index, events)
    BY <1>10 DEF ReplaceLive
  <2> HIDE DEF kept, index
  <2>4. \A i \in SessionIds : sessions'[i] # NoSession
                                => producers'[i] # NoProducer
    BY <2>1, <2>2, <2>3, InsertedClaimed
  <2>5. QED
    BY <1>10, <2>4 DEF ReplaceLive
<1>11. ASSUME NEW t \in Threads, RemoveProducer(t)
       PROVE  AllClaimed'
  <2>1. \A i \in Live(sessions) : producers'[i] = producers[i]
    BY <1>11 DEF RemoveProducer, Exclusive
  <2>2. \A u \in Threads : batch'[u] \in {batch[u], NoBatch}
    BY <1>11 DEF RemoveProducer, Return
  <2>3. \A u \in Threads : pc'[u] \notin {"copy_removed", "write"}
    BY <1>11 DEF RemoveProducer, Return
  <2>4. UNCHANGED <<sessions, disk>>
    BY <1>11 DEF RemoveProducer
  <2>5. \A u \in Threads : Signed(batch'[u].events)
    BY <1>0, <2>2
  <2>6. Claimed(Memory)' /\ Claimed(disk)'
    BY <2>1, <2>4
  <2>7. QED
    BY <2>3, <2>5, <2>6
<1>12. ASSUME NEW t \in Threads, CopyLive(t)
       PROVE  AllClaimed'
  <2>1. /\ image'[t].sessions = sessions
        /\ image'[t].producers = IndexOfLive(producers, sessions)
        /\ \A u \in Threads \ {t} : image'[u] = image[u]
    BY <1>12 DEF CopyLive, Image
  <2>2. Claimed(image'[t])
    BY <2>1 DEF IndexOfLive
  <2>3. QED
    BY <1>12, <2>1, <2>2 DEF CopyLive
<1>13. ASSUME NEW t \in Threads, CopyRemoved(t)
       PROVE  AllClaimed'
  <2>1. \A u \in Threads : /\ image'[u].sessions = image[u].sessions
                            /\ image'[u].producers = image[u].producers
    BY <1>13 DEF CopyRemoved, Image
  <2>2. QED
    BY <1>13, <2>1 DEF CopyRemoved
<1>14. ASSUME NEW t \in Threads, WriteStore(t)
       PROVE  AllClaimed'
  <2>1. Claimed(disk')
    BY <1>14 DEF WriteStore
  <2>2. \A u \in Threads : batch'[u] \in {batch[u], NoBatch}
    BY <1>14 DEF WriteStore, Return
  <2>3. \A u \in Threads : pc'[u] \notin {"copy_removed", "write"}
    BY <1>14 DEF WriteStore, Return
  <2>4. UNCHANGED <<sessions, producers>>
    BY <1>14 DEF WriteStore
  <2>5. \A u \in Threads : Signed(batch'[u].events)
    BY <1>0, <2>2
  <2>6. Claimed(Memory)'
    BY <2>4
  <2>7. QED
    BY <2>1, <2>3, <2>5, <2>6
<1>15. ASSUME NEW t \in Threads, Emit(t)
       PROVE  AllClaimed'
  BY <1>0, <1>15 DEF Emit, Return
<1>16. CASE UNCHANGED vars
  BY <1>16 DEF vars, local
<1>17. QED
  BY <1>1, <1>2, <1>3, <1>4, <1>5, <1>6, <1>7, <1>8, <1>9, <1>10, <1>11,
     <1>12, <1>13, <1>14, <1>15, <1>16 DEF Next, Call, Step

\* When every event names its producer, every live session has its owner in
\* the index between the calls.
THEOREM LiveSessionsOwned ==
  ASSUME OneCall, \A b \in Upserts \cup Snapshots : Signed(b.events)
  PROVE  Spec => []LiveAreOwned
<1>1. Init => AllClaimed
  BY DEF Init, AllClaimed, Claimed, Memory, Live, EmptyImage, NoBatch, Signed
<1>2. AllClaimed => LiveAreOwned
  BY DEF AllClaimed, Claimed, Memory, LiveAreOwned
<1>3. QED
  BY <1>1, <1>2, ExclusiveInit, ExclusiveStep, ClaimedStep, TypedAlways, PTL
     DEF Spec

-----------------------------------------------------------------------------
(***************************************************************************)
(* The list while the ids just removed are remembered one after another:   *)
(* tombstones of D come first, then those of R, and nothing of R has been  *)
(* evicted while one of D is left.                                         *)
(***************************************************************************)
Buried(list, D, R) ==
  /\ \E n \in 0..Len(list) : /\ \A k \in 1..n : list[k] \in D
                             /\ \A k \in n + 1 .. Len(list) : list[k] \in R
                             /\ n > 0 => R \subseteq Tombstones(list)
  /\ Len(list) < MAX_REMOVED => Tombstones(list) = D \cup R

\* Before the first id is remembered.
LEMMA BuriedNone ==
  ASSUME NEW list \in Seq(SessionIds)
  PROVE  Buried(list, Tombstones(list), {})
<1>1. Len(list) \in Nat /\ DOMAIN list = 1..Len(list)
  BY LenProperties
<1>2. \A k \in 1..Len(list) : list[k] \in Tombstones(list)
  BY <1>1 DEF Tombstones
<1>3. Len(list) + 1 .. Len(list) = {}
  BY <1>1
<1>4. QED
  BY <1>1, <1>2, <1>3 DEF Buried

\* Remembering one more id of the removed ones.
LEMMA BuriedNext ==
  ASSUME NEW list \in Seq(SessionIds), NEW D, NEW R, NEW i \in SessionIds,
         Distinct(list), Len(list) <= MAX_REMOVED,
         D \cap R = {}, Buried(list, D, R)
  PROVE  Buried(Remembered(list, i), D, R \cup {i})
<1> DEFINE S == R \cup {i}
<1>1. PICK n \in 0..Len(list) : /\ \A k \in 1..n : list[k] \in D
                                /\ \A k \in n + 1 .. Len(list) : list[k] \in R
                                /\ n > 0 => R \subseteq Tombstones(list)
  BY DEF Buried
<1>2. Len(list) < MAX_REMOVED => Tombstones(list) = D \cup R
  BY DEF Buried
<1>3. Len(list) \in Nat /\ DOMAIN list = 1..Len(list) /\ MAX_REMOVED \in Nat
      /\ MAX_REMOVED > 0
  BY LenProperties, DataAssumption
<1>3a. Len(list) < MAX_REMOVED \/ Len(list) = MAX_REMOVED
  <2>1. \A x, y \in Nat : x <= y => x < y \/ x = y
    OBVIOUS
  <2>2. QED
    BY <1>3, <2>1, Zenon
<1>4. CASE i \in Tombstones(list)
  <2>1. Remembered(list, i) = list
    BY <1>4 DEF Remembered
  <2>2. /\ \A k \in n + 1 .. Len(list) : list[k] \in S
        /\ n > 0 => S \subseteq Tombstones(list)
        /\ Len(list) < MAX_REMOVED => Tombstones(list) = D \cup S
    BY <1>1, <1>2, <1>4
  <2>3. QED
    BY <1>1, <2>1, <2>2 DEF Buried
<1>5. CASE i \notin Tombstones(list)
  <2> DEFINE f == Append(list, i)
             m == Len(list)
  <2>1. /\ f \in Seq(SessionIds) /\ Len(f) = m + 1
        /\ \A j \in 1..m : f[j] = list[j]
        /\ f[m + 1] = i
    BY AppendProperties
  <2>2. Remembered(list, i) = Capped(f) /\ DOMAIN f = 1..(m + 1)
    BY <1>5, <2>1, LenProperties DEF Remembered
  <2> HIDE DEF f
  <2>3. CASE m < MAX_REMOVED
    <3>1. Capped(f) = f
      BY <1>3, <2>1, <2>3 DEF Capped
    <3>2. Tombstones(f) = Tombstones(list) \cup {i}
      <4>1. \A j \in 1..m : j \in 1..(m + 1)
        BY <1>3
      <4>2. m + 1 \in 1..(m + 1) /\ \A j \in 1..(m + 1) : j = m + 1 \/ j \in 1..m
        BY <1>3
      <4>3. QED
        BY <1>3, <2>1, <2>2, <4>1, <4>2 DEF Tombstones
    <3>3. n \in 0..Len(f) /\ \A k \in 1..n : f[k] \in D
      BY <1>1, <1>3, <2>1
    <3>4. \A k \in n + 1 .. Len(f) : f[k] \in S
      <4> TAKE k \in n + 1 .. Len(f)
      <4>1. CASE k = m + 1
        BY <2>1, <4>1
      <4>2. CASE k # m + 1
        BY <1>1, <1>3, <2>1, <4>2
      <4>3. QED
        BY <4>1, <4>2
    <3>5. Tombstones(f) = D \cup S /\ S \subseteq Tombstones(f)
      BY <1>2, <2>3, <3>2
    <3>6. Buried(f, D, S)
      BY <3>3, <3>4, <3>5 DEF Buried
    <3>7. QED
      BY <2>2, <3>1, <3>6
  <2>4. CASE m = MAX_REMOVED
    <3> DEFINE g == SubSeq(f, 2, m + 1)
    <3>1. Capped(f) = g
      <4>1. Len(f) > MAX_REMOVED /\ Len(f) - MAX_REMOVED + 1 = 2
        BY <1>3, <2>1, <2>4
      <4>2. QED
        BY <2>1, <4>1 DEF Capped
    <3>2. /\ g \in Seq(SessionIds) /\ Len(g) = m
          /\ \A j \in 1..m : g[j] = f[j + 1]
      <4>1. 2 \in 1..(m + 1) /\ m + 1 \in 1..Len(f) /\ (m + 1) - 2 + 1 = m
            /\ \A j \in 1..m : j + 2 - 1 = j + 1
        BY <1>3, <2>1, <2>4
      <4>2. QED
        BY <2>1, <4>1, SubSeqProperties
    <3>3. DOMAIN g = 1..m
      BY <3>2, LenProperties
    <3> HIDE DEF g
    <3> DEFINE q == IF n > 0 THEN n - 1 ELSE 0
    <3>4. q \in Nat /\ q <= m /\ q + 1 >= n /\ (n > 0 => q = n - 1)
      BY <1>1, <1>3
    <3>4a. q \in 0..Len(g)
      BY <1>3, <3>2, <3>4
    <3>5. \A k \in 1..q : g[k] \in D
      <4> TAKE k \in 1..q
      <4>1. k \in 1..m /\ k + 1 \in 1..n /\ k + 1 \in 1..m
        BY <1>1, <1>3
      <4>2. g[k] = list[k + 1]
        BY <2>1, <3>2, <4>1
      <4>3. QED
        BY <1>1, <4>1, <4>2
    <3>6. \A k \in q + 1 .. Len(g) : g[k] \in S
      <4> TAKE k \in q + 1 .. Len(g)
      <4>0. k \in q + 1 .. m
        BY <3>2
      <4> HIDE DEF q
      <4>1. k \in 1..m /\ (k = m \/ k + 1 \in n + 1 .. m) /\ k + 1 \in 1..(m + 1)
        <5>1. \A x, y, z \in Nat : \A w \in y + 1 .. x :
                 y <= x /\ y + 1 >= z
                   => w \in 1..x /\ (w = x \/ w + 1 \in z + 1 .. x)
                      /\ w + 1 \in 1..(x + 1)
          OBVIOUS
        <5>2. n \in Nat
          BY <1>3
        <5>3. QED
          BY <1>3, <3>4, <4>0, <5>1, <5>2, Zenon
      <4>2. CASE k = m
        BY <2>1, <3>2, <4>1, <4>2
      <4>3. CASE k # m
        <5>1. k + 1 \in n + 1 .. m /\ k + 1 \in 1..m
          <6>1. \A x, z \in Nat : \A y \in z + 1 .. x : y \in 1..x
            OBVIOUS
          <6>2. n \in Nat
            BY <1>3
          <6>3. QED
            BY <1>3, <4>1, <4>3, <6>1, <6>2, Zenon
        <5>2. g[k] = list[k + 1]
          BY <2>1, <3>2, <4>1, <5>1
        <5>3. QED
          BY <1>1, <5>1, <5>2
      <4>4. QED
        BY <4>2, <4>3
    <3>7. q > 0 => S \subseteq Tombstones(g)
      <4> SUFFICES ASSUME q > 0, NEW r \in S PROVE r \in Tombstones(g)
        OBVIOUS
      <4>1. CASE r = i
        <5>1. m \in 1..m /\ g[m] = i
          BY <1>3, <2>1, <3>2, <2>4
        <5>2. QED
          BY <3>3, <4>1, <5>1 DEF Tombstones
      <4>2. CASE r \in R
        <5>1. n > 0 /\ 1 \in 1..n
          BY <1>1
        <5>2. PICK k \in 1..m : list[k] = r
          BY <1>1, <1>3, <4>2, <5>1 DEF Tombstones
        <5>3. k # 1
          BY <1>1, <4>2, <5>1, <5>2
        <5>4. k - 1 \in 1..m /\ k - 1 + 1 = k
          BY <1>3, <5>2, <5>3
        <5>5. g[k - 1] = r
          BY <2>1, <3>2, <5>2, <5>4
        <5>6. QED
          BY <3>3, <5>4, <5>5 DEF Tombstones
      <4>3. QED
        BY <4>1, <4>2
    <3>8. Buried(g, D, S)
      <4> HIDE DEF q
      <4>1. ~(Len(g) < MAX_REMOVED)
        BY <1>3, <2>4, <3>2
      <4>2. QED
        BY <3>4a, <3>5, <3>6, <3>7, <4>1 DEF Buried
    <3>9. QED
      BY <2>2, <3>1, <3>8
  <2>5. QED
    BY <1>3a, <2>3, <2>4
<1>6. QED
  BY <1>4, <1>5

\* A list without duplicates has as many members as its length says.
LEMMA DistinctCounts ==
  ASSUME NEW list \in Seq(SessionIds), Distinct(list)
  PROVE  /\ IsFiniteSet(Tombstones(list))
         /\ Cardinality(Tombstones(list)) = Len(list)
<1> DEFINE T == Tombstones(list)
<1>1. Len(list) \in Nat /\ DOMAIN list = 1..Len(list)
  BY LenProperties
<1>2. list \in [1..Len(list) -> T]
  BY <1>1 DEF Tombstones
<1>3. list \in Bijection(1..Len(list), T)
  BY <1>1, <1>2 DEF Bijection, Injection, Surjection, IsInjective, Distinct,
                    Tombstones
<1>4. ExistsBijection(1..Len(list), T)
  BY <1>3 DEF ExistsBijection
<1>5. QED
  BY <1>1, <1>4, FS_NatBijection, FS_CountingElements

\* What is left when all of R is remembered is what Bury of PushStore allows.
LEMMA BuriedIsBury ==
  ASSUME NEW list \in Seq(SessionIds), NEW D, NEW R,
         Distinct(list), Len(list) <= MAX_REMOVED, IsFiniteSet(D \cup R),
         Buried(list, D, R)
  PROVE  /\ Tombstones(list) \in SUBSET (D \cup R)
         /\ IF Cardinality(D \cup R) <= MAX_REMOVED
            THEN Tombstones(list) = D \cup R
            ELSE /\ Cardinality(Tombstones(list)) = MAX_REMOVED
                 /\ R \subseteq Tombstones(list) \/ Tombstones(list) \subseteq R
<1> DEFINE T == Tombstones(list)
           U == D \cup R
<1>1. PICK n \in 0..Len(list) : /\ \A k \in 1..n : list[k] \in D
                                /\ \A k \in n + 1 .. Len(list) : list[k] \in R
                                /\ n > 0 => R \subseteq Tombstones(list)
  BY DEF Buried
<1>2. Len(list) \in Nat /\ DOMAIN list = 1..Len(list) /\ MAX_REMOVED \in Nat
  BY LenProperties, DataAssumption
<1>2a. Len(list) < MAX_REMOVED \/ Len(list) = MAX_REMOVED
  <2>1. \A x, y \in Nat : x <= y => x < y \/ x = y
    OBVIOUS
  <2>2. QED
    BY <1>2, <2>1, Zenon
<1>3. \A k \in 1..Len(list) : k \in 1..n \/ k \in n + 1 .. Len(list)
  BY <1>2
<1>4. T \subseteq U /\ (n = 0 => T \subseteq R)
  BY <1>1, <1>2, <1>3 DEF Tombstones
<1>5. R \subseteq T \/ T \subseteq R
  BY <1>1, <1>2, <1>4
<1>6. IsFiniteSet(T) /\ Cardinality(T) = Len(list)
  BY DistinctCounts
<1>7. Cardinality(T) <= Cardinality(U) /\ (Cardinality(U) = Cardinality(T) => U = T)
      /\ Cardinality(U) \in Nat
  BY <1>4, FS_Subset, FS_CardinalityType
<1>8. CASE Len(list) < MAX_REMOVED
  <2>1. T = U
    BY <1>8 DEF Buried
  <2>2. Cardinality(U) <= MAX_REMOVED
    BY <1>2, <1>6, <1>8, <2>1
  <2>3. QED
    BY <2>1, <2>2
<1>9. CASE Len(list) = MAX_REMOVED
  <2>1. Cardinality(U) <= MAX_REMOVED => T = U
    BY <1>2, <1>6, <1>7, <1>9
  <2>2. QED
    BY <1>4, <1>5, <1>6, <1>9, <2>1
<1>10. QED
  BY <1>2a, <1>8, <1>9

-----------------------------------------------------------------------------
(***************************************************************************)
(* The store.  While writes succeed, the store and the memory of the one   *)
(* call under way are never further apart than that call: Course says, for *)
(* each point a call can be at, how much of it memory already shows.       *)
(***************************************************************************)

\* The live set and the index without the sessions of S, which are all the
\* done ones or one that the user chose.
Taken(d, s, o, S) ==
  /\ \/ S = DoneIds(d.sessions) /\ S # {}
     \/ \E i \in SessionIds : S = {i} /\ d.sessions[i] # NoSession
  /\ s = Without(d.sessions, S)
  /\ o = [i \in SessionIds |-> IF i \in S THEN NoProducer ELSE d.producers[i]]

\* The heartbeat's events that have no tombstone replace its producer's.
Replaced(d, s, o, events, producer) ==
  LET kept == Without(d.sessions,
                      Prunable(d.producers, DOMAIN events, producer))
  IN  /\ s = Upserted(kept, events)
      /\ o = Reindexed(IndexOfLive(d.producers, kept), events)

\* One call turns the contents d of the store into m.
Leads(d, m) ==
  \/ \E b \in Batches :
       /\ m.sessions = Upserted(d.sessions, b.events)
       /\ m.producers = Reindexed(d.producers, b.events)
       /\ Tombstones(m.removed) = Tombstones(d.removed) \ DOMAIN b.events
  \/ \E b \in Batches :
       /\ Replaced(d, m.sessions, m.producers,
                   EventsOf(b.events, SessionIds \ Tombstones(d.removed)),
                   b.producer)
       /\ m.removed = d.removed
  \/ \E S \in SUBSET SessionIds :
       /\ Taken(d, m.sessions, m.producers, S)
       /\ Buried(m.removed, Tombstones(d.removed), S)

Stage(t) ==
  /\ pc[t] = "forget" =>
       /\ batch[t] \in Batches /\ todo[t] \subseteq DOMAIN batch[t].events
       /\ sessions = disk.sessions /\ producers = disk.producers
       /\ Tombstones(removed)
            = Tombstones(disk.removed) \ (DOMAIN batch[t].events \ todo[t])
  /\ pc[t] = "filter" =>
       /\ disk = Memory
       /\ \E b \in Batches :
            /\ batch[t].producer = b.producer
            /\ batch[t].events =
                 EventsOf(b.events, SessionIds \ (Tombstones(removed) \ todo[t]))
  /\ pc[t] = "disown" =>
       /\ producers = disk.producers /\ removed = disk.removed
       /\ \E i \in SessionIds : /\ todo[t] = {i}
                                /\ sessions = Without(disk.sessions, {i})
                                /\ changed[t] <=> disk.sessions[i] # NoSession
  /\ pc[t] = "remember" =>
       \E S \in SUBSET SessionIds :
         /\ todo[t] \subseteq S
         /\ Taken(disk, sessions, producers, S)
         /\ Buried(removed, Tombstones(disk.removed), S \ todo[t])
  /\ pc[t] \in {"persist", "copy_removed", "write"} => Leads(disk, Memory)
  /\ pc[t] = "copy_removed" => /\ image[t].sessions = sessions
                               /\ image[t].producers = producers
  /\ pc[t] = "write" => image[t] = Memory
  /\ pc[t] = "emit" => disk = Memory

Course == /\ Quiet => disk = Memory
          /\ \A t \in Threads : Stage(t)

\* Filtering a batch twice keeps the events that both filters keep.
LEMMA FilteredTwice ==
  ASSUME NEW events, NEW A, NEW B
  PROVE  EventsOf(EventsOf(events, A), B) = EventsOf(events, A \cap B)
<1>1. DOMAIN EventsOf(events, A) = DOMAIN events \cap A
  BY DEF EventsOf
<1>2. (DOMAIN events \cap A) \cap B = DOMAIN events \cap (A \cap B)
  OBVIOUS
<1>3. QED
  BY <1>1, <1>2 DEF EventsOf

\* A filter that keeps every id changes nothing.
LEMMA FilteredNot ==
  ASSUME NEW events \in Events, NEW A, DOMAIN events \subseteq A
  PROVE  EventsOf(events, A) = events
<1>1. PICK S \in SUBSET SessionIds : events \in [S -> Payload]
  BY DEF Events
<1>2. DOMAIN events \cap A = DOMAIN events
  OBVIOUS
<1>3. QED
  BY <1>1, <1>2 DEF EventsOf

\* A store in the process that starts holds what memory holds.
LEMMA StoreIsRecord ==
  ASSUME Typed
  PROVE  /\ disk = [sessions |-> disk.sessions, producers |-> disk.producers,
                    removed |-> disk.removed]
         /\ Capped(disk.removed) = disk.removed
<1>1. disk \in Image /\ disk.removed \in Seq(SessionIds)
      /\ Len(disk.removed) <= MAX_REMOVED
  BY DEF Typed, TypeOK, TombstonesProper, Proper, Image
<1>2. \A x, y \in Nat : x <= y => ~(x > y)
  OBVIOUS
<1>3. Len(disk.removed) \in Nat /\ MAX_REMOVED \in Nat
  BY <1>1, LenProperties, DataAssumption
<1>4. ~(Len(disk.removed) > MAX_REMOVED)
  BY <1>1, <1>2, <1>3, Zenon
<1>5. QED
  BY <1>1, <1>4 DEF Capped, Image

\* The steps of an upsert.
LEMMA CourseOfApply ==
  ASSUME OneCall, Typed, Course, NEW t \in Threads,
         \/ \E b \in Upserts : Apply(t, b)
         \/ \E i \in SessionIds : ForgetRemoved(t, i)
         \/ Upsert(t)
  PROVE  Course'
<1> USE DEF OneCall, Course, Quiet, Typed, TypeOK, Goto, live
<1>1. ASSUME NEW b \in Upserts, Apply(t, b)
      PROVE  Course'
  <2>1. pc'[t] = "forget" /\ batch'[t] = b /\ todo'[t] = DOMAIN b.events
        /\ UNCHANGED <<sessions, producers, removed, disk>>
    BY <1>1 DEF Apply
  <2>2. disk = Memory /\ b \in Batches
    BY <1>1, RequestAssumption DEF Apply
  <2>3. Stage(t)'
    BY <2>1, <2>2 DEF Stage, Memory
  <2>4. QED
    BY <2>1, <2>3
<1>2. ASSUME NEW i \in SessionIds, ForgetRemoved(t, i)
      PROVE  Course'
  <2>1. pc[t] = "forget" /\ pc'[t] = "forget" /\ i \in todo[t]
        /\ todo'[t] = todo[t] \ {i}
        /\ UNCHANGED <<sessions, producers, batch, disk>>
    BY <1>2 DEF ForgetRemoved
  <2>2. Tombstones(removed') = Tombstones(removed) \ {i}
    BY <1>2, ForgottenProper DEF ForgetRemoved, TombstonesProper, Proper
  <2>3. /\ batch[t] \in Batches /\ todo[t] \subseteq DOMAIN batch[t].events
        /\ sessions = disk.sessions /\ producers = disk.producers
        /\ Tombstones(removed)
             = Tombstones(disk.removed) \ (DOMAIN batch[t].events \ todo[t])
    BY <2>1 DEF Stage
  <2>4. Tombstones(removed')
          = Tombstones(disk.removed) \ (DOMAIN batch[t].events \ todo'[t])
    BY <2>1, <2>2, <2>3
  <2>5. Stage(t)'
    BY <2>1, <2>3, <2>4 DEF Stage
  <2>6. QED
    BY <2>1, <2>5
<1>3. ASSUME Upsert(t)
      PROVE  Course'
  <2>1. pc[t] = "forget" /\ pc'[t] = "persist" /\ todo[t] = {}
        /\ sessions' = Upserted(sessions, batch[t].events)
        /\ producers' = Reindexed(producers, batch[t].events)
        /\ UNCHANGED <<removed, disk>>
    BY <1>3 DEF Upsert
  <2>2. /\ batch[t] \in Batches
        /\ sessions = disk.sessions /\ producers = disk.producers
        /\ Tombstones(removed)
             = Tombstones(disk.removed) \ DOMAIN batch[t].events
    BY <2>1 DEF Stage
  <2>3. Leads(disk, Memory)'
    BY <2>1, <2>2 DEF Leads, Memory
  <2>4. Stage(t)'
    BY <2>1, <2>3 DEF Stage
  <2>5. QED
    BY <2>1, <2>4
<1>4. QED
  BY <1>1, <1>2, <1>3

\* The steps of a heartbeat.
LEMMA CourseOfSnapshot ==
  ASSUME OneCall, Typed, Course, NEW t \in Threads,
         \/ \E b \in Snapshots : ApplySnapshot(t, b)
         \/ \E i \in SessionIds : FilterRemoved(t, i)
         \/ ReplaceLive(t)
  PROVE  Course'
<1> USE DEF OneCall, Course, Quiet, Typed, TypeOK, Goto, live
<1>1. ASSUME NEW b \in Snapshots, ApplySnapshot(t, b)
      PROVE  Course'
  <2>1. pc'[t] = "filter" /\ batch'[t] = b /\ todo'[t] = DOMAIN b.events
        /\ UNCHANGED <<sessions, producers, removed, disk>>
    BY <1>1 DEF ApplySnapshot
  <2>2. disk = Memory /\ b \in Batches /\ b.events \in Events
    BY <1>1, RequestAssumption DEF ApplySnapshot, Batches
  <2>3. DOMAIN b.events
          \subseteq SessionIds \ (Tombstones(removed) \ DOMAIN b.events)
    BY <2>2, EventsType
  <2>4. b.events = EventsOf(b.events,
                     SessionIds \ (Tombstones(removed) \ DOMAIN b.events))
    BY <2>2, <2>3, FilteredNot
  <2>5. Stage(t)'
    BY <2>1, <2>2, <2>4 DEF Stage, Memory
  <2>6. QED
    BY <2>1, <2>5
<1>2. ASSUME NEW i \in SessionIds, FilterRemoved(t, i)
      PROVE  Course'
  <2>1. pc[t] = "filter" /\ pc'[t] = "filter" /\ i \in todo[t]
        /\ todo'[t] = todo[t] \ {i}
        /\ UNCHANGED <<sessions, producers, removed, disk>>
    BY <1>2 DEF FilterRemoved
  <2>2. /\ batch'[t].producer = batch[t].producer
        /\ batch'[t].events = IF i \in Tombstones(removed)
                              THEN EventsOf(batch[t].events, SessionIds \ {i})
                              ELSE batch[t].events
    BY <1>2 DEF FilterRemoved
  <2> DEFINE open(S) == SessionIds \ (Tombstones(removed) \ S)
  <2>3. PICK b \in Batches : /\ batch[t].producer = b.producer
                             /\ batch[t].events = EventsOf(b.events, open(todo[t]))
    BY <2>1 DEF Stage
  <2>4. batch'[t].events = EventsOf(b.events, open(todo'[t]))
    <3>1. CASE i \in Tombstones(removed)
      <4>1. open(todo[t]) \cap (SessionIds \ {i}) = open(todo'[t])
        BY <2>1, <3>1
      <4>2. batch'[t].events
              = EventsOf(EventsOf(b.events, open(todo[t])), SessionIds \ {i})
        BY <2>2, <2>3, <3>1
      <4>3. QED
        BY <4>1, <4>2, FilteredTwice
    <3>2. CASE i \notin Tombstones(removed)
      <4>1. open(todo[t]) = open(todo'[t])
        BY <2>1, <3>2
      <4>2. QED
        BY <2>2, <2>3, <3>2, <4>1
    <3>3. QED
      BY <3>1, <3>2
  <2>5. disk = Memory
    BY <2>1 DEF Stage
  <2>6. Stage(t)'
    BY <2>1, <2>2, <2>3, <2>4, <2>5 DEF Stage, Memory
  <2>7. QED
    BY <2>1, <2>6
<1>3. ASSUME ReplaceLive(t)
      PROVE  Course'
  <2>1. pc[t] = "filter" /\ pc'[t] = "persist" /\ todo[t] = {}
        /\ Replaced(Memory, sessions', producers', batch[t].events,
                    batch[t].producer)
        /\ UNCHANGED <<removed, disk>>
    BY <1>3 DEF ReplaceLive, Replaced, Memory
  <2>2. disk = Memory
    BY <2>1 DEF Stage
  <2> DEFINE open == SessionIds \ (Tombstones(removed) \ todo[t])
  <2>3. PICK b \in Batches : /\ batch[t].producer = b.producer
                             /\ batch[t].events = EventsOf(b.events, open)
    BY <2>1 DEF Stage
  <2>4. open = SessionIds \ Tombstones(removed)
    BY <2>1
  <2>5. batch[t].events = EventsOf(b.events, SessionIds \ Tombstones(removed))
    BY <2>3, <2>4
  <2>6. Leads(disk, Memory)'
    BY <2>1, <2>2, <2>3, <2>5 DEF Leads, Memory
  <2>7. Stage(t)'
    BY <2>1, <2>6 DEF Stage
  <2>8. QED
    BY <2>1, <2>7
<1>4. QED
  BY <1>1, <1>2, <1>3

\* The steps of the two removals.
LEMMA CourseOfRemoval ==
  ASSUME OneCall, Typed, Owned, Exclusive, Course, NEW t \in Threads,
         \/ \E i \in SessionIds : RemoveSession(t, i)
         \/ ClearDone(t)
         \/ RemoveProducer(t)
         \/ \E i \in SessionIds : RememberRemoved(t, i)
  PROVE  Course'
<1> USE DEF OneCall, Course, Quiet, Typed, TypeOK, Goto, live
<1>1. ASSUME NEW i \in SessionIds, RemoveSession(t, i)
      PROVE  Course'
  <2>1. pc'[t] = "disown" /\ todo'[t] = {i}
        /\ sessions' = Without(sessions, {i})
        /\ (changed'[t] <=> sessions[i] # NoSession)
        /\ UNCHANGED <<producers, removed, disk>>
    BY <1>1 DEF RemoveSession
  <2>2. disk = Memory
    BY <1>1 DEF RemoveSession
  <2>3. Stage(t)'
    BY <2>1, <2>2 DEF Stage, Memory
  <2>4. QED
    BY <2>1, <2>3
<1>2. ASSUME ClearDone(t), DoneIds(sessions) # {}
      PROVE  Course'
  <2> DEFINE S == DoneIds(sessions)
  <2>1. pc'[t] = "remember" /\ todo'[t] = S /\ S # {}
        /\ sessions' = Without(sessions, S)
        /\ producers' = IndexOfLive(producers, sessions')
        /\ UNCHANGED <<removed, disk>>
    BY <1>2 DEF ClearDone
  <2>2. disk = Memory
    BY <1>2 DEF ClearDone
  <2>3. S \in SUBSET SessionIds
    BY DEF DoneIds
  <2>4. \A i \in SessionIds : sessions[i] = NoSession
                                => producers[i] = NoProducer
    BY <2>2 DEF Owned, Coherent, Memory
  <2>5. producers' = [i \in SessionIds |-> IF i \in S THEN NoProducer
                                                      ELSE producers[i]]
    BY <2>1, <2>4 DEF IndexOfLive, Without
  <2>6. Taken(disk, sessions', producers', S)
    BY <2>1, <2>2, <2>5 DEF Taken, Memory
  <2>7. Buried(removed, Tombstones(disk.removed), {})
    BY <2>2, BuriedNone DEF Memory
  <2>8. S \ todo'[t] = {} /\ todo'[t] \subseteq S
    BY <2>1
  <2> HIDE DEF S
  <2>9. Stage(t)'
    <3>1. Buried(removed', Tombstones(disk'.removed), S \ todo'[t])
      BY <2>1, <2>7, <2>8
    <3>2. Taken(disk', sessions', producers', S)
      BY <2>1, <2>6
    <3>3. QED
      BY <2>1, <2>3, <2>8, <3>1, <3>2 DEF Stage
  <2>10. QED
    BY <2>1, <2>9
<1>3. ASSUME RemoveProducer(t)
      PROVE  Course'
  <2>1. pc[t] = "disown" /\ UNCHANGED <<sessions, removed, disk>>
        /\ producers' = [i \in SessionIds |-> IF i \in todo[t] THEN NoProducer
                                                               ELSE producers[i]]
    BY <1>3 DEF RemoveProducer
  <2>2. producers = disk.producers /\ removed = disk.removed
    BY <2>1 DEF Stage
  <2>3. PICK i \in SessionIds : /\ todo[t] = {i}
                                /\ sessions = Without(disk.sessions, {i})
                                /\ changed[t] <=> disk.sessions[i] # NoSession
    BY <2>1 DEF Stage
  <2>4. CASE changed[t]
    <3>1. pc'[t] = "remember" /\ todo'[t] = {i}
      BY <1>3, <2>3, <2>4 DEF RemoveProducer
    <3>2. Taken(disk, sessions, producers', {i})
      BY <2>1, <2>2, <2>3, <2>4 DEF Taken
    <3>3. Buried(removed, Tombstones(disk.removed), {})
      BY <2>2, BuriedNone
    <3>4. {i} \ todo'[t] = {} /\ {i} \in SUBSET SessionIds
          /\ todo'[t] \subseteq {i}
      BY <3>1
    <3>5. Stage(t)'
      <4>1. Buried(removed', Tombstones(disk'.removed), {i} \ todo'[t])
        BY <2>1, <3>3, <3>4
      <4>2. Taken(disk', sessions', producers', {i})
        BY <2>1, <3>2
      <4>3. QED
        BY <3>1, <3>4, <4>1, <4>2 DEF Stage
    <3>6. QED
      BY <3>1, <3>5
  <2>5. CASE ~changed[t]
    <3>1. pc'[t] = "idle"
      BY <1>3, <2>5 DEF RemoveProducer, Return
    <3>2. disk.sessions[i] = NoSession /\ disk.producers[i] = NoProducer
      BY <2>3, <2>5 DEF Owned, Coherent
    <3>3. sessions = disk.sessions
      BY <2>3, <3>2 DEF Without, Image, LiveSet
    <3>4. producers' = disk.producers
      BY <2>1, <2>2, <2>3, <3>2 DEF Image, ProducerIndex
    <3>5. disk = [sessions |-> disk.sessions, producers |-> disk.producers,
                  removed |-> disk.removed]
      BY StoreIsRecord
    <3>6. (disk = Memory)'
      BY <2>1, <2>2, <3>3, <3>4, <3>5 DEF Memory
    <3>7. Stage(t)'
      BY <3>1 DEF Stage
    <3>8. QED
      BY <3>6, <3>7
  <2>6. QED
    BY <2>4, <2>5
<1>4. ASSUME NEW i \in SessionIds, RememberRemoved(t, i)
      PROVE  Course'
  <2>1. pc[t] = "remember" /\ i \in todo[t]
        /\ removed' = Remembered(removed, i)
        /\ todo'[t] = todo[t] \ {i}
        /\ pc'[t] = (IF todo[t] = {i} THEN "persist" ELSE "remember")
        /\ UNCHANGED <<sessions, producers, disk>>
    BY <1>4 DEF RememberRemoved
  <2> DEFINE D == Tombstones(disk.removed)
  <2>2. PICK S \in SUBSET SessionIds :
               /\ todo[t] \subseteq S
               /\ Taken(disk, sessions, producers, S)
               /\ Buried(removed, D, S \ todo[t])
    BY <2>1 DEF Stage
  <2>3. S \subseteq Live(disk.sessions)
    BY <2>2, DataAssumption DEF Taken, Live, DoneIds
  <2>4. D \cap (S \ todo[t]) = {}
    BY <2>3 DEF Exclusive, Apart
  <2>5. Distinct(removed) /\ Len(removed) <= MAX_REMOVED
    BY DEF TombstonesProper, Proper
  <2> HIDE DEF D
  <2>6. Buried(removed', D, (S \ todo[t]) \cup {i})
    BY <2>1, <2>2, <2>4, <2>5, BuriedNext
  <2>7. (S \ todo[t]) \cup {i} = S \ todo'[t]
    BY <2>1, <2>2
  <2>8. Buried(removed', D, S \ todo'[t])
    BY <2>6, <2>7
  <2>9. CASE todo[t] = {i}
    <3>1. S \ todo'[t] = S
      BY <2>1, <2>9
    <3>2. Leads(disk, Memory)'
      BY <2>1, <2>2, <2>8, <3>1 DEF Leads, Memory, D
    <3>3. Stage(t)'
      BY <2>1, <2>9, <3>2 DEF Stage
    <3>4. QED
      BY <2>1, <2>9, <3>3
  <2>10. CASE todo[t] # {i}
    <3>1. pc'[t] = "remember" /\ todo'[t] \subseteq S
      BY <2>1, <2>2, <2>10
    <3>2. Stage(t)'
      BY <2>1, <2>2, <2>8, <3>1 DEF Stage, D
    <3>3. QED
      BY <3>1, <3>2
  <2>11. QED
    BY <2>9, <2>10
<1>5. ASSUME ClearDone(t), DoneIds(sessions) = {}
      PROVE  Course'
  <2>1. disk = Memory
    BY <1>5 DEF ClearDone
  <2>2. sessions' = sessions
    BY <1>5 DEF ClearDone, Without, LiveSet
  <2>3. \A i \in SessionIds : sessions[i] = NoSession
                                => producers[i] = NoProducer
    BY <2>1 DEF Owned, Coherent, Memory
  <2>4. producers' = IndexOfLive(producers, sessions)
    BY <1>5, <2>2 DEF ClearDone
  <2>5. producers' = producers
    BY <2>3, <2>4 DEF IndexOfLive, ProducerIndex
  <2>6. UNCHANGED <<sessions, producers, removed, disk, pc, batch, todo, changed,
                    image>>
    BY <1>5, <2>2, <2>5 DEF ClearDone
  <2>7. Memory' = Memory /\ \A u \in Threads : Stage(u)' <=> Stage(u)
    BY <2>6 DEF Memory, Stage, Leads
  <2>8. QED
    BY <2>6, <2>7
<1>6. QED
  BY <1>1, <1>2, <1>3, <1>4, <1>5

\* Copying, writing and waking the sinks, when the write succeeds.
LEMMA CourseOfPersist ==
  ASSUME OneCall, WritesFail = FALSE, Typed, Owned, Course, NEW t \in Threads,
         CopyLive(t) \/ CopyRemoved(t) \/ WriteStore(t) \/ Emit(t)
  PROVE  Course'
<1> USE DEF OneCall, Course, Quiet, Typed, TypeOK, Goto, live
<1>1. ASSUME CopyLive(t)
      PROVE  Course'
  <2>1. pc[t] = "persist" /\ pc'[t] = "copy_removed"
        /\ image'[t].sessions = sessions
        /\ image'[t].producers = IndexOfLive(producers, sessions)
        /\ UNCHANGED <<sessions, producers, removed, disk>>
    BY <1>1 DEF CopyLive, Image
  <2>2. \A i \in SessionIds : sessions[i] = NoSession
                                => producers[i] = NoProducer
    BY <2>1 DEF Owned, EntriesHaveSessions
  <2>3. IndexOfLive(producers, sessions) = producers
    BY <2>2 DEF IndexOfLive, ProducerIndex
  <2>4. Leads(disk, Memory)
    BY <2>1 DEF Stage
  <2>5. Leads(disk, Memory)'
    BY <2>1, <2>4 DEF Leads, Memory
  <2>6. Stage(t)'
    BY <2>1, <2>3, <2>5 DEF Stage
  <2>7. QED
    BY <2>1, <2>6
<1>2. ASSUME CopyRemoved(t)
      PROVE  Course'
  <2>1. pc[t] = "copy_removed" /\ pc'[t] = "write"
        /\ image'[t] = [image[t] EXCEPT !.removed = removed]
        /\ UNCHANGED <<sessions, producers, removed, disk>>
    BY <1>2 DEF CopyRemoved
  <2>2. image[t].sessions = sessions /\ image[t].producers = producers
        /\ Leads(disk, Memory)
    BY <2>1 DEF Stage
  <2>3. image'[t] = Memory
    BY <2>1, <2>2 DEF Memory, Image
  <2>4. Memory' = Memory
    BY <2>1 DEF Memory
  <2>5. Stage(t)'
    BY <2>1, <2>2, <2>3, <2>4 DEF Stage
  <2>6. QED
    BY <2>1, <2>5
<1>3. ASSUME WriteStore(t)
      PROVE  Course'
  <2>1. pc[t] = "write" /\ disk' = image[t]
        /\ pc'[t] \in {"emit", "idle"}
        /\ UNCHANGED <<sessions, producers, removed>>
    BY <1>3 DEF WriteStore, Return
  <2>2. disk' = Memory'
    BY <2>1 DEF Stage, Memory
  <2>3. Stage(t)'
    BY <2>1, <2>2 DEF Stage
  <2>4. QED
    BY <2>2, <2>3
<1>4. ASSUME Emit(t)
      PROVE  Course'
  <2>1. pc[t] = "emit" /\ pc'[t] = "idle"
        /\ UNCHANGED <<sessions, producers, removed, disk>>
    BY <1>4 DEF Emit, Return
  <2>2. disk' = Memory'
    BY <2>1 DEF Stage, Memory
  <2>3. Stage(t)'
    BY <2>1 DEF Stage
  <2>4. QED
    BY <2>2, <2>3
<1>5. QED
  BY <1>1, <1>2, <1>3, <1>4

\* Every step keeps to the course.
LEMMA CourseStep ==
  ASSUME OneCall, WritesFail = FALSE
  PROVE  Typed /\ Owned /\ Exclusive /\ Course /\ [Next]_vars => Course'
<1> SUFFICES ASSUME Typed, Owned, Exclusive, Course, [Next]_vars
             PROVE  Course'
  OBVIOUS
<1>1. CASE Restart
  <2>1. \A t \in Threads : pc'[t] = "idle"
    BY <1>1 DEF Restart
  <2>2. disk' = Memory'
    BY <1>1, StoreIsRecord DEF Restart, Memory
  <2>3. QED
    BY <2>1, <2>2 DEF Course, Stage
<1>2. ASSUME NEW t \in Threads, Call(t) \/ Step(t)
      PROVE  Course'
  BY <1>2, CourseOfApply, CourseOfSnapshot, CourseOfRemoval, CourseOfPersist
     DEF Call, Step
<1>3. CASE UNCHANGED vars
  <2>1. Memory' = Memory
    BY <1>3 DEF vars, live, Memory
  <2>2. UNCHANGED <<sessions, producers, removed, disk, pc, batch, todo, changed,
                    image>>
    BY <1>3 DEF vars, local, live
  <2>3. Quiet' => disk' = Memory'
    BY <2>1, <2>2 DEF Course, Quiet
  <2>4. ASSUME NEW t \in Threads
        PROVE  Stage(t)'
    <3>1. Stage(t)
      BY DEF Course
    <3>2. QED
      BY <2>1, <2>2, <3>1 DEF Stage
  <2>5. QED
    BY <2>3, <2>4 DEF Course
<1>4. QED
  BY <1>1, <1>2, <1>3 DEF Next

\* The first process and its store are both empty.
LEMMA CourseInit == Init => Course
BY DEF Init, Course, Stage, Memory, EmptyImage

\* The facts that hold of one call at a time, together.
LEMMA CourseAlways ==
  ASSUME OneCall, WritesFail = FALSE
  PROVE  Spec => [](Typed /\ Exclusive /\ Course)
<1>1. Init => Owned
  BY EmptyCoherent DEF Init, Owned, EntriesHaveSessions, EmptyImage
<1>2. QED
  BY <1>1, OwnedStep, ExclusiveInit, ExclusiveStep, CourseInit, CourseStep,
     TypedAlways, PTL DEF Spec

\* Between the calls a restart would load exactly what is in memory: every
\* mutation is persisted, and nothing persisted is lost in loading.
THEOREM NothingUnsaved ==
  ASSUME OneCall, WritesFail = FALSE
  PROVE  Spec => []StoreIsCurrent
<1>1. Course => StoreIsCurrent
  BY DEF Course, StoreIsCurrent, Memory
<1>2. QED
  BY <1>1, CourseAlways, PTL

-----------------------------------------------------------------------------
(***************************************************************************)
(* The refinement.  Every step but the write leaves the store alone; the   *)
(* write puts memory in its place, and by Course that is one step of       *)
(* PushStore away.                                                         *)
(***************************************************************************)

\* PushStore's data are this module's.
LEMMA SameData ==
  /\ Store!Batches = Batches
  /\ \A s, e : Store!Upserted(s, e) = Upserted(s, e)
  /\ \A o, e : Store!Reindexed(o, e) = Reindexed(o, e)
  /\ \A s, S : Store!Without(s, S) = Without(s, S)
  /\ \A o, s : Store!IndexOfLive(o, s) = IndexOfLive(o, s)
  /\ \A e, S : Store!EventsOf(e, S) = EventsOf(e, S)
  /\ \A o, k, q : Store!Prunable(o, k, q) = Prunable(o, k, q)
  /\ \A s : Store!DoneIds(s) = DoneIds(s)
<1>1. Store!Events = Events
  BY DEF Events, Payload, Store!Events, Store!Payload
<1>2. \A e : Store!Named(e) = Named(e)
  BY DEF Named, Store!Named
<1>3. Store!Batches = Batches
  BY <1>1, <1>2 DEF Batches, Store!Batches
<1>4. QED
  BY <1>3
     DEF Upserted, Reindexed, Without, IndexOfLive, EventsOf, Prunable, DoneIds,
         Store!Upserted, Store!Reindexed, Store!Without, Store!IndexOfLive,
         Store!EventsOf, Store!Prunable, Store!DoneIds

\* Replacing the store by what one call makes of it is one step of PushStore.
LEMMA LeadsIsStep ==
  ASSUME IsFiniteSet(SessionIds), Typed, Coherent(disk),
         NEW m, disk' = m, Leads(disk, m),
         m.removed \in Seq(SessionIds), Proper(m.removed)
  PROVE  Store!Next
<1> DEFINE D == Tombstones(disk.removed)
<1>1. ASSUME NEW b \in Batches,
             m.sessions = Upserted(disk.sessions, b.events),
             m.producers = Reindexed(disk.producers, b.events),
             Tombstones(m.removed) = D \ DOMAIN b.events
      PROVE  Store!Next
  <2>1. Store!Apply(b)
    BY <1>1, SameData DEF Store!Apply
  <2>2. QED
    BY <2>1, SameData DEF Store!Next
<1>2. ASSUME NEW b \in Batches,
             Replaced(disk, m.sessions, m.producers,
                      EventsOf(b.events, SessionIds \ D), b.producer),
             m.removed = disk.removed
      PROVE  Store!Next
  <2>1. Store!ApplySnapshot(b)
    BY <1>2, SameData DEF Store!ApplySnapshot, Replaced
  <2>2. QED
    BY <2>1, SameData DEF Store!Next
<1>3. ASSUME NEW S \in SUBSET SessionIds,
             Taken(disk, m.sessions, m.producers, S),
             Buried(m.removed, D, S)
      PROVE  Store!Next
  <2>1. disk.sessions \in LiveSet /\ disk.producers \in ProducerIndex
        /\ disk.removed \in Seq(SessionIds)
    BY DEF Typed, TypeOK, Image
  <2>2. D \cup S \in SUBSET SessionIds
    <3>1. D \subseteq SessionIds
      <4>1. DOMAIN disk.removed = 1..Len(disk.removed)
        BY <2>1, LenProperties
      <4>2. \A k \in 1..Len(disk.removed) : disk.removed[k] \in SessionIds
        BY <2>1, ElementOfSeq
      <4>3. QED
        BY <4>1, <4>2 DEF Tombstones
    <3>2. QED
      BY <3>1
  <2>3. IsFiniteSet(D \cup S)
    BY <2>2, FS_Subset
  <2>4. Distinct(m.removed) /\ Len(m.removed) <= MAX_REMOVED
    BY DEF Proper
  <2> HIDE DEF D
  <2>5. /\ Tombstones(m.removed) \in SUBSET (D \cup S)
        /\ IF Cardinality(D \cup S) <= MAX_REMOVED
           THEN Tombstones(m.removed) = D \cup S
           ELSE /\ Cardinality(Tombstones(m.removed)) = MAX_REMOVED
                /\ \/ S \subseteq Tombstones(m.removed)
                   \/ Tombstones(m.removed) \subseteq S
    BY <1>3, <2>3, <2>4, BuriedIsBury
  <2>6. Store!Bury(S)
    <3>1. Tombstones(disk.removed)' = Tombstones(m.removed)
      OBVIOUS
    <3>2. \A T : Store!Cardinality(T) = Cardinality(T)
      BY DEF Store!Cardinality, Cardinality
    <3>3. QED
      BY <2>5, <3>1, <3>2 DEF Store!Bury, D
  <2>7. /\ m.sessions = Without(disk.sessions, S)
        /\ m.producers = [i \in SessionIds |-> IF i \in S THEN NoProducer
                                               ELSE disk.producers[i]]
    BY <1>3 DEF Taken
  <2>8. ASSUME S = DoneIds(disk.sessions), S # {}
        PROVE  Store!Next
    <3>1. m.producers = IndexOfLive(disk.producers, m.sessions)
      BY <2>7 DEF Coherent, Without, IndexOfLive
    <3>2. Store!ClearDone
      BY <2>6, <2>7, <2>8, <3>1, SameData DEF Store!ClearDone
    <3>3. QED
      BY <3>2 DEF Store!Next
  <2>9. ASSUME NEW i \in SessionIds, S = {i}, disk.sessions[i] # NoSession
        PROVE  Store!Next
    <3>1. m.producers = [disk.producers EXCEPT ![i] = NoProducer]
      BY <2>1, <2>7, <2>9 DEF ProducerIndex
    <3>2. Store!RemoveSession(i)
      BY <2>6, <2>7, <2>9, <3>1, SameData DEF Store!RemoveSession
    <3>3. QED
      BY <3>2 DEF Store!Next
  <2>10. QED
    BY <1>3, <2>8, <2>9 DEF Taken
<1>4. QED
  BY <1>1, <1>2, <1>3 DEF Leads

\* A step that is not a write leaves the store alone.
LEMMA OnlyWritesStore ==
  ASSUME [Next]_vars, \A t \in Threads : ~WriteStore(t)
  PROVE  disk' = disk
BY DEF Next, Call, Step, vars, live, local, Restart, Apply, ApplySnapshot,
       RemoveSession, ClearDone, ForgetRemoved, FilterRemoved,
       RememberRemoved, Upsert, ReplaceLive, RemoveProducer, CopyLive,
       CopyRemoved, Emit

\* The store file goes through the steps of PushStore: each call takes effect
\* on it as a whole or, if the process dies first, not at all.
THEOREM StoreIsRefined ==
  ASSUME OneCall, WritesFail = FALSE, IsFiniteSet(SessionIds)
  PROVE  Spec => StoreIsAtomic
<1>1. Init => Store!Init
  BY DEF Init, EmptyImage, Store!Init, Tombstones
<1>2. Typed /\ Coherent(disk) /\ Course /\ [Next]_vars
        => [Store!Next]_Store!vars
  <2> SUFFICES ASSUME Typed, Coherent(disk), Course, [Next]_vars
               PROVE  [Store!Next]_Store!vars
    OBVIOUS
  <2>1. ASSUME NEW t \in Threads, WriteStore(t)
        PROVE  Store!Next
    <3>1. pc[t] = "write" /\ disk' = image[t]
      BY <2>1 DEF WriteStore
    <3>2. image[t] = Memory /\ Leads(disk, Memory)
      BY <3>1 DEF Course, Stage
    <3>3. Memory.removed \in Seq(SessionIds) /\ Proper(Memory.removed)
      BY DEF Memory, Typed, TypeOK, TombstonesProper
    <3>4. PICK m : m = Memory
      OBVIOUS
    <3>5. QED
      BY <3>1, <3>2, <3>3, <3>4, LeadsIsStep
  <2>2. ASSUME disk' = disk
        PROVE  UNCHANGED Store!vars
    BY <2>2 DEF Store!vars
  <2>3. QED
    BY <2>1, <2>2, OnlyWritesStore
<1>3. Init => Owned
  BY EmptyCoherent DEF Init, Owned, EntriesHaveSessions, EmptyImage
<1>4. Owned => Coherent(disk)
  BY DEF Owned
<1>5. QED
  BY <1>1, <1>2, <1>3, <1>4, OwnedStep, CourseAlways, PTL
     DEF Spec, StoreIsAtomic, Store!Spec

=============================================================================
