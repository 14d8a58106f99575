--------------------------- MODULE PushStoreProofs --------------------------
(***************************************************************************)
(* The promises of PushStore, for any set of sessions and producers and    *)
(* any cap: type correctness, at most MAX_REMOVED tombstones, and the      *)
(* inductive invariant that live sessions, owners and tombstones agree.    *)
(* And what the plugin that reports to the hub promises of its prompts,    *)
(* for any sessions, events, lost requests and restarts.                   *)
(***************************************************************************)
EXTENDS MCPushStore, PushDataProofs, FiniteSetTheorems, TLAPS

-----------------------------------------------------------------------------
(***************************************************************************)
(* What the two operations that take a batch do.                           *)
(***************************************************************************)

\* An upsert stores its sessions under their producers and spares the rest.
LEMMA UpsertDoes ==
  ASSUME TypeOK, NEW b \in Batches, Apply(b)
  PROVE  /\ TypeOK'
         /\ tombstones' = tombstones \ DOMAIN b.events
         /\ \A i \in SessionIds :
              /\ sessions'[i] # NoSession
                   <=> i \in DOMAIN b.events \/ sessions[i] # NoSession
              /\ i \notin DOMAIN b.events => producers'[i] = producers[i]
<1>1. b.events \in Events
  BY DEF Batches
<1>2. QED
  BY <1>1, UpsertedType, ReindexedType DEF Apply, TypeOK

\* After a heartbeat no removed session is back, and no owner is left without
\* a session.
LEMMA HeartbeatDoes ==
  ASSUME TypeOK, NEW b \in Batches, ApplySnapshot(b)
  PROVE  /\ TypeOK'
         /\ tombstones' = tombstones
         /\ \A i \in SessionIds :
              /\ sessions'[i] # NoSession => i \notin tombstones \/ sessions[i] # NoSession
              /\ producers'[i] # NoProducer => sessions'[i] # NoSession
<1> DEFINE named == EventsOf(b.events, SessionIds \ tombstones)
           kept  == Without(sessions,
                      Prunable(producers, DOMAIN named, b.producer))
           index == IndexOfLive(producers, kept)
<1>1. named \in Events /\ DOMAIN named \cap tombstones = {}
  <2>1. b.events \in Events
    BY DEF Batches
  <2>2. QED
    BY <2>1, EventsOfType
<1>2. /\ kept \in LiveSet
      /\ \A i \in SessionIds : kept[i] # NoSession => sessions[i] # NoSession
  BY WithoutType DEF TypeOK
<1>3. /\ index \in ProducerIndex
      /\ \A i \in SessionIds : index[i] # NoProducer => kept[i] # NoSession
  BY IndexOfLiveType DEF TypeOK
<1>4. /\ sessions' = Upserted(kept, named)
      /\ producers' = Reindexed(index, named)
      /\ tombstones' = tombstones
  BY DEF ApplySnapshot
<1> HIDE DEF named, kept, index
<1>5. QED
  BY <1>1, <1>2, <1>3, <1>4, UpsertedType, ReindexedType DEF TypeOK

-----------------------------------------------------------------------------
(***************************************************************************)
(* Type correctness.                                                       *)
(***************************************************************************)

\* The operations that take no batch, and the stutter, keep the types.
LEMMA RemovalsKeepTypes ==
  ASSUME TypeOK,
         \/ \E i \in SessionIds : RemoveSession(i)
         \/ ClearDone
         \/ UNCHANGED vars
  PROVE  TypeOK'
<1>remove. ASSUME NEW i \in SessionIds, RemoveSession(i)
           PROVE  TypeOK'
  BY <1>remove, WithoutType DEF RemoveSession, Bury, ProducerIndex, TypeOK
<1>clear. ASSUME ClearDone
          PROVE  TypeOK'
  <2>1. DoneIds(sessions) \in SUBSET SessionIds
    BY DEF DoneIds
  <2>2. QED
    BY <1>clear, <2>1, WithoutType, IndexOfLiveType DEF ClearDone, Bury, TypeOK
<1>still. ASSUME UNCHANGED vars
          PROVE  TypeOK'
  BY <1>still DEF vars, TypeOK
<1> QED
  BY <1>remove, <1>clear, <1>still

\* Every state of the store is well typed.
THEOREM TypeCorrect == Spec => []TypeOK
<1>start. Init => TypeOK
  BY DEF Init, TypeOK, LiveSet, ProducerIndex
<1>step. TypeOK /\ [Next]_vars => TypeOK'
  BY UpsertDoes, HeartbeatDoes, RemovalsKeepTypes DEF Next
<1> QED
  BY <1>start, <1>step, PTL DEF Spec

-----------------------------------------------------------------------------
(***************************************************************************)
(* The cap.                                                                *)
(***************************************************************************)

\* Burying keeps the tombstones finite and under the cap.
LEMMA BuryBounded ==
  ASSUME TombstonesBounded, NEW S, IsFiniteSet(S), Bury(S)
  PROVE  TombstonesBounded'
<1> DEFINE T == tombstones \cup S
<1>1. IsFiniteSet(T)
  BY FS_Union DEF TombstonesBounded
<1>2. IsFiniteSet(tombstones')
  BY <1>1, FS_Subset DEF Bury
<1>3. Cardinality(tombstones') <= MAX_REMOVED
  BY DataAssumption DEF Bury
<1>4. QED
  BY <1>2, <1>3 DEF TombstonesBounded

\* Digging up tombstones, or none, leaves no more of them.
LEMMA FewerBounded ==
  ASSUME TombstonesBounded, tombstones' \subseteq tombstones
  PROVE  TombstonesBounded'
<1>1. /\ IsFiniteSet(tombstones')
      /\ Cardinality(tombstones') <= Cardinality(tombstones)
  BY FS_Subset DEF TombstonesBounded
<1>2. Cardinality(tombstones) \in Nat /\ Cardinality(tombstones') \in Nat
  BY <1>1, FS_CardinalityType DEF TombstonesBounded
<1>3. QED
  BY <1>1, <1>2, DataAssumption DEF TombstonesBounded

\* With finitely many session ids the store never holds more than
\* MAX_REMOVED tombstones.
THEOREM CapHolds ==
  ASSUME IsFiniteSet(SessionIds)
  PROVE  Spec => []TombstonesBounded
<1>start. Init => TombstonesBounded
  BY FS_EmptySet, DataAssumption DEF Init, TombstonesBounded
<1>step. TombstonesBounded /\ [Next]_vars => TombstonesBounded'
  <2> SUFFICES ASSUME TombstonesBounded, [Next]_vars
               PROVE  TombstonesBounded'
    OBVIOUS
  <2>bury. ASSUME NEW S \in SUBSET SessionIds, Bury(S)
           PROVE  TombstonesBounded'
    BY <2>bury, FS_Subset, BuryBounded
  <2>which. \/ \E S \in SUBSET SessionIds : Bury(S)
            \/ tombstones' \subseteq tombstones
    <3>1. DoneIds(sessions) \in SUBSET SessionIds
      BY DEF DoneIds
    <3>2. QED
      BY <3>1 DEF Next, vars, Apply, ApplySnapshot, RemoveSession, ClearDone
  <2> QED
    BY <2>bury, <2>which, FewerBounded
<1> QED
  BY <1>start, <1>step, PTL DEF Spec

-----------------------------------------------------------------------------
(***************************************************************************)
(* Agreement: who is live, who is owned and who is tombstoned.             *)
(***************************************************************************)

\* Inductive relative to the types.
Agreement == LiveXorTombstoned /\ OwnersAreLive

\* An empty store agrees with itself.
LEMMA AgreementStart == Init => Agreement
BY DEF Init, Agreement, LiveXorTombstoned, OwnersAreLive

\* One step of any operation keeps the agreement.
LEMMA AgreementStep == TypeOK /\ Agreement /\ [Next]_vars => Agreement'
<1> SUFFICES ASSUME TypeOK, Agreement, [Next]_vars
             PROVE  Agreement'
  OBVIOUS
<1> USE DEF Agreement, LiveXorTombstoned, OwnersAreLive, Live
<1>upsert. ASSUME NEW b \in Batches, Apply(b)
           PROVE  Agreement'
  <2>1. \A i \in SessionIds \ DOMAIN b.events :
          producers'[i] # NoProducer => sessions'[i] # NoSession
    BY <1>upsert, UpsertDoes
  <2>2. QED
    BY <1>upsert, <2>1, UpsertDoes
<1>heartbeat. ASSUME NEW b \in Batches, ApplySnapshot(b)
              PROVE  Agreement'
  BY <1>heartbeat, HeartbeatDoes
<1>remove. ASSUME NEW i \in SessionIds, RemoveSession(i)
           PROVE  Agreement'
  BY <1>remove, WithoutType DEF RemoveSession, Bury, ProducerIndex, TypeOK
<1>clear. ASSUME ClearDone
          PROVE  Agreement'
  BY <1>clear, WithoutType, IndexOfLiveType DEF ClearDone, Bury, TypeOK
<1>still. ASSUME UNCHANGED vars
          PROVE  Agreement'
  BY <1>still DEF vars
<1> QED
  BY <1>upsert, <1>heartbeat, <1>remove, <1>clear, <1>still DEF Next

\* No session is live and tombstoned at once: what the user removed stays
\* away until an upsert, whatever the heartbeats say.
THEOREM RemovedStayAway == Spec => []LiveXorTombstoned
<1>1. Agreement => LiveXorTombstoned
  BY DEF Agreement
<1>2. QED
  BY <1>1, AgreementStart, AgreementStep, TypeCorrect, PTL DEF Spec

\* No owner without a session.
THEOREM OwnersLive == Spec => []OwnersAreLive
<1>1. Agreement => OwnersAreLive
  BY DEF Agreement
<1>2. QED
  BY <1>1, AgreementStart, AgreementStep, TypeCorrect, PTL DEF Spec

\* The step a removed session comes back in is an upsert that names it.
THEOREM ReviveNeedsUpsert == Spec => ReviveOnlyByUpsert
<1>step. TypeOK /\ Agreement /\ [Next]_vars =>
           [\A i \in tombstones : sessions'[i] # NoSession
              => \E b \in Batches : i \in DOMAIN b.events /\ Apply(b)]_vars
  <2> SUFFICES ASSUME TypeOK, Agreement, Next,
                      NEW i \in tombstones, sessions'[i] # NoSession
               PROVE  \E b \in Batches : i \in DOMAIN b.events /\ Apply(b)
    OBVIOUS
  <2>gone. sessions[i] = NoSession /\ i \in SessionIds
    BY DEF Agreement, LiveXorTombstoned, Live, TypeOK
  <2>upsert. ASSUME NEW b \in Batches, Apply(b)
             PROVE  i \in DOMAIN b.events
    BY <2>gone, <2>upsert, UpsertDoes
  <2>heartbeat. ASSUME NEW b \in Batches, ApplySnapshot(b)
                PROVE  FALSE
    BY <2>gone, <2>heartbeat, HeartbeatDoes
  <2>remove. ASSUME NEW j \in SessionIds, RemoveSession(j)
             PROVE  FALSE
    BY <2>gone, <2>remove, WithoutType DEF RemoveSession, TypeOK
  <2>clear. ASSUME ClearDone
            PROVE  FALSE
    BY <2>gone, <2>clear, WithoutType DEF ClearDone, TypeOK
  <2> QED
    BY <2>upsert, <2>heartbeat, <2>remove, <2>clear DEF Next
<1> QED
  BY <1>step, AgreementStart, AgreementStep, TypeCorrect, PTL
     DEF Spec, ReviveOnlyByUpsert

-----------------------------------------------------------------------------
(***************************************************************************)
(* The plugin.                                                             *)
(***************************************************************************)

\* While the parent of a session is asked for, no prompt of that session comes
\* in: what the answer makes of it hides no prompt.
PromptsKept ==
  /\ awaiting \subseteq PluginSessions
  /\ DOMAIN known = PluginSessions
  /\ known = [i \in PluginSessions |-> known[i]]
  /\ handler # NoLookup => handler \notin awaiting
  /\ PromptIsNotFinished

\* What the report of a status does to the statuses known.
LEMMA ReportDoes ==
  ASSUME PromptsKept, NEW i, NEW status, Report(i, status)
  PROVE  /\ DOMAIN known' = PluginSessions
         /\ known' = [j \in PluginSessions |-> known'[j]]
         /\ \A j \in PluginSessions :
              known'[j] = IF j = i THEN status ELSE known[j]
BY DEF Report, PromptsKept

LEMMA PromptsKeptStep ==
  PromptsKept /\ [ProducerNext]_producerVars => PromptsKept'
<1> SUFFICES ASSUME PromptsKept, [ProducerNext]_producerVars
             PROVE  PromptsKept'
  OBVIOUS
<1>1. CASE UNCHANGED pluginState
  BY <1>1 DEF pluginState, PromptsKept, PromptIsNotFinished
<1>2. CASE \/ SendSnapshot \/ Dismiss \/ HubForgets
           \/ \E k \in DOMAIN posts : SendUpsert(k) \/ Ingest(k) \/ LosePost(k)
           \/ \E i \in PluginSessions : Flush(i)
  BY <1>2 DEF SendSnapshot, Dismiss, HubForgets, SendUpsert, Ingest, LosePost,
              Flush, pluginState, PromptsKept, PromptIsNotFinished
<1>3. CASE PluginRestart
  BY <1>3 DEF PluginRestart, PromptsKept, PromptIsNotFinished
<1>4. CASE LookedUp
  <2>1. PICK kinship : Report(handler, IdleStatus(kinship))
    BY <1>4 DEF LookedUp
  <2>2. handler \notin awaiting /\ awaiting' = awaiting /\ handler' = NoLookup
    BY <1>4 DEF LookedUp, PromptsKept
  <2>3. QED
    BY <2>1, <2>2, ReportDoes DEF PromptsKept, PromptIsNotFinished
<1>5. ASSUME NEW i \in PluginSessions,
             Prompt(i) \/ Reply(i) \/ Busy(i) \/ ExecutionFailed(i) \/ SessionDeleted(i)
      PROVE  PromptsKept'
  <2>1. handler' = handler /\ awaiting' \subseteq awaiting \cup {i}
    BY <1>5 DEF Prompt, Reply, Busy, ExecutionFailed, SessionDeleted
  <2>2. handler = NoLookup \/ awaiting' = awaiting
    BY <1>5 DEF Prompt, Reply, Busy, ExecutionFailed, SessionDeleted, Handled
  <2>3. \/ Report(i, "needs_help") \/ Report(i, "active")
        \/ Report(i, "done") /\ i \notin awaiting'
    BY <1>5 DEF Prompt, Reply, Busy, ExecutionFailed, SessionDeleted
  <2>4. PICK status : /\ Report(i, status)
                      /\ i \in awaiting' => status \in {"needs_help", "active"}
    BY <2>3
  <2>5. QED
    BY <2>1, <2>2, <2>4, ReportDoes DEF PromptsKept, PromptIsNotFinished
<1>6. ASSUME NEW i \in PluginSessions, Remember(i)
      PROVE  PromptsKept'
  <2>1. /\ handler' = handler /\ awaiting' = awaiting
        /\ known' = [known EXCEPT ![i] = IF @ = Unknown THEN "none" ELSE @]
    BY <1>6 DEF Remember
  <2>2. \A j \in awaiting : known[j] # Unknown
    BY DEF PromptsKept, PromptIsNotFinished, Unknown
  <2>3. \A j \in awaiting : known'[j] = known[j]
    BY <2>1, <2>2 DEF PromptsKept
  <2>4. QED
    BY <2>1, <2>3 DEF PromptsKept, PromptIsNotFinished
<1>7. ASSUME NEW i \in PluginSessions, Idle(i)
      PROVE  PromptsKept'
  <2>1. awaiting' \subseteq awaiting /\ handler = NoLookup
    BY <1>7 DEF Idle, Handled
  <2>2. CASE i \in awaiting' /\ Report(i, "needs_help") /\ handler' = handler
    BY <2>1, <2>2, ReportDoes DEF PromptsKept, PromptIsNotFinished
  <2>3. CASE /\ i \notin awaiting' /\ Report(i, IdleStatus(parent[i]))
             /\ handler' = handler
    BY <2>1, <2>3, ReportDoes DEF PromptsKept, PromptIsNotFinished
  <2>4. CASE i \notin awaiting' /\ handler' = i /\ known' = known
    BY <2>1, <2>4 DEF PromptsKept, PromptIsNotFinished
  <2>5. QED
    BY <1>7, <2>2, <2>3, <2>4 DEF Idle
<1>8. QED
  BY <1>1, <1>2, <1>3, <1>4, <1>5, <1>6, <1>7 DEF ProducerNext, producerVars

\* The plugin never takes a session with an unanswered prompt for a finished or
\* paused one: what it holds of it is not overwritten by an idle event, though
\* the answer to the question about the parent comes later than other events
\* (Producer).  What the hub shows meanwhile is another matter.
THEOREM PromptsStay == StoreSpec => []PromptIsNotFinished
<1>1. StoreInit => PromptsKept
  BY DEF StoreInit, ProducerInit, PromptsKept, PromptIsNotFinished
<1>2. PromptsKept /\ [StoreNext]_storeVars => PromptsKept'
  <2>1. [StoreNext]_storeVars => [ProducerNext]_producerVars
    BY DEF StoreNext, StoreStep, ProducerStep, storeVars
  <2>2. QED
    BY <2>1, PromptsKeptStep
<1>3. PromptsKept => PromptIsNotFinished
  BY DEF PromptsKept
<1>4. QED
  BY <1>1, <1>2, <1>3, PTL DEF StoreSpec

=============================================================================
