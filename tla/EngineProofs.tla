---------------------------- MODULE EngineProofs ----------------------------
(***************************************************************************)
(* What holds of the engine for any number of publishing threads, sessions *)
(* and settings, however the publishes overlap: types, the numbering of    *)
(* the updates, what enters the memory of the notification edge, and the   *)
(* repair that a lone publish makes.                                       *)
(***************************************************************************)
EXTENDS Engine, SequenceTheorems, FiniteSetTheorems, TLAPS

-----------------------------------------------------------------------------
(***************************************************************************)
(* Types.                                                                  *)
(***************************************************************************)

\* What the filter lets through is a view.
LEMMA VisibleType ==
  ASSUME NEW c, NEW v \in View
  PROVE  Visible(c, v) \in View
BY DEF Visible, View

\* An edge is a set of keys.
LEMMA EdgeType ==
  ASSUME NEW triggers, NEW before, NEW now
  PROVE  Edge(triggers, before, now) \in SUBSET Keys
BY DEF Edge

\* Nothing seen and nothing said is well typed.
LEMMA EmptyType == NoSessions \in View /\ NoUpdate \in Update
BY DEF NoSessions, NoUpdate, View, Update

\* Every step of a publish, and of what starts one, keeps the types.
LEMMA TypedStep == TypeOK /\ [Next]_vars => TypeOK'
<1> SUFFICES ASSUME TypeOK, [Next]_vars
             PROVE  TypeOK'
  OBVIOUS
<1> USE DEF TypeOK, Goto, PCs, shared, local, history
<1>1. ASSUME NEW t \in Publishers, NEW k \in Keys,
             NEW s \in Statuses \cup {Gone}, Change(t, k, s)
      PROVE  TypeOK'
  <2>1. source' \in View
    BY <1>1 DEF Change, View
  <2>2. asked' \in [Keys -> Nat] /\ due' \in SUBSET Keys
    BY <1>1 DEF Change
  <2>3. pc' \in [Publishers -> PCs] /\ solo' \in SUBSET Publishers
    BY <1>1 DEF Change, Begin
  <2>4. overlap' \in BOOLEAN
    BY <1>1 DEF Change, Begin
  <2>5. QED
    BY <1>1, <2>1, <2>2, <2>3, <2>4 DEF Change
<1>2. ASSUME NEW t \in Publishers, Refresh(t)
      PROVE  TypeOK'
  BY <1>2 DEF Refresh, Begin
<1>3. ASSUME NEW t \in Publishers, ReadSources(t)
      PROVE  TypeOK'
  BY <1>3 DEF ReadSources
<1>4. ASSUME NEW t \in Publishers, Render(t)
      PROVE  TypeOK'
  <2>1. Visible(config, view[t]) \in View
    BY VisibleType
  <2>2. [update[t] EXCEPT !.snapshot = Visible(config, view[t])] \in Update
    BY <2>1 DEF Update
  <2>3. update' \in [Publishers -> Update]
    BY <1>4, <2>2 DEF Render
  <2>4. QED
    BY <1>4, <2>3 DEF Render
<1>5. ASSUME NEW t \in Publishers, NotificationEdge(t)
      PROVE  TypeOK'
  <2> DEFINE seen == Visible(settings[t], view[t])
             edge == Edge(settings[t].notification_trigger, previous, seen)
  <2>1. seen \in View /\ edge \in SUBSET Keys
    BY VisibleType, EdgeType
  <2>2. [update[t] EXCEPT !.notifications = edge] \in Update
    BY <2>1 DEF Update
  <2>3. update' = [update EXCEPT ![t].notifications = edge] /\ previous' = seen
    BY <1>5 DEF NotificationEdge
  <2> HIDE DEF seen, edge
  <2>4. update' \in [Publishers -> Update] /\ previous' \in View
    BY <2>1, <2>2, <2>3
  <2>5. muted' \in SUBSET Keys
    BY <1>5 DEF NotificationEdge
  <2>6. QED
    BY <1>5, <2>4, <2>5 DEF NotificationEdge
<1>6. ASSUME NEW t \in Publishers, AlarmEdge(t)
      PROVE  TypeOK'
  <2> DEFINE seen == Visible(settings[t], view[t])
             edge == Edge(settings[t].alarm_trigger, alarm_previous, seen)
  <2>1. seen \in View /\ edge \in SUBSET Keys
    BY VisibleType, EdgeType
  <2>2. [update[t] EXCEPT !.alarms = edge] \in Update
    BY <2>1 DEF Update
  <2>3. update' = [update EXCEPT ![t].alarms = edge] /\ alarm_previous' = seen
    BY <1>6 DEF AlarmEdge
  <2> HIDE DEF seen, edge
  <2>4. update' \in [Publishers -> Update] /\ alarm_previous' \in View
    BY <2>1, <2>2, <2>3
  <2>5. QED
    BY <1>6, <2>4 DEF AlarmEdge
<1>7. ASSUME NEW t \in Publishers, Number(t)
      PROVE  TypeOK'
  <2>1. revision' \in Nat
    BY <1>7 DEF Number
  <2>2. [update[t] EXCEPT !.revision = revision'] \in Update
    BY <2>1 DEF Update
  <2>3. update' \in [Publishers -> Update]
    BY <1>7, <2>2 DEF Number
  <2>4. QED
    BY <1>7, <2>1, <2>3 DEF Number
<1>8. ASSUME NEW t \in Publishers, Deliver(t)
      PROVE  TypeOK'
  BY <1>8, EmptyType DEF Deliver
<1>9. ASSUME NEW c \in Configs, SetConfig(c)
      PROVE  TypeOK'
  BY <1>9 DEF SetConfig
<1>10. CASE Exhausted \/ UNCHANGED vars
  BY <1>10 DEF Exhausted, vars
<1>11. ASSUME NEW t \in Publishers, NotificationSettings(t) \/ AlarmSettings(t)
       PROVE  TypeOK'
  BY <1>11 DEF NotificationSettings, AlarmSettings
<1>12. QED
  BY <1>1, <1>2, <1>3, <1>4, <1>5, <1>6, <1>7, <1>8, <1>9, <1>10, <1>11
     DEF Next, Publish

\* Every state of the engine is well typed.
THEOREM TypeCorrect == Spec => []TypeOK
<1>1. Init => overlap \in BOOLEAN
  BY Zenon DEF Init
<1>2. Init => TypeOK
  BY <1>1, EmptyType DEF Init, TypeOK, PCs
<1>3. QED
  BY <1>2, TypedStep, PTL DEF Spec

-----------------------------------------------------------------------------
(***************************************************************************)
(* Numbering.                                                              *)
(***************************************************************************)

\* Every step keeps each revision in exactly one place.
LEMMA NumberingStep == TypeOK /\ EachRevisionOnce /\ [Next]_vars
                         => EachRevisionOnce'
<1> SUFFICES ASSUME TypeOK, EachRevisionOnce, [Next]_vars
             PROVE  EachRevisionOnce'
  OBVIOUS
<1> USE DEF TypeOK, Goto, shared, local, history
<1>1. ASSUME UNCHANGED <<channel, revision>>, InFlight' = InFlight,
             \A t \in InFlight : update'[t].revision = update[t].revision
      PROVE  EachRevisionOnce'
  <2>1. Delivered' = Delivered
    BY <1>1 DEF Delivered
  <2>2. {update'[t].revision : t \in InFlight'} = {update[t].revision : t \in InFlight}
    BY <1>1
  <2>3. QED
    BY <1>1, <2>1, <2>2 DEF EachRevisionOnce
<1>2. ASSUME NEW t \in Publishers,
             \/ ReadSources(t) \/ Render(t)
             \/ NotificationSettings(t) \/ NotificationEdge(t)
             \/ AlarmSettings(t) \/ AlarmEdge(t)
      PROVE  EachRevisionOnce'
  <2>1. /\ UNCHANGED <<channel, revision>>
        /\ InFlight' = InFlight
        /\ t \notin InFlight
        /\ \A u \in Publishers \ {t} : update'[u] = update[u]
    BY <1>2 DEF ReadSources, Render, NotificationSettings, NotificationEdge,
       AlarmSettings, AlarmEdge, InFlight
  <2>2. QED
    BY <1>1, <2>1 DEF InFlight
<1>3. ASSUME NEW t \in Publishers, NEW k \in Keys,
             NEW s \in Statuses \cup {Gone}, Change(t, k, s)
      PROVE  EachRevisionOnce'
  <2>1. UNCHANGED <<channel, revision, update>> /\ InFlight' = InFlight
    BY <1>3 DEF Change, Begin, InFlight
  <2>2. QED
    BY <1>1, <2>1
<1>4. ASSUME NEW t \in Publishers, Refresh(t)
      PROVE  EachRevisionOnce'
  <2>1. UNCHANGED <<channel, revision, update>> /\ InFlight' = InFlight
    BY <1>4 DEF Refresh, Begin, InFlight
  <2>2. QED
    BY <1>1, <2>1
<1>5. ASSUME NEW t \in Publishers, Number(t)
      PROVE  EachRevisionOnce'
  <2>1. /\ channel' = channel /\ revision' = revision + 1
        /\ t \notin InFlight /\ InFlight' = InFlight \cup {t}
        /\ update'[t].revision = revision + 1
        /\ \A u \in Publishers \ {t} : update'[u] = update[u]
    BY <1>5 DEF Number, InFlight, Update
  <2>2. /\ \A n \in DOMAIN channel : channel[n].revision \in 1 .. revision
        /\ \A u \in InFlight : update[u].revision \in 1 .. revision
    BY DEF EachRevisionOnce, Delivered
  <2>3. 1 .. revision' = (1 .. revision) \cup {revision + 1}
    BY <2>1
  <2>4. Delivered' = Delivered
    BY <2>1 DEF Delivered
  <2>5. \A u \in InFlight : update'[u] = update[u]
    BY <2>1 DEF InFlight
  <2>6. {update'[u].revision : u \in InFlight'}
          = {update[u].revision : u \in InFlight} \cup {revision + 1}
    BY <2>1, <2>5
  <2>7. revision + 1 \notin 1 .. revision
    OBVIOUS
  <2>8. \A u \in InFlight' : update'[u].revision \notin Delivered'
    BY <2>1, <2>2, <2>4, <2>5, <2>7 DEF EachRevisionOnce, Delivered
  <2>9. \A u, v \in InFlight' : update'[u].revision = update'[v].revision
                                  => u = v
    BY <2>1, <2>2, <2>5, <2>7 DEF EachRevisionOnce
  <2>10. 1 .. revision' = Delivered' \cup {update'[u].revision : u \in InFlight'}
    BY <2>3, <2>4, <2>6 DEF EachRevisionOnce
  <2>11. QED
    BY <2>1, <2>8, <2>9, <2>10 DEF EachRevisionOnce
<1>6. ASSUME NEW t \in Publishers, Deliver(t)
      PROVE  EachRevisionOnce'
  <2>1. /\ revision' = revision
        /\ t \in InFlight /\ InFlight' = InFlight \ {t}
        /\ \A u \in InFlight' : update'[u] = update[u]
    BY <1>6 DEF Deliver, InFlight
  <2>2. channel' = Append(channel, update[t]) /\ update[t] \in Update
    BY <1>6 DEF Deliver
  <2>3. /\ DOMAIN channel' = DOMAIN channel \cup {Len(channel) + 1}
        /\ \A n \in DOMAIN channel : channel'[n] = channel[n]
        /\ channel'[Len(channel) + 1] = update[t]
        /\ Len(channel) + 1 \notin DOMAIN channel
    BY <2>2
  <2>4. Delivered' = Delivered \cup {update[t].revision}
    BY <2>3 DEF Delivered
  <2>5. \A m, n \in DOMAIN channel' : channel'[m].revision = channel'[n].revision
                                        => m = n
    BY <2>1, <2>3 DEF EachRevisionOnce, Delivered
  <2>6. \A u \in InFlight' : update'[u].revision \notin Delivered'
    BY <2>1, <2>4 DEF EachRevisionOnce
  <2>7. Delivered' \cup {update'[u].revision : u \in InFlight'}
          = Delivered \cup {update[u].revision : u \in InFlight}
    BY <2>1, <2>4
  <2>8. \A u, v \in InFlight' : update'[u].revision = update'[v].revision
                                  => u = v
    BY <2>1 DEF EachRevisionOnce
  <2>9. 1 .. revision' = Delivered' \cup {update'[u].revision : u \in InFlight'}
    BY <2>1, <2>7 DEF EachRevisionOnce
  <2>10. QED
    BY <2>5, <2>6, <2>8, <2>9 DEF EachRevisionOnce
<1>7. CASE Exhausted \/ UNCHANGED vars
  BY <1>1, <1>7 DEF Exhausted, vars, InFlight
<1>8. ASSUME NEW c \in Configs, SetConfig(c)
      PROVE  EachRevisionOnce'
  BY <1>1, <1>8 DEF SetConfig, InFlight
<1>9. QED
  BY <1>2, <1>3, <1>4, <1>5, <1>6, <1>7, <1>8 DEF Next, Publish

\* However publishes overlap, every revision is delivered exactly once.
THEOREM RevisionsAreExact == Spec => []EachRevisionOnce
<1>1. Init => EachRevisionOnce
  BY DEF Init, EachRevisionOnce, Delivered, InFlight
<1>2. QED
  BY <1>1, NumberingStep, TypeCorrect, PTL DEF Spec

-----------------------------------------------------------------------------
(***************************************************************************)
(* What enters the memory of the notification edge.  A thread that is      *)
(* about to compute the edge has announced nothing yet, so it overwrites   *)
(* no announcement, and the settings it has taken ask for notifications.   *)
(***************************************************************************)
Announcing ==
  \A t \in Publishers :
    /\ pc[t] \in {"idle", "read", "render", "notify", "edge"}
         => update[t].notifications = {}
    /\ pc[t] = "edge" => settings[t] \in Configs /\ settings[t].notifications

\* What the edge of a thread makes of its update and of the memory.
LEMMA EdgeDoes ==
  ASSUME TypeOK, NEW t \in Publishers, NotificationEdge(t)
  PROVE  /\ pc[t] = "edge" /\ pc'[t] = "alarm" /\ channel' = channel
         /\ \A u \in Publishers \ {t} :
              pc'[u] = pc[u] /\ update'[u] = update[u] /\ settings'[u] = settings[u]
         /\ previous' = Visible(settings[t], view[t])
         /\ update'[t].notifications
              = Edge(settings[t].notification_trigger, previous, previous')
         /\ update'[t].snapshot = update[t].snapshot
<1> DEFINE seen == Visible(settings[t], view[t])
           edge == Edge(settings[t].notification_trigger, previous, seen)
<1>1. /\ pc[t] = "edge" /\ pc' = [pc EXCEPT ![t] = "alarm"] /\ channel' = channel
      /\ settings' = [settings EXCEPT ![t] = Unread]
      /\ update' = [update EXCEPT ![t].notifications = edge]
      /\ previous' = seen
  BY DEF NotificationEdge, Goto
<1>2. edge = Edge(settings[t].notification_trigger, previous, previous')
  BY <1>1
<1> HIDE DEF seen, edge
<1>3. /\ pc'[t] = "alarm" /\ update'[t].notifications = edge
      /\ update'[t].snapshot = update[t].snapshot
      /\ \A u \in Publishers \ {t} :
           pc'[u] = pc[u] /\ update'[u] = update[u] /\ settings'[u] = settings[u]
  BY <1>1 DEF TypeOK, Update
<1>4. QED
  BY <1>1, <1>2, <1>3 DEF seen

\* The other steps leave what is announced alone until they deliver it.
LEMMA NotificationsKept ==
  ASSUME TypeOK, NEW t \in Publishers,
         \/ ReadSources(t) \/ Render(t) \/ NotificationSettings(t)
         \/ AlarmSettings(t) \/ AlarmEdge(t) \/ Number(t)
  PROVE  /\ \A u \in Publishers : update'[u].notifications = update[u].notifications
         /\ \A u \in Publishers \ {t} : pc'[u] = pc[u] /\ settings'[u] = settings[u]
         /\ UNCHANGED <<channel, previous>>
<1> USE DEF TypeOK, Goto, shared, local
<1>1. CASE ReadSources(t) \/ NotificationSettings(t) \/ AlarmSettings(t)
  BY <1>1 DEF ReadSources, NotificationSettings, AlarmSettings
<1>2. CASE Render(t)
  BY <1>2 DEF Render, Update
<1>3. CASE AlarmEdge(t)
  <2> DEFINE edge == Edge(settings[t].alarm_trigger, alarm_previous,
                          Visible(settings[t], view[t]))
  <2>1. /\ update' = [update EXCEPT ![t].alarms = edge]
        /\ pc' = [pc EXCEPT ![t] = "number"]
        /\ settings' = [settings EXCEPT ![t] = Unread]
        /\ UNCHANGED <<channel, previous>>
    BY <1>3 DEF AlarmEdge
  <2> HIDE DEF edge
  <2>2. QED
    BY <2>1 DEF Update
<1>4. CASE Number(t)
  BY <1>4 DEF Number, Update
<1>5. QED
  BY <1>1, <1>2, <1>3, <1>4

\* Every step keeps it so.
LEMMA AnnouncingStep == TypeOK /\ Announcing /\ [Next]_vars => Announcing'
<1> SUFFICES ASSUME TypeOK, Announcing, [Next]_vars
             PROVE  Announcing'
  OBVIOUS
<1> USE DEF TypeOK, Announcing, Goto, shared, local, history
<1>1. ASSUME NEW t \in Publishers, Begin(t), UNCHANGED local
      PROVE  Announcing'
  BY <1>1 DEF Begin
<1>2. ASSUME NEW t \in Publishers,
             \/ ReadSources(t) \/ Render(t) \/ NotificationSettings(t)
             \/ AlarmSettings(t) \/ AlarmEdge(t) \/ Number(t)
      PROVE  Announcing'
  <2>1. /\ \A u \in Publishers : update'[u].notifications = update[u].notifications
        /\ \A u \in Publishers \ {t} : pc'[u] = pc[u] /\ settings'[u] = settings[u]
    BY <1>2, NotificationsKept
  <2>2. pc'[t] \in {"idle", "read", "render", "notify", "edge"}
          => pc[t] \in {"idle", "read", "render", "notify", "edge"}
    BY <1>2 DEF ReadSources, Render, NotificationSettings, AlarmSettings, AlarmEdge,
       Number
  <2>3. pc'[t] = "edge" => settings'[t] = config /\ config.notifications
    BY <1>2 DEF ReadSources, Render, NotificationSettings, AlarmSettings, AlarmEdge,
       Number
  <2>4. QED
    BY <2>1, <2>2, <2>3
<1>3. ASSUME NEW t \in Publishers, NotificationEdge(t)
      PROVE  Announcing'
  BY <1>3, EdgeDoes
<1>4. ASSUME NEW t \in Publishers, Deliver(t)
      PROVE  Announcing'
  BY <1>4 DEF Deliver, NoUpdate
<1>5. CASE (\E c \in Configs : SetConfig(c)) \/ Exhausted \/ UNCHANGED vars
  BY <1>5 DEF SetConfig, Exhausted, vars
<1>6. QED
  BY <1>1, <1>2, <1>3, <1>4, <1>5 DEF Next, Publish, Change, Refresh

\* A prompt enters the memory of the edge only in the publish that tells of it,
\* and what is to be told is, whatever overlaps and whenever the settings change.
THEOREM NoPromptInSilence == Spec => PromptsAreTold
<1>1. TypeOK /\ Announcing /\ [Next]_vars =>
        [(\A c \in Configs : c.notifications => Alerting(c)) =>
           \A k \in Keys :
             /\ previous[k] # NeedsHelp /\ previous'[k] = NeedsHelp
                  => \E t \in Publishers : k \in update'[t].notifications
             /\ \A t \in Publishers :
                  k \in update[t].notifications =>
                    \/ k \in update'[t].notifications
                    \/ /\ Len(channel') = Len(channel) + 1
                       /\ k \in channel'[Len(channel')].notifications]_vars
  <2> SUFFICES ASSUME TypeOK, Announcing, Next, NEW k \in Keys,
                      \A c \in Configs : c.notifications => Alerting(c)
               PROVE  /\ previous[k] # NeedsHelp /\ previous'[k] = NeedsHelp
                           => \E t \in Publishers : k \in update'[t].notifications
                      /\ \A t \in Publishers :
                           k \in update[t].notifications =>
                             \/ k \in update'[t].notifications
                             \/ /\ Len(channel') = Len(channel) + 1
                                /\ k \in channel'[Len(channel')].notifications
    BY Zenon
  <2>1. CASE UNCHANGED <<previous, update>>
    BY <2>1
  <2>2. ASSUME NEW t \in Publishers, NotificationEdge(t),
               previous[k] # NeedsHelp, previous'[k] = NeedsHelp
        PROVE  k \in update'[t].notifications
    <3>1. /\ update'[t].notifications
               = Edge(settings[t].notification_trigger, previous, previous')
          /\ pc[t] = "edge"
      BY <2>2, EdgeDoes
    <3>2. "needs_help" \in settings[t].notification_trigger
      BY <3>1 DEF Announcing, Alerting
    <3>3. QED
      BY <2>2, <3>1, <3>2, EngineAssumption DEF Edge, TriggersFire
  <2>3. ASSUME NEW t \in Publishers, NotificationEdge(t), NEW u \in Publishers,
               k \in update[u].notifications
        PROVE  k \in update'[u].notifications
    BY <2>3, EdgeDoes DEF Announcing
  <2>4. ASSUME NEW t \in Publishers,
               \/ ReadSources(t) \/ Render(t) \/ NotificationSettings(t)
               \/ AlarmSettings(t) \/ AlarmEdge(t) \/ Number(t)
        PROVE  /\ previous' = previous
               /\ \A u \in Publishers :
                    update'[u].notifications = update[u].notifications
    BY <2>4, NotificationsKept
  <2>5. ASSUME NEW t \in Publishers, Deliver(t)
        PROVE  /\ previous' = previous
               /\ \A u \in Publishers \ {t} : update'[u] = update[u]
               /\ Len(channel') = Len(channel) + 1
               /\ channel'[Len(channel')] = update[t]
    BY <2>5 DEF Deliver, TypeOK
  <2>6. CASE \E t \in Publishers : Publish(t)
    BY <2>2, <2>3, <2>4, <2>5, <2>6 DEF Publish
  <2>7. CASE ~\E t \in Publishers : Publish(t)
    <3>1. UNCHANGED <<previous, update>>
      BY <2>7, Zenon DEF Next, Change, Refresh, SetConfig, Exhausted, vars, shared, local
    <3>2. QED
      BY <2>1, <3>1
  <2>8. QED
    BY <2>6, <2>7
<1>2. Init => Announcing
  BY DEF Init, Announcing, NoUpdate
<1>3. QED
  BY <1>1, <1>2, AnnouncingStep, TypeCorrect, PTL DEF Spec, PromptsAreTold

-----------------------------------------------------------------------------
(***************************************************************************)
(* The lone publish.  The invariant follows it step by step: while nothing *)
(* else has begun, what it read is what the sources hold.                  *)
(***************************************************************************)
Lone(t) ==
  /\ \A u \in Publishers \ {t} : pc[u] = "idle"
  /\ pc[t] # "read" => view[t] = source
  /\ pc[t] \in {"notify", "edge", "alarm", "sound", "number", "deliver"}
       => update[t].snapshot = Visible(config, source)
  /\ pc[t] = "edge" => settings[t] = config
  /\ pc[t] \in {"alarm", "sound", "number", "deliver"} /\ config.notifications
       => previous = Visible(config, source)
  /\ pc[t] = "deliver"
       => \A n \in DOMAIN channel : channel[n].revision < update[t].revision

LoneInv == \A t \in solo : pc[t] # "idle" => Lone(t)

\* Every step of anyone keeps a lone publish exact.
LEMMA LoneStep ==
  TypeOK /\ EachRevisionOnce /\ LoneInv /\ [Next]_vars => LoneInv'
<1> SUFFICES ASSUME TypeOK, EachRevisionOnce, LoneInv, [Next]_vars
             PROVE  LoneInv'
  OBVIOUS
<1> USE DEF TypeOK, LoneInv, Lone, Goto, shared, local, history
<1>1. ASSUME NEW t \in Publishers, Begin(t)
      PROVE  LoneInv'
  BY <1>1 DEF Begin, Quiet
<1>2. ASSUME NEW t \in Publishers, ReadSources(t)
      PROVE  LoneInv'
  BY <1>2 DEF ReadSources
<1>3. ASSUME NEW t \in Publishers, Render(t)
      PROVE  LoneInv'
  BY <1>3 DEF Render, Update
<1>4. ASSUME NEW t \in Publishers, NotificationEdge(t)
      PROVE  LoneInv'
  BY <1>4 DEF NotificationEdge, Update
<1>5. ASSUME NEW t \in Publishers, AlarmEdge(t)
      PROVE  LoneInv'
  BY <1>5 DEF AlarmEdge, Update
<1>6. ASSUME NEW t \in Publishers, Number(t)
      PROVE  LoneInv'
  <2>1. \A n \in DOMAIN channel : channel[n].revision \in 1 .. revision
    BY DEF EachRevisionOnce, Delivered
  <2>2. QED
    BY <1>6, <2>1 DEF Number, Update
<1>7. ASSUME NEW t \in Publishers, Deliver(t)
      PROVE  LoneInv'
  <2>1. \A u \in solo : pc'[u] # "idle" => u # t /\ pc[u] # "idle"
    BY <1>7 DEF Deliver
  <2>2. pc[t] = "deliver" /\ solo' = solo
    BY <1>7 DEF Deliver
  <2>3. QED
    BY <2>1, <2>2
<1>8. ASSUME NEW c \in Configs, SetConfig(c)
      PROVE  LoneInv'
  BY <1>8 DEF SetConfig
<1>9. CASE Exhausted \/ UNCHANGED vars
  BY <1>9 DEF Exhausted, vars
<1>10. ASSUME NEW t \in Publishers, NotificationSettings(t)
       PROVE  LoneInv'
  BY <1>10 DEF NotificationSettings
<1>11. ASSUME NEW t \in Publishers, AlarmSettings(t)
       PROVE  LoneInv'
  BY <1>11 DEF AlarmSettings
<1>12. QED
  BY <1>1, <1>2, <1>3, <1>4, <1>5, <1>6, <1>7, <1>8, <1>9, <1>10, <1>11
     DEF Next, Publish, Change, Refresh

\* A publish that nothing overlapped delivers the sources as they are, under
\* the newest revision, and leaves the edge memory equal to them.
THEOREM LonePublishIsExact == Spec => []LonePublishRepairs
<1>1. Init => LoneInv
  BY DEF Init, LoneInv
<1>2. LoneInv => LonePublishRepairs
  BY DEF LoneInv, Lone, LonePublishRepairs, InFlight
<1>3. QED
  BY <1>1, <1>2, LoneStep, TypeCorrect, RevisionsAreExact, PTL DEF Spec

-----------------------------------------------------------------------------
(***************************************************************************)
(* After a lone publish.  Its update stays the newest, and stays what the  *)
(* sources hold, until somebody else begins or the settings change; both   *)
(* end the publish's place in `solo'.                                      *)
(***************************************************************************)
NewestAt(n) == \A m \in DOMAIN channel \ {n} :
                 channel[m].revision < channel[n].revision

DoneInv ==
  \A t \in solo : pc[t] = "idle" =>
    /\ Quiet
    /\ \E n \in DOMAIN channel : /\ NewestAt(n)
                                 /\ channel[n].snapshot = Visible(config, source)

\* A delivered update is an update, and its revision a number.
LEMMA DeliveredTyped ==
  ASSUME TypeOK, NEW m \in DOMAIN channel
  PROVE  channel[m] \in Update /\ channel[m].revision \in Nat
<1>1. channel \in Seq(Update)
  BY DEF TypeOK
<1>2. channel[m] \in Update
  BY <1>1, ElementOfSeq, LenProperties
<1>3. QED
  BY <1>2 DEF Update

\* The update that is newer than all others is the one Newest picks.
LEMMA NewestIs ==
  ASSUME TypeOK, NEW n \in DOMAIN channel, NewestAt(n)
  PROVE  Newest = channel[n]
<1> DEFINE S == {channel[m] : m \in DOMAIN channel}
           Top(u) == \A m \in DOMAIN channel : channel[m].revision <= u.revision
<1>1. \A m \in DOMAIN channel : channel[m].revision \in Nat
  BY DeliveredTyped
<1>2. channel[n] \in S /\ Top(channel[n])
  BY <1>1 DEF NewestAt
<1>3. \A u \in S : Top(u) => u = channel[n]
  <2> SUFFICES ASSUME NEW m \in DOMAIN channel, Top(channel[m])
               PROVE  channel[m] = channel[n]
    OBVIOUS
  <2>1. channel[n].revision <= channel[m].revision
    OBVIOUS
  <2>2. QED
    BY <1>1, <2>1 DEF NewestAt
<1>4. Newest \in S /\ Top(Newest)
  BY <1>2 DEF Newest
<1>5. QED
  BY <1>3, <1>4

\* Every step keeps a finished lone publish the newest.
LEMMA DoneStep ==
  TypeOK /\ LoneInv /\ DoneInv /\ [Next]_vars => DoneInv'
<1> SUFFICES ASSUME TypeOK, LoneInv, DoneInv, [Next]_vars
             PROVE  DoneInv'
  OBVIOUS
<1> USE DEF DoneInv, Goto, shared, local, history
<1>1. ASSUME NEW t \in Publishers, Begin(t)
      PROVE  DoneInv'
  BY <1>1 DEF Begin, TypeOK
<1>2. ASSUME NEW t \in Publishers, pc[t] # "idle", pc'[t] # "idle",
             solo' = solo, \A u \in Publishers \ {t} : pc'[u] = pc[u]
      PROVE  DoneInv'
  BY <1>2 DEF Quiet, TypeOK
<1>3. ASSUME NEW t \in Publishers, ReadSources(t) \/ Render(t) \/ Number(t)
      PROVE  DoneInv'
  BY <1>2, <1>3 DEF ReadSources, Render, Number, TypeOK
<1>4. ASSUME NEW t \in Publishers,
             \/ NotificationSettings(t) \/ NotificationEdge(t)
             \/ AlarmSettings(t) \/ AlarmEdge(t)
      PROVE  DoneInv'
  BY <1>2, <1>4 DEF NotificationSettings, NotificationEdge, AlarmSettings, AlarmEdge,
     TypeOK
<1>5. ASSUME NEW t \in Publishers, Deliver(t)
      PROVE  DoneInv'
  <2>1. \A u \in solo : u = t
    BY <1>5 DEF Deliver, LoneInv, Lone, Quiet, TypeOK
  <2>2. CASE t \notin solo
    BY <1>5, <2>1, <2>2 DEF Deliver
  <2>3. CASE t \in solo
    <3>1. Lone(t) /\ pc[t] = "deliver"
      BY <1>5, <2>3 DEF Deliver, LoneInv
    <3>2. Quiet'
      BY <1>5, <3>1 DEF Deliver, Lone, Quiet, TypeOK
    <3>3. channel' = Append(channel, update[t])
          /\ UNCHANGED <<source, config>> /\ solo' = solo
      BY <1>5 DEF Deliver
    <3>0. PICK n : n = Len(channel) + 1
      OBVIOUS
    <3>4. /\ DOMAIN channel' = DOMAIN channel \cup {n}
          /\ n \notin DOMAIN channel
          /\ channel'[n] = update[t]
          /\ \A m \in DOMAIN channel : channel'[m] = channel[m]
      <4>1. channel \in Seq(Update) /\ update[t] \in Update
        BY DEF TypeOK
      <4>2. Len(channel) \in Nat /\ DOMAIN channel = 1 .. Len(channel)
        BY <4>1, LenProperties
      <4>3. QED
        BY <3>0, <3>3, <4>1, <4>2, AppendProperties
    <3>5. NewestAt(n)'
      BY <3>1, <3>4 DEF NewestAt, Lone
    <3>6. channel'[n].snapshot = Visible(config, source)'
      BY <3>1, <3>3, <3>4 DEF Lone, Visible, SessionVisible
    <3>7. QED
      BY <3>2, <3>4, <3>5, <3>6
  <2>4. QED
    BY <2>2, <2>3
<1>6. ASSUME NEW c \in Configs, SetConfig(c)
      PROVE  DoneInv'
  BY <1>6 DEF SetConfig
<1>7. CASE Exhausted \/ UNCHANGED vars
  BY <1>7 DEF Exhausted, vars, Quiet, NewestAt, Visible, SessionVisible
<1>8. QED
  BY <1>1, <1>3, <1>4, <1>5, <1>6, <1>7 DEF Next, Publish, Change, Refresh

\* A client that renders the newest revision is current as soon as one publish
\* has run alone, whatever the overlapping ones before it delivered.
THEOREM NewestWins == Spec => []NewestIsCurrent
<1>1. Init => LoneInv /\ DoneInv
  BY DEF Init, LoneInv, DoneInv
<1>2. TypeOK /\ DoneInv => NewestIsCurrent
  <2> SUFFICES ASSUME TypeOK, DoneInv, Quiet, NEW t \in solo
               PROVE  Newest.snapshot = Visible(config, source)
    BY DEF NewestIsCurrent
  <2>1. pc[t] = "idle"
    BY DEF Quiet, TypeOK
  <2>2. PICK n \in DOMAIN channel :
          NewestAt(n) /\ channel[n].snapshot = Visible(config, source)
    BY <2>1 DEF DoneInv
  <2>3. QED
    BY <2>2, NewestIs
<1>3. QED
  BY <1>1, <1>2, LoneStep, DoneStep, TypeCorrect, RevisionsAreExact, PTL DEF Spec

-----------------------------------------------------------------------------
(***************************************************************************)
(* Until two publishes overlap.                                            *)
(***************************************************************************)

\* Until two publishes overlap at most one is under way, and the updates lie in
\* the channel in the order of their revisions.
Serial ==
  ~overlap =>
    /\ \A t, u \in Publishers : pc[t] # "idle" /\ pc[u] # "idle" => t = u
    /\ \A n \in 1 .. Len(channel) : channel[n].revision = n
    /\ (\A t \in Publishers : pc[t] # "deliver") => revision = Len(channel)
    /\ \A t \in Publishers :
         pc[t] = "deliver" => /\ revision = Len(channel) + 1
                              /\ update[t].revision = Len(channel) + 1

\* A publish begins alone unless it overlaps.
LEMMA SerialBegins ==
  ASSUME TypeOK, Serial, NEW t \in Publishers, Begin(t),
         UNCHANGED <<channel, revision, update>>
  PROVE  Serial'
<1> SUFFICES ASSUME ~overlap'
             PROVE  /\ \A w, u \in Publishers : pc'[w] # "idle" /\ pc'[u] # "idle"
                                                  => w = u
                    /\ \A n \in 1 .. Len(channel) : channel[n].revision = n
                    /\ revision = Len(channel)
                    /\ \A u \in Publishers : pc'[u] # "deliver"
  BY DEF Serial
<1>1. Quiet /\ ~overlap
  BY DEF Begin
<1>2. \A u \in Publishers : pc'[u] = IF u = t THEN "read" ELSE "idle"
  BY <1>1 DEF Begin, Goto, Quiet, TypeOK
<1>3. revision = Len(channel) /\ \A n \in 1 .. Len(channel) : channel[n].revision = n
  BY <1>1 DEF Serial, Quiet
<1>4. QED
  BY <1>2, <1>3

\* Every step of the engine keeps the updates in order.
LEMMA SerialStep ==
  TypeOK /\ Serial /\ [Next]_vars => Serial'
<1> SUFFICES ASSUME TypeOK, Serial, [Next]_vars
             PROVE  Serial'
  OBVIOUS
<1>1. ASSUME NEW t \in Publishers, Begin(t), UNCHANGED <<channel, revision, update>>
      PROVE  Serial'
  BY <1>1, SerialBegins
<1>2. ASSUME NEW t \in Publishers,
             \/ ReadSources(t) \/ Render(t)
             \/ NotificationSettings(t) \/ NotificationEdge(t)
             \/ AlarmSettings(t) \/ AlarmEdge(t)
      PROVE  Serial'
  <2>1. UNCHANGED <<channel, revision, overlap>>
    BY <1>2 DEF ReadSources, Render, NotificationSettings, NotificationEdge,
       AlarmSettings, AlarmEdge, shared, local, history
  <2>2. /\ pc[t] # "idle" /\ pc[t] # "deliver" /\ pc'[t] # "deliver"
        /\ \A u \in Publishers \ {t} : pc'[u] = pc[u] /\ update'[u] = update[u]
    BY <1>2 DEF ReadSources, Render, NotificationSettings, NotificationEdge,
       AlarmSettings, AlarmEdge, Goto, TypeOK, local, shared
  <2>3. QED
    BY <2>1, <2>2 DEF Serial
<1>3. ASSUME NEW t \in Publishers, Number(t)
      PROVE  Serial'
  <2>1. /\ UNCHANGED <<channel, overlap>> /\ revision' = revision + 1
        /\ pc[t] = "number" /\ pc'[t] = "deliver"
        /\ update'[t].revision = revision + 1
        /\ \A u \in Publishers \ {t} : pc'[u] = pc[u] /\ update'[u] = update[u]
    BY <1>3 DEF Number, Goto, TypeOK, Update, history
  <2>2. ~overlap => \A u \in Publishers \ {t} : pc[u] = "idle"
    BY <2>1 DEF Serial
  <2>3. ~overlap => revision = Len(channel)
    BY <2>1, <2>2 DEF Serial
  <2>4. QED
    BY <2>1, <2>2, <2>3 DEF Serial
<1>4. ASSUME NEW t \in Publishers, Deliver(t)
      PROVE  Serial'
  <2>1. /\ UNCHANGED <<revision, overlap>>
        /\ channel' = Append(channel, update[t])
        /\ pc[t] = "deliver" /\ pc'[t] = "idle"
        /\ \A u \in Publishers \ {t} : pc'[u] = pc[u]
    BY <1>4 DEF Deliver, Goto, TypeOK
  <2>2. ~overlap => \A u \in Publishers \ {t} : pc[u] = "idle"
    BY <2>1 DEF Serial
  <2>3. PICK n \in Nat : n = Len(channel)
    BY DEF TypeOK
  <2>4. /\ Len(channel') = n + 1 /\ channel'[n + 1] = update[t]
        /\ \A m \in 1 .. n : channel'[m] = channel[m]
    BY <2>1, <2>3 DEF TypeOK
  <2>5. ~overlap => \A m \in 1 .. n + 1 : channel'[m].revision = m
    BY <2>1, <2>3, <2>4 DEF Serial
  <2>6. ~overlap => revision = n + 1
    BY <2>1, <2>3 DEF Serial
  <2>7. QED
    BY <2>1, <2>2, <2>4, <2>5, <2>6 DEF Serial
<1>5. ASSUME UNCHANGED <<channel, revision, overlap, pc, update>>
      PROVE  Serial'
  BY <1>5 DEF Serial
<1>6. ASSUME NEW t \in Publishers, NEW k \in Keys, NEW s \in Statuses \cup {Gone},
             Change(t, k, s)
      PROVE  Serial'
  BY <1>1, <1>6 DEF Change, local
<1>7. ASSUME NEW t \in Publishers, Refresh(t)
      PROVE  Serial'
  BY <1>1, <1>7 DEF Refresh, shared, local
<1>8. CASE (\E c \in Configs : SetConfig(c)) \/ Exhausted \/ UNCHANGED vars
  BY <1>5, <1>8 DEF SetConfig, Exhausted, vars, shared, local, history
<1>9. QED
  BY <1>2, <1>3, <1>4, <1>6, <1>7, <1>8 DEF Next, Publish

\* What a thread has read is what the sources hold until it has used it.
Before == {"read", "render", "notify", "edge"}
After == {"alarm", "sound", "number", "deliver"}
Reads ==
  ~overlap =>
    \A t \in Publishers :
      /\ pc[t] # "idle" /\ pc[t] # "read" => view[t] = source
      /\ \A k \in Keys : pc[t] \in {"notify", "edge"} \cup After
           => (update[t].snapshot[k] = NeedsHelp <=> source[k] = NeedsHelp)
      /\ pc[t] \notin After => update[t].notifications = {}

\* Whoever needs help is seen, and nobody else is seen to.
LEMMA HelpIsVisible ==
  ASSUME NEW c, NEW v, NEW k \in Keys
  PROVE  Visible(c, v)[k] = NeedsHelp <=> v[k] = NeedsHelp
BY EngineAssumption DEF Visible, SessionVisible

\* What a thread has left to do goes step by step, and what the steps of one
\* thread leave alone.
LEMMA PublishDoes ==
  ASSUME TypeOK, NEW t \in Publishers, Publish(t)
  PROVE  /\ pc[t] # "idle"
         /\ \A u \in Publishers \ {t} : pc'[u] = pc[u] /\ view'[u] = view[u]
                                        /\ update'[u] = update[u]
         /\ UNCHANGED <<source, config, asked, solo, overlap>>
<1>1. CASE ReadSources(t)
  BY <1>1 DEF ReadSources, Goto, TypeOK, shared, local, history
<1>2. CASE Render(t)
  BY <1>2 DEF Render, Goto, TypeOK, shared, local, history
<1>3. CASE NotificationEdge(t)
  BY <1>3 DEF NotificationEdge, Goto, TypeOK, history
<1>4. CASE AlarmEdge(t)
  BY <1>4 DEF AlarmEdge, Goto, TypeOK, history
<1>5. CASE Number(t)
  BY <1>5 DEF Number, Goto, TypeOK, history
<1>6. CASE Deliver(t)
  BY <1>6 DEF Deliver, Goto, TypeOK
<1>7. CASE NotificationSettings(t) \/ AlarmSettings(t)
  BY <1>7 DEF NotificationSettings, AlarmSettings, Goto, TypeOK, shared, local, history
<1>8. QED
  BY <1>1, <1>2, <1>3, <1>4, <1>5, <1>6, <1>7 DEF Publish

\* A publish that begins leaves the others and what is announced alone.
LEMMA BeginDoes ==
  ASSUME TypeOK, NEW t \in Publishers, Begin(t)
  PROVE  /\ pc[t] = "idle" /\ pc'[t] = "read"
         /\ \A u \in Publishers \ {t} : pc'[u] = pc[u]
         /\ ~overlap' => ~overlap /\ Quiet
BY DEF Begin, Goto, TypeOK

\* Every step keeps what was read the same as what there is.
LEMMA ReadsStep ==
  TypeOK /\ Serial /\ Reads /\ [Next]_vars => Reads'
<1> SUFFICES ASSUME TypeOK, Serial, Reads, [Next]_vars, ~overlap'
             PROVE  Reads'
  BY DEF Reads
<1> USE DEF Before, After
<1>1. ASSUME NEW t \in Publishers, Begin(t), UNCHANGED <<view, update>>
      PROVE  Reads'
  <2>1. /\ ~overlap /\ pc'[t] = "read" /\ pc[t] = "idle"
        /\ \A u \in Publishers : u # t => pc'[u] = "idle" /\ pc[u] = "idle"
    BY <1>1, BeginDoes DEF Quiet
  <2>2. \A u \in Publishers : update[u].notifications = {}
    BY <2>1 DEF Reads
  <2>3. \A u \in Publishers : pc'[u] \in {"idle", "read"}
    BY <2>1
  <2>4. QED
    BY <1>1, <2>2, <2>3 DEF Reads
<1>2. ASSUME NEW t \in Publishers, Publish(t)
      PROVE  Reads'
  <2>1. /\ \A u \in Publishers \ {t} : pc'[u] = pc[u] /\ view'[u] = view[u]
                                       /\ update'[u] = update[u]
        /\ source' = source /\ ~overlap
    BY <1>2, PublishDoes
  <2>2. /\ pc'[t] # "idle" /\ pc'[t] # "read" => view'[t] = source
        /\ \A k \in Keys : pc'[t] \in {"notify", "edge"} \cup After
             => (update'[t].snapshot[k] = NeedsHelp <=> source[k] = NeedsHelp)
        /\ pc'[t] \notin After => update'[t].notifications = {}
    <3>1. CASE ReadSources(t)
      BY <2>1, <3>1 DEF ReadSources, Goto, TypeOK, Reads
    <3>2. CASE Render(t)
      <4>1. /\ pc[t] = "render" /\ pc'[t] = "notify" /\ view' = view
            /\ update'[t].snapshot = Visible(config, view[t])
            /\ update'[t].notifications = update[t].notifications
        BY <3>2 DEF Render, Goto, TypeOK, Update
      <4>2. view[t] = source /\ update[t].notifications = {}
        BY <2>1, <4>1 DEF Reads
      <4>3. QED
        BY <4>1, <4>2, HelpIsVisible
    <3>3. CASE NotificationEdge(t)
      <4>1. /\ pc[t] = "edge" /\ pc'[t] = "alarm" /\ view' = view
            /\ update'[t].snapshot = update[t].snapshot
        BY <3>3 DEF NotificationEdge, Goto, TypeOK, Update
      <4>2. QED
        BY <2>1, <4>1 DEF Reads
    <3>4. CASE AlarmEdge(t)
      <4>1. /\ pc[t] = "sound" /\ pc'[t] = "number" /\ view' = view
            /\ update'[t].snapshot = update[t].snapshot
        BY <3>4 DEF AlarmEdge, Goto, TypeOK, Update
      <4>2. QED
        BY <2>1, <4>1 DEF Reads
    <3>5. CASE Number(t)
      <4>1. /\ pc[t] = "number" /\ pc'[t] = "deliver" /\ view' = view
            /\ update'[t].snapshot = update[t].snapshot
        BY <3>5 DEF Number, Goto, TypeOK, Update
      <4>2. QED
        BY <2>1, <4>1 DEF Reads
    <3>6. CASE Deliver(t)
      BY <3>6 DEF Deliver, Goto, TypeOK, NoUpdate
    <3>7. CASE NotificationSettings(t) \/ AlarmSettings(t)
      <4>1. /\ \/ pc[t] = "notify" /\ pc'[t] \in {"edge", "alarm"}
               \/ pc[t] = "alarm" /\ pc'[t] \in {"sound", "number"}
            /\ UNCHANGED <<view, update>>
        BY <3>7 DEF NotificationSettings, AlarmSettings, Goto, TypeOK
      <4>2. QED
        BY <2>1, <4>1 DEF Reads
    <3>8. QED
      BY <1>2, <3>1, <3>2, <3>3, <3>4, <3>5, <3>6, <3>7 DEF Publish
  <2>3. QED
    BY <2>1, <2>2 DEF Reads
<1>3. CASE (\E c \in Configs : SetConfig(c)) \/ Exhausted \/ UNCHANGED vars
  <2>1. UNCHANGED <<source, pc, view, update, overlap>>
    BY <1>3, Zenon DEF SetConfig, Exhausted, vars, shared, local, history
  <2>2. QED
    BY <2>1 DEF Reads
<1>4. QED
  BY <1>1, <1>2, <1>3 DEF Next, Change, Refresh, shared, local

\* What is to be announced still, or again, was asked.
Prompting(k) ==
  IF \E t \in Publishers : /\ pc[t] \in After /\ k \in update[t].notifications
                           /\ update[t].snapshot[k] = NeedsHelp
  THEN 1 ELSE 0
Unseen(k) == IF source[k] = NeedsHelp /\ previous[k] # NeedsHelp THEN 1 ELSE 0
Counted ==
  ~overlap =>
    \A k \in Keys : Cardinality(Prompts(k)) + Prompting(k) + Unseen(k) <= asked[k]

\* The prompts in the channel are finitely many, and an update adds itself.
LEMMA PromptsCounted ==
  ASSUME TypeOK, NEW k \in Keys
  PROVE  /\ IsFiniteSet(Prompts(k)) /\ Cardinality(Prompts(k)) \in Nat
         /\ Len(channel) + 1 \notin Prompts(k)
<1>1. /\ Prompts(k) \subseteq 1 .. Len(channel) /\ Len(channel) \in Nat
      /\ Len(channel) + 1 \notin 1 .. Len(channel)
  BY DEF Prompts, TypeOK
<1>2. IsFiniteSet(1 .. Len(channel))
  BY <1>1, FS_Interval
<1>3. QED
  BY <1>1, <1>2, FS_Subset, FS_CardinalityType

\* Every step announces at most what was asked.
LEMMA CountedStep ==
  TypeOK /\ Serial /\ Reads /\ Counted /\ [Next]_vars => Counted'
<1> SUFFICES ASSUME TypeOK, Serial, Reads, Counted, [Next]_vars,
                    ~overlap', NEW k \in Keys
             PROVE  (Cardinality(Prompts(k)) + Prompting(k) + Unseen(k) <= asked[k])'
  BY DEF Counted
<1>0. /\ Cardinality(Prompts(k)) \in Nat /\ asked[k] \in Nat
      /\ Prompting(k) \in {0, 1} /\ Unseen(k) \in {0, 1}
      /\ Prompting(k)' \in {0, 1} /\ Unseen(k)' \in {0, 1}
      /\ ~overlap => Cardinality(Prompts(k)) + Prompting(k) + Unseen(k) <= asked[k]
  BY PromptsCounted DEF Prompting, Unseen, TypeOK, Counted
<1>1. ASSUME NEW t \in Publishers, Begin(t), UNCHANGED <<channel, update>>
      PROVE  ~overlap /\ Prompts(k)' = Prompts(k) /\ Prompting(k)' = 0
  <2>1. ~overlap /\ \A u \in Publishers : pc'[u] \notin After
    BY <1>1, BeginDoes DEF Quiet, After
  <2>2. QED
    BY <1>1, <2>1 DEF Prompts, Prompting
<1>2. ASSUME NEW t \in Publishers, NEW j \in Keys, NEW s \in Statuses \cup {Gone},
             Change(t, j, s)
      PROVE  (Cardinality(Prompts(k)) + Prompting(k) + Unseen(k) <= asked[k])'
  <2>1. ~overlap /\ Prompts(k)' = Prompts(k) /\ Prompting(k)' = 0
    BY <1>1, <1>2 DEF Change, local
  <2>2. asked'[k] = IF k = j /\ s = NeedsHelp THEN asked[k] + 1 ELSE asked[k]
    BY <1>2 DEF Change, TypeOK
  <2>3. (k = j /\ s = NeedsHelp) \/ Unseen(k)' <= Unseen(k)
    BY <1>2 DEF Change, TypeOK, Unseen
  <2>4. QED
    BY <1>0, <2>1, <2>2, <2>3
<1>3. ASSUME NEW t \in Publishers, Refresh(t)
      PROVE  (Cardinality(Prompts(k)) + Prompting(k) + Unseen(k) <= asked[k])'
  <2>1. ~overlap /\ Prompts(k)' = Prompts(k) /\ Prompting(k)' = 0
    BY <1>1, <1>3 DEF Refresh, shared, local
  <2>2. Unseen(k)' = Unseen(k) /\ asked'[k] = asked[k]
    BY <1>3 DEF Refresh, shared, Unseen
  <2>3. QED
    BY <1>0, <2>1, <2>2
<1>4. ASSUME UNCHANGED <<source, previous, channel, overlap, asked>>,
             Prompting(k)' <= Prompting(k)
      PROVE  (Cardinality(Prompts(k)) + Prompting(k) + Unseen(k) <= asked[k])'
  <2>1. Prompts(k)' = Prompts(k) /\ Unseen(k)' = Unseen(k)
    BY <1>4 DEF Prompts, Unseen
  <2>2. QED
    BY <1>0, <1>4, <2>1
<1>5. ASSUME NEW t \in Publishers,
             \/ ReadSources(t) \/ Render(t)
             \/ NotificationSettings(t) /\ config.notifications
      PROVE  (Cardinality(Prompts(k)) + Prompting(k) + Unseen(k) <= asked[k])'
  <2>1. /\ UNCHANGED <<source, previous, channel, overlap, asked>>
        /\ pc'[t] \notin After
    BY <1>5 DEF ReadSources, Render, NotificationSettings, Goto, TypeOK, After, shared,
       local, history
  <2>2. \A u \in Publishers \ {t} : pc'[u] = pc[u] /\ update'[u] = update[u]
    BY <1>5, PublishDoes DEF Publish
  <2>3. Prompting(k)' <= Prompting(k)
    BY <2>1, <2>2 DEF Prompting
  <2>4. QED
    BY <1>4, <2>1, <2>3
<1>6. ASSUME NEW t \in Publishers,
             AlarmSettings(t) \/ AlarmEdge(t) \/ Number(t)
      PROVE  (Cardinality(Prompts(k)) + Prompting(k) + Unseen(k) <= asked[k])'
  <2>1. /\ UNCHANGED <<source, previous, channel, overlap, asked>>
        /\ pc[t] \in After
    BY <1>6 DEF AlarmSettings, AlarmEdge, Number, After, shared, history
  <2>2. \A u \in Publishers \ {t} : pc'[u] = pc[u] /\ update'[u] = update[u]
    BY <1>6, PublishDoes DEF Publish
  <2>3. /\ update'[t].notifications = update[t].notifications
        /\ update'[t].snapshot = update[t].snapshot
    <3>1. CASE AlarmEdge(t)
      BY <3>1 DEF AlarmEdge, TypeOK, Update
    <3>2. CASE Number(t)
      BY <3>2 DEF Number, TypeOK, Update
    <3>3. CASE AlarmSettings(t)
      BY <3>3 DEF AlarmSettings
    <3>4. QED
      BY <1>6, <3>1, <3>2, <3>3
  <2>4. Prompting(k)' <= Prompting(k)
    BY <2>1, <2>2, <2>3 DEF Prompting
  <2>5. QED
    BY <1>4, <2>1, <2>4
<1>7. ASSUME NEW t \in Publishers, NotificationEdge(t)
      PROVE  (Cardinality(Prompts(k)) + Prompting(k) + Unseen(k) <= asked[k])'
  <2> DEFINE seen == Visible(settings[t], view[t])
             edge == Edge(settings[t].notification_trigger, previous, seen)
  <2>1. /\ UNCHANGED <<source, channel, overlap, asked>> /\ ~overlap
        /\ pc[t] = "edge" /\ Publish(t)
    BY <1>7 DEF NotificationEdge, Publish
  <2>2. \A u \in Publishers \ {t} : pc[u] = "idle" /\ pc'[u] = "idle"
    BY <2>1, PublishDoes DEF Serial
  <2>3. /\ view[t] = source /\ update[t].notifications = {}
        /\ update[t].snapshot[k] = NeedsHelp <=> source[k] = NeedsHelp
    BY <2>1 DEF Reads, After
  <2>4. Prompting(k) = 0
    BY <2>1, <2>2 DEF Prompting, After
  <2>5. /\ previous' = seen /\ update'[t].notifications = edge
        /\ update'[t].snapshot = update[t].snapshot
    <3>1. previous' = seen /\ update' = [update EXCEPT ![t].notifications = edge]
      BY <1>7 DEF NotificationEdge
    <3> HIDE DEF seen, edge
    <3>2. QED
      BY <3>1 DEF TypeOK, Update
  <2>6. seen[k] = NeedsHelp <=> source[k] = NeedsHelp
    BY <2>3, HelpIsVisible
  <2>7. Unseen(k)' = 0
    BY <2>1, <2>5, <2>6 DEF Unseen
  <2>8. source[k] = NeedsHelp /\ k \in edge => Unseen(k) = 1
    BY <2>6, EngineAssumption DEF Edge, TriggersFire, Unseen
  <2> HIDE DEF seen, edge
  <2>9. Prompting(k)' = 1 => source[k] = NeedsHelp /\ k \in edge
    BY <2>2, <2>3, <2>5 DEF Prompting, After
  <2>10. Prompts(k)' = Prompts(k)
    BY <2>1 DEF Prompts
  <2>11. Prompting(k)' + Unseen(k)' <= Prompting(k) + Unseen(k)
    BY <1>0, <2>4, <2>7, <2>8, <2>9
  <2>12. QED
    BY <1>0, <2>1, <2>10, <2>11
<1>8. ASSUME NEW t \in Publishers, Deliver(t)
      PROVE  (Cardinality(Prompts(k)) + Prompting(k) + Unseen(k) <= asked[k])'
  <2>1. /\ UNCHANGED <<source, previous, overlap, asked>> /\ ~overlap
        /\ pc[t] = "deliver" /\ pc'[t] = "idle" /\ Publish(t)
        /\ channel' = Append(channel, update[t]) /\ update[t] \in Update
    BY <1>8 DEF Deliver, Publish, Goto, TypeOK
  <2>2. \A u \in Publishers : pc'[u] = "idle"
    BY <2>1, PublishDoes DEF Serial
  <2>3. Prompting(k)' = 0 /\ Unseen(k)' = Unseen(k)
    BY <2>1, <2>2 DEF Prompting, Unseen, After
  <2>4. /\ DOMAIN channel' = DOMAIN channel \cup {Len(channel) + 1}
        /\ Len(channel) + 1 \notin DOMAIN channel
        /\ \A n \in DOMAIN channel : channel'[n] = channel[n]
        /\ channel'[Len(channel) + 1] = update[t]
    BY <2>1 DEF TypeOK
  <2>5. CASE k \in update[t].notifications /\ update[t].snapshot[k] = NeedsHelp
    <3>1. Prompts(k)' = Prompts(k) \cup {Len(channel) + 1}
      BY <2>4, <2>5 DEF Prompts
    <3>2. Cardinality(Prompts(k)') = Cardinality(Prompts(k)) + 1
      BY <3>1, PromptsCounted, FS_AddElement
    <3>3. Prompting(k) = 1
      BY <2>1, <2>5 DEF Prompting, After
    <3>4. QED
      BY <1>0, <2>1, <2>3, <3>2, <3>3
  <2>6. CASE ~(k \in update[t].notifications /\ update[t].snapshot[k] = NeedsHelp)
    <3>1. Prompts(k)' = Prompts(k)
      BY <2>4, <2>6 DEF Prompts
    <3>2. QED
      BY <1>0, <2>1, <2>3, <3>1
  <2>7. QED
    BY <2>5, <2>6
<1>9. CASE (\E c \in Configs : SetConfig(c)) \/ Exhausted \/ UNCHANGED vars
  <2>1. UNCHANGED <<source, previous, channel, overlap, asked, pc, update>>
    BY <1>9, Zenon DEF SetConfig, Exhausted, vars, shared, local, history
  <2>2. Prompting(k)' <= Prompting(k)
    BY <2>1 DEF Prompting
  <2>3. QED
    BY <1>4, <2>1, <2>2
<1>10. ASSUME NEW t \in Publishers, NotificationSettings(t), ~config.notifications
       PROVE  (Cardinality(Prompts(k)) + Prompting(k) + Unseen(k) <= asked[k])'
  <2>1. /\ UNCHANGED <<source, previous, channel, overlap, asked, update>>
        /\ pc[t] = "notify" /\ pc' = [pc EXCEPT ![t] = "alarm"] /\ ~overlap
    BY <1>10 DEF NotificationSettings, Goto, shared, history
  <2>2. update[t].notifications = {}
    BY <2>1 DEF Reads, After
  <2>3. Prompting(k)' <= Prompting(k)
    BY <2>1, <2>2 DEF Prompting, TypeOK
  <2>4. QED
    BY <1>4, <2>1, <2>3
<1>11. QED
  BY <1>2, <1>3, <1>5, <1>6, <1>7, <1>8, <1>9, <1>10 DEF Next, Publish

\* A remembered prompt that is not muted is one of a session that asks, unless
\* the publish under way has yet to see that it does not; notifications are on.
Remembered ==
  \A k \in Keys : previous[k] = NeedsHelp /\ k \notin muted =>
    /\ config.notifications
    /\ source[k] = NeedsHelp \/ \E t \in Publishers : pc[t] \in Before

\* Whoever is due is about to be announced by the publish under way, and the
\* settings it has taken say so.
Owed ==
  \A k \in due \ muted :
    /\ source[k] = NeedsHelp /\ Alerting(config)
    /\ \A t \in Publishers : pc[t] = "edge" => Alerting(settings[t])
    /\ \E t \in Publishers :
         \/ pc[t] \in Before /\ previous[k] # NeedsHelp
         \/ pc[t] \in After /\ k \in update[t].notifications
Prompted == ~overlap => Remembered /\ Owed

\* Every step keeps the prompts that are due on their way.
LEMMA PromptedStep ==
  TypeOK /\ Serial /\ Reads /\ Prompted /\ [Next]_vars => Prompted'
<1> SUFFICES ASSUME TypeOK, Serial, Reads, Prompted, [Next]_vars, ~overlap'
             PROVE  Remembered' /\ Owed'
  BY DEF Prompted
<1>1. ASSUME NEW t \in Publishers, Begin(t)
      PROVE  ~overlap /\ Remembered /\ pc'[t] \in Before /\ due \ muted = {}
             /\ \A k \in Keys : previous[k] = NeedsHelp /\ k \notin muted
                                  => config.notifications /\ source[k] = NeedsHelp
  <2>1. ~overlap /\ Quiet /\ pc'[t] \in Before
    BY <1>1, BeginDoes DEF Before
  <2>2. Remembered /\ Owed
    BY <2>1 DEF Prompted
  <2>3. due \ muted = {}
    BY <2>1, <2>2 DEF Owed, Quiet, Before, After
  <2>4. QED
    BY <2>1, <2>2, <2>3 DEF Remembered, Quiet, Before
<1>2. ASSUME NEW t \in Publishers, NEW j \in Keys, NEW s \in Statuses \cup {Gone},
             Change(t, j, s)
      PROVE  Remembered' /\ Owed'
  <2>1. /\ Begin(t) /\ UNCHANGED <<config, previous, muted>>
        /\ source[j] # s /\ source' = [source EXCEPT ![j] = s]
        /\ due' = IF s = NeedsHelp /\ Alerting(config) THEN due \cup {j} ELSE due \ {j}
    BY <1>2 DEF Change
  <2>2. Remembered'
    BY <1>1, <2>1 DEF Remembered
  <2>3. \A k \in due' \ muted : k = j /\ s = NeedsHelp /\ Alerting(config)
    BY <1>1, <2>1
  <2>4. j \notin muted /\ s = NeedsHelp => previous[j] # NeedsHelp
    BY <1>1, <2>1
  <2>5. Owed'
    <3>0. \A u \in Publishers : pc'[u] # "edge"
      BY <1>1, <2>1, BeginDoes DEF Quiet
    <3> SUFFICES ASSUME NEW k \in due' \ muted'
                 PROVE  /\ source'[k] = NeedsHelp /\ Alerting(config)'
                        /\ pc'[t] \in Before /\ previous'[k] # NeedsHelp
      BY <3>0 DEF Owed
    <3>1. k = j /\ s = NeedsHelp /\ Alerting(config) /\ k \notin muted
      BY <2>1, <2>3
    <3>2. source'[k] = NeedsHelp
      BY <2>1, <3>1 DEF TypeOK, View
    <3>3. QED
      BY <1>1, <2>1, <2>4, <3>1, <3>2 DEF Alerting
  <2>6. QED
    BY <2>2, <2>5
<1>3. ASSUME NEW t \in Publishers, Refresh(t)
      PROVE  Remembered' /\ Owed'
  <2>1. Begin(t) /\ UNCHANGED <<source, config, previous, due, muted>>
    BY <1>3 DEF Refresh, shared
  <2>2. QED
    BY <1>1, <2>1 DEF Remembered, Owed
<1>4. ASSUME NEW t \in Publishers,
             \/ ReadSources(t) \/ Render(t)
             \/ AlarmSettings(t) \/ AlarmEdge(t) \/ Number(t)
      PROVE  Remembered' /\ Owed'
  <2>1. UNCHANGED <<source, config, previous, due, muted, overlap>>
    BY <1>4 DEF ReadSources, Render, AlarmSettings, AlarmEdge, Number, shared, history
  <2>2. \A u \in Publishers \ {t} : pc'[u] = pc[u] /\ settings'[u] = settings[u]
    BY <1>4, NotificationsKept
  <2>3. /\ pc'[t] \in Before <=> pc[t] \in Before
        /\ pc'[t] \in After <=> pc[t] \in After
        /\ pc'[t] # "edge"
    BY <1>4 DEF ReadSources, Render, AlarmSettings, AlarmEdge, Number, Goto, TypeOK,
       Before, After
  <2>4. \A u \in Publishers : update'[u].notifications = update[u].notifications
    BY <1>4, NotificationsKept
  <2>5. Remembered /\ Owed
    BY <2>1 DEF Prompted
  <2>6. Remembered'
    BY <2>1, <2>2, <2>3, <2>5 DEF Remembered
  <2>7. ASSUME NEW k \in due \ muted
        PROVE  \E u \in Publishers :
                 \/ pc'[u] \in Before /\ previous[k] # NeedsHelp
                 \/ pc'[u] \in After /\ k \in update'[u].notifications
    <3>1. PICK u \in Publishers :
            \/ pc[u] \in Before /\ previous[k] # NeedsHelp
            \/ pc[u] \in After /\ k \in update[u].notifications
      BY <2>5 DEF Owed
    <3>2. QED
      BY <2>2, <2>3, <2>4, <3>1
  <2>8. Owed'
    BY <2>1, <2>2, <2>3, <2>5, <2>7 DEF Owed, Alerting
  <2>9. QED
    BY <2>6, <2>8
<1>5. ASSUME NEW t \in Publishers, NotificationEdge(t)
      PROVE  Remembered' /\ Owed'
  <2>1. /\ UNCHANGED <<source, config, due, overlap>> /\ ~overlap /\ Publish(t)
        /\ muted \subseteq muted'
        /\ ~config.notifications => {k \in Keys : previous'[k] = NeedsHelp} \subseteq muted'
    BY <1>5 DEF NotificationEdge, Publish
  <2>2. /\ pc[t] = "edge" /\ pc'[t] = "alarm"
        /\ previous' = Visible(settings[t], view[t])
        /\ update'[t].notifications
             = Edge(settings[t].notification_trigger, previous, previous')
    BY <1>5, EdgeDoes
  <2>3. \A u \in Publishers \ {t} : pc[u] = "idle" /\ pc'[u] = "idle"
    BY <2>1, <2>2, PublishDoes DEF Serial
  <2>4. Remembered /\ Owed /\ view[t] = source
    BY <2>1, <2>2 DEF Prompted, Reads
  <2>5. \A k \in Keys : previous'[k] = NeedsHelp <=> source[k] = NeedsHelp
    BY <2>2, <2>4, HelpIsVisible
  <2>6. Remembered'
    BY <2>1, <2>5 DEF Remembered
  <2>7. ASSUME NEW k \in due \ muted
        PROVE  k \in update'[t].notifications /\ source[k] = NeedsHelp /\ Alerting(config)
    <3>1. /\ source[k] = NeedsHelp /\ Alerting(config) /\ previous[k] # NeedsHelp
          /\ k \in Keys /\ Alerting(settings[t])
      BY <2>2, <2>3, <2>4 DEF Owed, Before, After, TypeOK
    <3>2. QED
      BY <2>2, <2>5, <3>1, EngineAssumption DEF Edge, TriggersFire, Alerting
  <2>8. Owed'
    BY <2>1, <2>2, <2>3, <2>7 DEF Owed, Alerting, After
  <2>9. QED
    BY <2>6, <2>8
<1>6. ASSUME NEW t \in Publishers, Deliver(t)
      PROVE  Remembered' /\ Owed'
  <2>1. /\ UNCHANGED <<source, config, previous, muted, overlap>> /\ ~overlap
        /\ pc[t] = "deliver" /\ Publish(t)
        /\ due' = due \ update[t].notifications
    BY <1>6 DEF Deliver, Publish
  <2>2. \A u \in Publishers \ {t} : pc[u] = "idle"
    BY <2>1 DEF Serial
  <2>3. Remembered /\ Owed
    BY <2>1 DEF Prompted
  <2>4. due' \ muted = {}
    BY <2>1, <2>2, <2>3 DEF Owed, Before, After
  <2>5. \A u \in Publishers : pc[u] \notin Before
    BY <2>1, <2>2 DEF Before
  <2>6. QED
    BY <2>1, <2>3, <2>4, <2>5 DEF Remembered, Owed
<1>7. ASSUME NEW c \in Configs, SetConfig(c)
      PROVE  Remembered' /\ Owed'
  <2>1. /\ UNCHANGED <<source, previous, overlap, pc, update, settings>> /\ config' = c
        /\ due' = IF Alerting(c) THEN due ELSE {}
        /\ muted' = IF config.notifications /\ ~c.notifications
                    THEN muted \cup {k \in Keys : previous[k] = NeedsHelp}
                    ELSE muted
    BY <1>7 DEF SetConfig, local
  <2>2. Remembered /\ Owed
    BY <2>1 DEF Prompted
  <2>3. c.notifications \in BOOLEAN /\ config.notifications \in BOOLEAN
    BY EngineAssumption DEF TypeOK, Config
  <2>4. Remembered'
    BY <2>1, <2>2, <2>3 DEF Remembered
  <2>5. Owed'
    BY <2>1, <2>2 DEF Owed, Alerting
  <2>6. QED
    BY <2>4, <2>5
<1>8. CASE Exhausted \/ UNCHANGED vars
  BY <1>8 DEF Exhausted, vars, shared, local, history, Prompted, Remembered, Owed
<1>9. ASSUME NEW t \in Publishers, NotificationSettings(t)
       PROVE  Remembered' /\ Owed'
  <2>1. /\ UNCHANGED <<source, config, previous, due, muted, overlap, update>>
        /\ ~overlap /\ pc[t] = "notify" /\ Publish(t)
    BY <1>9 DEF NotificationSettings, shared, history, Publish
  <2>2. \A u \in Publishers \ {t} : pc[u] = "idle" /\ pc'[u] = "idle"
    BY <2>1, PublishDoes DEF Serial
  <2>3. Remembered /\ Owed
    BY <2>1 DEF Prompted
  <2>4. CASE config.notifications
    <3>1. pc'[t] = "edge" /\ settings'[t] = config
      BY <1>9, <2>4 DEF NotificationSettings, Goto, TypeOK
    <3>2. QED
      BY <2>1, <2>2, <2>3, <3>1 DEF Remembered, Owed, Alerting, Before, After
  <2>5. CASE ~config.notifications
    <3>1. pc'[t] = "alarm"
      BY <1>9, <2>5 DEF NotificationSettings, Goto, TypeOK
    <3>2. due \ muted = {} /\ \A k \in Keys : previous[k] = NeedsHelp => k \in muted
      BY <2>3, <2>5 DEF Owed, Remembered, Alerting
    <3>3. QED
      BY <2>1, <3>2 DEF Remembered, Owed
  <2>6. QED
    BY <2>4, <2>5
<1>10. QED
  BY <1>2, <1>3, <1>4, <1>5, <1>6, <1>7, <1>8, <1>9 DEF Next, Publish

\* What holds until two publishes overlap holds in every state.
LEMMA UntilOverlap ==
  Spec => [](TypeOK /\ Serial /\ Reads /\ Counted /\ Prompted)
<1>1. Init => Serial /\ Reads
  BY DEF Init, Serial, Reads, NoUpdate, After
<1>2. Init => Counted
  <2> SUFFICES ASSUME Init, NEW k \in Keys
               PROVE  Cardinality(Prompts(k)) + Prompting(k) + Unseen(k) <= asked[k]
    BY DEF Counted
  <2>1. Prompts(k) = {} /\ Prompting(k) = 0 /\ asked[k] = 0
    BY DEF Init, Prompts, Prompting, After
  <2>2. Unseen(k) = 0
    BY EngineAssumption DEF Init, Unseen, NoSessions
  <2>3. QED
    BY <2>1, <2>2, FS_EmptySet
<1>3. Init => Prompted
  BY EngineAssumption DEF Init, Prompted, Remembered, Owed, NoSessions
<1>4. QED
  BY <1>1, <1>2, <1>3, TypeCorrect, SerialStep, ReadsStep, CountedStep, PromptedStep,
     PTL DEF Spec

\* Until two publishes overlap no prompt is announced more often than it was
\* asked, however notifications are turned off and on.
THEOREM OnceIsEnough == Spec => []NotifiedOncePerEntry
<1>1. TypeOK /\ Counted => NotifiedOncePerEntry
  <2> SUFFICES ASSUME TypeOK, Counted, ~overlap, NEW k \in Keys
               PROVE  Cardinality(Prompts(k)) <= asked[k]
    BY DEF NotifiedOncePerEntry
  <2>1. /\ Cardinality(Prompts(k)) \in Nat /\ asked[k] \in Nat
        /\ Prompting(k) \in {0, 1} /\ Unseen(k) \in {0, 1}
    BY PromptsCounted DEF Prompting, Unseen, TypeOK
  <2>2. Cardinality(Prompts(k)) + Prompting(k) + Unseen(k) <= asked[k]
    BY DEF Counted
  <2>3. QED
    BY <2>1, <2>2
<1>2. QED
  BY <1>1, UntilOverlap, PTL

\* Until two publishes overlap, the prompts that go unannounced are those of
\* sessions the edge has held as asking while notifications were off, however
\* often the settings change between the steps of a publish.
THEOREM NoOtherIsMissed == Spec => []OnlyMutedAreMissed
<1>1. Prompted => OnlyMutedAreMissed
  BY DEF Prompted, Owed, OnlyMutedAreMissed, Quiet, Before, After
<1>2. QED
  BY <1>1, UntilOverlap, PTL

=============================================================================
