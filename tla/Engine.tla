------------------------------- MODULE Engine -------------------------------
(***************************************************************************)
(* The engine (agentlight-core/src/engine.rs): it turns the live sets of   *)
(* its sources into numbered updates for its subscribers.                  *)
(*                                                                         *)
(* `publish' runs on whatever thread changed a source or asked for a       *)
(* refresh, and holds no lock from one end to the other: it reads the      *)
(* sources, renders, computes the notification edge and the alarm edge,    *)
(* each under a lock of its own, takes a revision, and calls the sinks.    *)
(* One action is one of these steps.                                       *)
(*                                                                         *)
(* A session is its key, its status and whether it is a subagent.  What    *)
(* render() derives from the visible sessions alone (counts, aggregate,    *)
(* order, retention, links, error text) is a function of the snapshot here *)
(* and left out.  Each edge takes a copy of the configuration before it    *)
(* locks its memory, and the user may change the settings in between.      *)
(*                                                                         *)
(* The sinks are called in turn with the same update; one sink stands for  *)
(* them, and `channel' is what it was given, in order.                     *)
(*                                                                         *)
(* Operators named Mut... are bugs that a property of some run must catch; *)
(* no other definition uses them.                                          *)
(***************************************************************************)
EXTENDS Integers, Sequences, FiniteSets

CONSTANTS
  Keys,         \* session keys (source and session id)
  Subagents,    \* the keys of subagent sessions
  Statuses,     \* session statuses
  NeedsHelp,    \* the status that asks for the user
  Done,         \* the status of a finished session
  Gone,         \* no such session
  Configs,      \* the configurations the user may choose
  Unread,       \* no configuration taken
  Publishers,   \* threads that change sources and publish
  MaxRevision   \* bound on the number of publishes explored

Triggers == {"needs_help", "done", "subagent_done", "any_status"}

Config == [notifications        : BOOLEAN,
           notification_trigger : SUBSET Triggers,
           alarms_enabled       : BOOLEAN,
           alarm_trigger        : SUBSET Triggers,
           show_subagents       : BOOLEAN]

ASSUME EngineAssumption ==
  /\ Subagents \subseteq Keys
  /\ NeedsHelp \in Statuses
  /\ Done \in Statuses
  /\ NeedsHelp # Done
  /\ Gone \notin Statuses
  /\ Configs \subseteq Config /\ Configs # {}
  /\ Unread \notin Configs
  /\ MaxRevision \in Nat

View == [Keys -> Statuses \cup {Gone}]

Update == [revision : Nat, snapshot : View,
           notifications : SUBSET Keys, alarms : SUBSET Keys]

VARIABLES
  source,          \* what the sources hold now
  config,          \* Mutex<Config>
  revision,        \* AtomicU64
  previous,        \* Mutex: the statuses the last notification edge saw
  alarm_previous,  \* Mutex: the statuses the last alarm edge saw
  channel,         \* the updates the sink was given, in order
  pc,              \* where each thread is in publish
  view,            \* what a thread read from the sources
  update,          \* the update a thread is putting together
  settings,        \* the configuration an edge of a thread has taken
  asked,           \* history: how often each key began to ask for help
  due,             \* history: keys that asked while notifications were on,
                   \* still ask, and have been in no update's notifications
  solo,            \* history: the thread whose publish nothing has overlapped
  overlap,         \* history: whether two publishes have ever overlapped
  muted            \* history: keys the edge has remembered as asking for help
                   \* while notifications were off

shared == <<source, config, revision, previous, alarm_previous, channel>>
history == <<asked, due, solo, overlap, muted>>
local == <<view, update, settings>>
vars == <<shared, pc, local, history>>

PCs == {"idle", "read", "render", "notify", "edge", "alarm", "sound", "number",
        "deliver"}

NoSessions == [k \in Keys |-> Gone]
NoUpdate == [revision |-> 0, snapshot |-> NoSessions,
             notifications |-> {}, alarms |-> {}]

TypeOK ==
  /\ source \in View
  /\ config \in Configs
  /\ revision \in Nat
  /\ previous \in View
  /\ alarm_previous \in View
  /\ channel \in Seq(Update)
  /\ pc \in [Publishers -> PCs]
  /\ view \in [Publishers -> View]
  /\ update \in [Publishers -> Update]
  /\ settings \in [Publishers -> Configs \cup {Unread}]
  /\ asked \in [Keys -> Nat]
  /\ due \in SUBSET Keys
  /\ solo \in SUBSET Publishers
  /\ overlap \in BOOLEAN
  /\ muted \in SUBSET Keys

Init ==
  /\ source = NoSessions
  /\ config \in Configs
  /\ revision = 0
  /\ previous = NoSessions
  /\ alarm_previous = NoSessions
  /\ channel = <<>>
  /\ pc = [t \in Publishers |-> "idle"]
  /\ view = [t \in Publishers |-> NoSessions]
  /\ update = [t \in Publishers |-> NoUpdate]
  /\ settings = [t \in Publishers |-> Unread]
  /\ asked = [k \in Keys |-> 0]
  /\ due = {}
  /\ solo = {}
  /\ overlap = FALSE
  /\ muted = {}

-----------------------------------------------------------------------------
(***************************************************************************)
(* Visibility and edges.                                                   *)
(***************************************************************************)

MutSessionVisible(c, k, status) ==
  /\ status # Gone
  /\ c.show_subagents \/ k \notin Subagents

\* A subagent is hidden unless the user opts in or it needs help.
SessionVisible(c, k, status) ==
  /\ status # Gone
  /\ c.show_subagents \/ k \notin Subagents \/ status = NeedsHelp

Visible(c, v) ==
  [k \in Keys |-> IF SessionVisible(c, k, v[k]) THEN v[k] ELSE Gone]

MutTriggersFire(triggers, status, before, subagent) ==
  "needs_help" \in triggers /\ status = NeedsHelp

TriggersFire(triggers, status, before, subagent) ==
  \/ /\ "needs_help" \in triggers
     /\ status = NeedsHelp /\ before # NeedsHelp
  \/ /\ "done" \in triggers
     /\ status = Done /\ before # Done /\ ~subagent
  \/ /\ "subagent_done" \in triggers
     /\ status = Done /\ before # Done /\ subagent
  \/ /\ "any_status" \in triggers
     /\ before # Gone /\ before # status

\* The keys whose visible status fires, given what was seen before.
Edge(triggers, before, now) ==
  {k \in Keys : /\ now[k] # Gone
                /\ TriggersFire(triggers, now[k], before[k], k \in Subagents)}

-----------------------------------------------------------------------------
(***************************************************************************)
(* What makes a thread publish.                                            *)
(***************************************************************************)
Goto(t, label) == pc' = [pc EXCEPT ![t] = label]

Quiet == \A t \in Publishers : pc[t] = "idle"

\* The configuration asks for a notification when a session needs help.
Alerting(c) == c.notifications /\ "needs_help" \in c.notification_trigger

\* Publishes begun, counted against the bound.
Begun == revision + Cardinality(
           {t \in Publishers : pc[t] \notin {"idle", "deliver"}})

Begin(t) ==
  /\ pc[t] = "idle"
  /\ Begun < MaxRevision
  /\ Goto(t, "read")
  /\ solo' = IF Quiet THEN {t} ELSE {}
  /\ overlap' = IF Quiet THEN overlap ELSE TRUE

\* A source changes and its sink publishes on the same thread.
Change(t, k, status) ==
  /\ Begin(t)
  /\ source[k] # status
  /\ source' = [source EXCEPT ![k] = status]
  /\ asked' = IF status = NeedsHelp THEN [asked EXCEPT ![k] = @ + 1]
                                    ELSE asked
  /\ due' = IF status = NeedsHelp /\ Alerting(config) THEN due \cup {k}
                                                      ELSE due \ {k}
  /\ UNCHANGED <<config, revision, previous, alarm_previous, channel, local,
                 muted>>

\* refresh(), after a command.
Refresh(t) ==
  /\ Begin(t)
  /\ UNCHANGED <<shared, local, asked, due, muted>>

\* set_config replaces the settings and publishes nothing.
SetConfig(c) ==
  /\ c # config
  /\ config' = c
  /\ due' = IF Alerting(c) THEN due ELSE {}
  /\ solo' = {}
  /\ muted' = IF config.notifications /\ ~c.notifications
              THEN muted \cup {k \in Keys : previous[k] = NeedsHelp}
              ELSE muted
  /\ UNCHANGED <<source, revision, previous, alarm_previous, channel, pc, local,
                 asked, overlap>>

-----------------------------------------------------------------------------
(***************************************************************************)
(* publish.                                                                *)
(***************************************************************************)
ReadSources(t) ==
  /\ pc[t] = "read"
  /\ view' = [view EXCEPT ![t] = source]
  /\ Goto(t, "render")
  /\ UNCHANGED <<shared, update, settings, history>>

Render(t) ==
  /\ pc[t] = "render"
  /\ update' = [update EXCEPT ![t].snapshot = Visible(config, view[t])]
  /\ Goto(t, "notify")
  /\ UNCHANGED <<shared, view, settings, history>>

\* The memory is kept up to date while notifications are off.
MutNotificationSettings(t) ==
  /\ pc[t] = "notify"
  /\ IF config.notifications
     THEN /\ settings' = [settings EXCEPT ![t] = config]
          /\ Goto(t, "edge")
          /\ UNCHANGED previous
     ELSE /\ previous' = Visible(config, view[t])
          /\ Goto(t, "alarm")
          /\ UNCHANGED settings
  /\ UNCHANGED <<source, config, revision, alarm_previous, channel, view, update,
                 history>>

\* While notifications are off there is no edge: its memory keeps what it saw.
NotificationSettings(t) ==
  /\ pc[t] = "notify"
  /\ IF config.notifications
     THEN Goto(t, "edge") /\ settings' = [settings EXCEPT ![t] = config]
     ELSE Goto(t, "alarm") /\ UNCHANGED settings
  /\ UNCHANGED <<shared, view, update, history>>

\* The edge never forgets a session that is gone.
MutNotificationEdge(t) ==
  LET seen == Visible(settings[t], view[t]) IN
  /\ pc[t] = "edge"
  /\ Goto(t, "alarm")
  /\ update' = [update EXCEPT ![t].notifications =
                  Edge(settings[t].notification_trigger, previous, seen)]
  /\ previous' = [k \in Keys |-> IF seen[k] = Gone THEN previous[k] ELSE seen[k]]
  /\ settings' = [settings EXCEPT ![t] = Unread]
  /\ UNCHANGED <<source, config, revision, alarm_previous, channel, view,
                 history>>

\* The edge fires and remembers by the settings it has taken, whatever the user
\* has chosen since.
NotificationEdge(t) ==
  LET seen == Visible(settings[t], view[t]) IN
  /\ pc[t] = "edge"
  /\ Goto(t, "alarm")
  /\ update' = [update EXCEPT ![t].notifications =
                  Edge(settings[t].notification_trigger, previous, seen)]
  /\ previous' = seen
  /\ settings' = [settings EXCEPT ![t] = Unread]
  /\ muted' = IF config.notifications
              THEN muted
              ELSE muted \cup {k \in Keys : seen[k] = NeedsHelp}
  /\ UNCHANGED <<source, config, revision, alarm_previous, channel, view, asked,
                 due, solo, overlap>>

AlarmSettings(t) ==
  /\ pc[t] = "alarm"
  /\ IF config.alarms_enabled
     THEN Goto(t, "sound") /\ settings' = [settings EXCEPT ![t] = config]
     ELSE Goto(t, "number") /\ UNCHANGED settings
  /\ UNCHANGED <<shared, view, update, history>>

AlarmEdge(t) ==
  LET seen == Visible(settings[t], view[t]) IN
  /\ pc[t] = "sound"
  /\ Goto(t, "number")
  /\ update' = [update EXCEPT ![t].alarms =
                  Edge(settings[t].alarm_trigger, alarm_previous, seen)]
  /\ alarm_previous' = seen
  /\ settings' = [settings EXCEPT ![t] = Unread]
  /\ UNCHANGED <<source, config, revision, previous, channel, view, history>>

\* The counter is read and not advanced.
MutNumber(t) ==
  /\ pc[t] = "number"
  /\ update' = [update EXCEPT ![t].revision = revision + 1]
  /\ Goto(t, "deliver")
  /\ UNCHANGED <<shared, view, settings, history>>

\* The counter runs down.
MutNumberDown(t) ==
  /\ pc[t] = "number"
  /\ revision' = revision - 1
  /\ Goto(t, "deliver")
  /\ UNCHANGED <<source, config, previous, alarm_previous, channel, local,
                 history>>

\* fetch_add(1) + 1
Number(t) ==
  /\ pc[t] = "number"
  /\ revision' = revision + 1
  /\ update' = [update EXCEPT ![t].revision = revision']
  /\ Goto(t, "deliver")
  /\ UNCHANGED <<source, config, previous, alarm_previous, channel, view,
                 settings, history>>

Deliver(t) ==
  /\ pc[t] = "deliver"
  /\ channel' = Append(channel, update[t])
  /\ due' = due \ update[t].notifications
  /\ Goto(t, "idle")
  /\ view' = [view EXCEPT ![t] = NoSessions]
  /\ update' = [update EXCEPT ![t] = NoUpdate]
  /\ UNCHANGED <<source, config, revision, previous, alarm_previous, settings,
                 asked, solo, overlap, muted>>

Publish(t) ==
  \/ ReadSources(t)
  \/ Render(t)
  \/ NotificationSettings(t)
  \/ NotificationEdge(t)
  \/ AlarmSettings(t)
  \/ AlarmEdge(t)
  \/ Number(t)
  \/ Deliver(t)

\* The bound is reached and the last publish has ended.
Exhausted == Quiet /\ Begun = MaxRevision /\ UNCHANGED vars

Next ==
  \/ \E t \in Publishers :
       \/ \E k \in Keys, s \in Statuses \cup {Gone} : Change(t, k, s)
       \/ Refresh(t)
       \/ Publish(t)
  \/ \E c \in Configs : SetConfig(c)
  \/ Exhausted

Spec == Init /\ [][Next]_vars

-----------------------------------------------------------------------------
(***************************************************************************)
(* What holds however publishes overlap.                                   *)
(***************************************************************************)

\* Every revision up to the counter is delivered exactly once: in the channel
\* or on its way there, never twice and never skipped.
Delivered == {channel[n].revision : n \in DOMAIN channel}
InFlight == {t \in Publishers : pc[t] = "deliver"}
EachRevisionOnce ==
  /\ \A m, n \in DOMAIN channel : channel[m].revision = channel[n].revision
                                    => m = n
  /\ \A t, u \in InFlight : update[t].revision = update[u].revision => t = u
  /\ \A t \in InFlight : update[t].revision \notin Delivered
  /\ 1 .. revision = Delivered \cup {update[t].revision : t \in InFlight}

\* A publish that overlapped no other and no change of settings repairs
\* whatever overlapping ones left behind: it carries the newest revision, the
\* sources as they are, and leaves the edge memory equal to them.
LonePublishRepairs ==
  \A t \in solo \cap InFlight :
    /\ update[t].snapshot = Visible(config, source)
    /\ \A n \in DOMAIN channel : channel[n].revision < update[t].revision
    /\ config.notifications => previous = Visible(config, source)

\* A prompt enters the edge memory only in the publish that tells of it, and
\* what a publish is to tell reaches the sink, whatever overlaps and however the
\* settings change under it.  The memory may be stale when notifications come on
\* again (PromptsAreNotified), but it never takes in a prompt in silence.
PromptsAreTold ==
  [][(\A c \in Configs : c.notifications => Alerting(c)) =>
       \A k \in Keys :
         /\ previous[k] # NeedsHelp /\ previous'[k] = NeedsHelp
              => \E t \in Publishers : k \in update'[t].notifications
         /\ \A t \in Publishers :
              k \in update[t].notifications =>
                \/ k \in update'[t].notifications
                \/ /\ Len(channel') = Len(channel) + 1
                   /\ k \in channel'[Len(channel')].notifications]_vars

\* The update with the newest revision is the one a client renders.
Newest == CHOOSE u \in {channel[n] : n \in DOMAIN channel} :
            \A n \in DOMAIN channel : channel[n].revision <= u.revision

\* A client that renders the newest revision shows what the sources hold once
\* a publish was alone and nothing has begun or been set since, however stale
\* the newest revisions of overlapping publishes before it were.
NewestIsCurrent ==
  Quiet /\ solo # {} => Newest.snapshot = Visible(config, source)

(***************************************************************************)
(* What holds until two publishes overlap; the documents say it without    *)
(* that condition.                                                         *)
(***************************************************************************)

\* An entry into needs_help fires at most once, however notifications are
\* turned off and on and whatever else triggers them: no session's prompt has
\* been announced more often than it began to ask for help.
Prompts(k) == {n \in DOMAIN channel : /\ k \in channel[n].notifications
                                      /\ channel[n].snapshot[k] = NeedsHelp}
NotifiedOncePerEntry ==
  ~overlap => \A k \in Keys : Cardinality(Prompts(k)) <= asked[k]

\* The prompts that go unannounced are those of sessions the edge has held as
\* asking while notifications were off, because they were turned off over them
\* or under an edge that had taken the settings before; without that, whoever
\* asked while notifications were on has been announced once nothing is being
\* published.
OnlyMutedAreMissed == Quiet /\ ~overlap => due \subseteq muted

(***************************************************************************)
(* What engine.rs says of triggers_fire: "NeedsHelp fires on entering the  *)
(* status even when first seen".                                           *)
(***************************************************************************)

\* A session that asked for help while notifications were on, and still asks,
\* has been announced by the time nothing is being published.
PromptsAreNotified == Quiet => due = {}

=============================================================================
