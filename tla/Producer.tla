------------------------------ MODULE Producer -------------------------------
(***************************************************************************)
(* A producer and its hub: the OpenCode plugin (plugins/opencode,          *)
(* agentlight-v2.js), the requests it has in flight, and the push source   *)
(* as PushStore.tla promises it.                                           *)
(*                                                                         *)
(* The plugin handles the events of OpenCode one at a time; tool hooks,    *)
(* timers and heartbeats run whenever it waits for an answer.  It sends a  *)
(* changed status once, and everything it knows with each heartbeat.       *)
(* Requests may be lost, and may reach the hub in another order; hub and   *)
(* plugin may restart and forget everything; a user dismisses sessions.    *)
(*                                                                         *)
(* A session is its status; names, paths and links go with it.             *)
(*                                                                         *)
(* Operators named Mut... are bugs that a property of some run must catch; *)
(* no other definition uses them.                                          *)
(***************************************************************************)
EXTENDS Integers, Sequences, FiniteSets, SequencesExt

CONSTANTS
  PluginSessions,    \* session ids of this OpenCode
  Children,          \* the ones a tool has spawned
  RemovedCap,        \* how many tombstones the hub keeps
  MAX_DONE_SESSIONS, \* how many done sessions a heartbeat carries
  MaxEvents,         \* bound on the events of OpenCode
  MaxFaults,         \* bound on lost requests and restarts
  MaxDismissals,     \* bound on what the hub's user does
  MaxUpserts,        \* bound on the single statuses in flight
  MaxBeats           \* bound on the heartbeats in flight

ASSUME ProducerAssumption ==
  /\ Children \subseteq PluginSessions
  /\ IsFiniteSet(PluginSessions)
  /\ RemovedCap \in Nat \ {0} /\ MAX_DONE_SESSIONS \in Nat \ {0}
  /\ MaxEvents \in Nat /\ MaxFaults \in Nat /\ MaxDismissals \in Nat
  /\ MaxUpserts \in Nat \ {0} /\ MaxBeats \in Nat \ {0}

VARIABLES
  known,    \* sessions: the last status reported of each
  order,    \* the sessions that have one, by the time of it, newest last
  parent,   \* whether a session is known to be spawned by a tool
  pending,  \* sessions whose status waits for its timer
  awaiting, \* sessions with a prompt that was not answered
  handler,  \* the session whose idle event is being looked up, or NoLookup
  posts,    \* requests on their way to the hub, or waiting to be sent until the
            \* parent of their session is known
  hub_sessions, hub_producers, hub_tombstones, \* the hub's push source
  events, faults, dismissals

hubState == <<hub_sessions, hub_producers, hub_tombstones>>
pluginState == <<known, order, parent, pending, awaiting, handler>>
producerVars == <<pluginState, posts, hubState, events, faults, dismissals>>

Me == "opencode"
PluginStatuses == {"needs_help", "active", "inactive", "done"}
Unknown == "unknown"
NoLookup == "none"

Hub == INSTANCE PushStore WITH
  sessions <- hub_sessions, producers <- hub_producers,
  tombstones <- hub_tombstones, SessionIds <- PluginSessions,
  Producers <- {Me}, NoProducer <- "nobody", Statuses <- PluginStatuses,
  Done <- "done", NoSession <- "absent", MAX_REMOVED <- RemovedCap

ProducerInit ==
  /\ known = [i \in PluginSessions |-> Unknown]
  /\ order = <<>>
  /\ parent = [i \in PluginSessions |-> Unknown]
  /\ pending = {} /\ awaiting = {}
  /\ handler = NoLookup
  /\ posts = <<>>
  /\ Hub!Init
  /\ events = 0 /\ faults = 0 /\ dismissals = 0

-----------------------------------------------------------------------------
(***************************************************************************)
(* Events of OpenCode.                                                     *)
(***************************************************************************)
Event == events < MaxEvents /\ events' = events + 1

\* An event of the stream: the one before it has been handled.
Handled == Event /\ handler = NoLookup

\* Remember the status, and send it when the timer ends.
Report(i, status) ==
  /\ known' = [known EXCEPT ![i] = status]
  /\ order' = Append(SelectSeq(order, LAMBDA j : j # i), i)
  /\ pending' = pending \cup {i}

eventRest == <<posts, hubState, faults, dismissals>>

\* The events are not handled one at a time.
MutPrompt(i) ==
  /\ Event
  /\ awaiting' = awaiting \cup {i}
  /\ Report(i, "needs_help")
  /\ UNCHANGED <<parent, handler, eventRest>>

\* permission.asked, form.created, question.asked
Prompt(i) ==
  /\ Handled
  /\ awaiting' = awaiting \cup {i}
  /\ Report(i, "needs_help")
  /\ UNCHANGED <<parent, handler, eventRest>>

\* permission.replied, form.replied, question.replied
Reply(i) ==
  /\ Handled
  /\ awaiting' = awaiting \ {i}
  /\ Report(i, "active")
  /\ UNCHANGED <<parent, handler, eventRest>>

\* execution.started and a busy status; a tool hook does the same and waits
\* for nothing.
Busy(i) ==
  /\ Event
  /\ Report(i, "active")
  /\ UNCHANGED <<parent, awaiting, handler, eventRest>>

\* execution.failed, session.error
ExecutionFailed(i) ==
  /\ Handled
  /\ Report(i, "needs_help")
  /\ UNCHANGED <<parent, awaiting, handler, eventRest>>

Kinship(i) == IF i \in Children THEN "child" ELSE "main"

\* What is known of i's parent once the plugin was told of i, or has asked: the
\* truth, or what was known if nothing was said of it, which is then that it
\* has none if nothing was known.
Learned(i) == {Kinship(i), IF parent[i] = Unknown THEN "main" ELSE parent[i]}

\* An event that may tell i's parent.
Tell(i) == \E kinship \in Learned(i) \cup {parent[i]} :
             parent' = [parent EXCEPT ![i] = kinship]

\* session.deleted, with the session or with its id alone.
SessionDeleted(i) ==
  /\ Handled
  /\ awaiting' = awaiting \ {i}
  /\ Tell(i)
  /\ Report(i, "done")
  /\ UNCHANGED <<handler, eventRest>>

\* session.created and session.updated, with or without a parent, and
\* session.renamed, which leaves it.
Remember(i) ==
  /\ Handled
  /\ known' = [known EXCEPT ![i] = IF @ = Unknown THEN "none" ELSE @]
  /\ Tell(i)
  /\ UNCHANGED <<order, pending, awaiting, handler, eventRest>>

IdleStatus(kinship) == IF kinship = "child" THEN "done" ELSE "inactive"

\* idle, execution.succeeded; form.cancelled and question.rejected take the
\* prompt back first.  Without a prompt the status depends on the parent,
\* which may have to be asked for.
Idle(i) ==
  /\ Handled
  /\ awaiting' \in {awaiting, awaiting \ {i}}
  /\ \/ /\ i \in awaiting'
        /\ Report(i, "needs_help") /\ UNCHANGED handler
     \/ /\ i \notin awaiting' /\ parent[i] # Unknown
        /\ Report(i, IdleStatus(parent[i])) /\ UNCHANGED handler
     \/ /\ i \notin awaiting' /\ parent[i] = Unknown
        /\ handler' = i /\ UNCHANGED <<known, order, pending>>
  /\ UNCHANGED <<parent, eventRest>>

\* getSession has answered or failed.
LookedUp ==
  /\ handler # NoLookup
  /\ \E kinship \in Learned(handler) :
       /\ parent' = [parent EXCEPT ![handler] = kinship]
       /\ Report(handler, IdleStatus(kinship))
  /\ handler' = NoLookup
  /\ UNCHANGED <<awaiting, events, eventRest>>

-----------------------------------------------------------------------------
(***************************************************************************)
(* Requests.                                                               *)
(***************************************************************************)

\* Parents that are not known are asked for first.
EnsureParentKnown(S) ==
  parent' \in {p \in [PluginSessions -> {"main", "child", Unknown}] :
                 \A i \in PluginSessions :
                   IF i \in S /\ parent[i] = Unknown THEN p[i] \in Learned(i)
                                                     ELSE p[i] = parent[i]}

InFlight(mode) == Cardinality({k \in DOMAIN posts : posts[k].mode = mode})

EventOf(status) == [status   |-> IF status = "none" THEN "inactive" ELSE status,
                    producer |-> Me]

\* The timer of i: its status is taken, and sent as soon as its parent is known.
Flush(i) ==
  /\ i \in pending /\ InFlight("asking") + InFlight("upsert") < MaxUpserts
  /\ pending' = pending \ {i}
  /\ posts' = Append(posts, [mode |-> IF parent[i] = Unknown THEN "asking"
                                                            ELSE "upsert",
                             events |-> [j \in {i} |-> EventOf(known[j])]])
  /\ UNCHANGED <<known, order, parent, awaiting, handler, hubState, events,
                 faults, dismissals>>

\* It is sent once, and a failure is not looked at.
SendUpsert(k) ==
  /\ posts[k].mode = "asking"
  /\ EnsureParentKnown(DOMAIN posts[k].events)
  /\ posts' = Append(RemoveAt(posts, k), [posts[k] EXCEPT !.mode = "upsert"])
  /\ UNCHANGED <<known, order, pending, awaiting, handler, hubState, events,
                 faults, dismissals>>

KnownSessions == {i \in PluginSessions : known[i] # Unknown}
DoneSessions == {i \in PluginSessions : known[i] = "done"}

\* All done sessions are left out but for the newest.
NewestDone ==
  {order[n] : n \in {m \in DOMAIN order :
     /\ order[m] \in DoneSessions
     /\ Cardinality({k \in m + 1 .. Len(order) : order[k] \in DoneSessions})
          < MAX_DONE_SESSIONS}}

SnapshotEvents ==
  [i \in (KnownSessions \ DoneSessions) \cup NewestDone |-> EventOf(known[i])]

\* Only what waits for its timer is sent.
MutSendSnapshot ==
  /\ pending # {} /\ InFlight("snapshot") < MaxBeats
  /\ EnsureParentKnown(KnownSessions)
  /\ posts' = Append(posts, [mode |-> "snapshot",
                             events |-> [i \in pending |-> EventOf(known[i])]])
  /\ UNCHANGED <<known, order, pending, awaiting, handler, hubState, events,
                 faults, dismissals>>

\* A heartbeat; with nothing known nothing is sent.
SendSnapshot ==
  /\ KnownSessions # {} /\ InFlight("snapshot") < MaxBeats
  /\ EnsureParentKnown(KnownSessions)
  /\ posts' = Append(posts, [mode |-> "snapshot", events |-> SnapshotEvents])
  /\ UNCHANGED <<known, order, pending, awaiting, handler, hubState, events,
                 faults, dismissals>>

\* The hub executes a request.
Ingest(k) ==
  /\ LET batch == [events |-> posts[k].events, producer |-> Me]
     IN  \/ posts[k].mode = "upsert" /\ Hub!Apply(batch)
         \/ posts[k].mode = "snapshot" /\ Hub!ApplySnapshot(batch)
  /\ posts' = RemoveAt(posts, k)
  /\ UNCHANGED <<pluginState, events, faults, dismissals>>

Fails == faults < MaxFaults /\ faults' = faults + 1

LosePost(k) ==
  /\ Fails /\ posts[k].mode # "asking"
  /\ posts' = RemoveAt(posts, k)
  /\ UNCHANGED <<pluginState, hubState, events, dismissals>>

-----------------------------------------------------------------------------
(***************************************************************************)
(* The hub's user, and restarts.                                           *)
(***************************************************************************)
Dismiss ==
  /\ dismissals < MaxDismissals /\ dismissals' = dismissals + 1
  /\ Hub!ClearDone \/ \E i \in PluginSessions : Hub!RemoveSession(i)
  /\ UNCHANGED <<pluginState, posts, events, faults>>

\* A hub without a store forgets everything.
HubForgets ==
  /\ Fails
  /\ hub_sessions' = [i \in PluginSessions |-> "absent"]
  /\ hub_producers' = [i \in PluginSessions |-> "nobody"]
  /\ hub_tombstones' = {}
  /\ UNCHANGED <<pluginState, posts, events, dismissals>>

\* The plugin is unloaded and loaded again; what was sent is on its way still.
PluginRestart ==
  /\ Fails
  /\ known' = [i \in PluginSessions |-> Unknown]
  /\ order' = <<>>
  /\ parent' = [i \in PluginSessions |-> Unknown]
  /\ pending' = {} /\ awaiting' = {} /\ handler' = NoLookup
  /\ posts' = SelectSeq(posts, LAMBDA r : r.mode # "asking")
  /\ UNCHANGED <<hubState, events, dismissals>>

ProducerNext ==
  \/ \E i \in PluginSessions :
       \/ Prompt(i) \/ Reply(i) \/ Busy(i) \/ ExecutionFailed(i)
       \/ SessionDeleted(i) \/ Remember(i) \/ Idle(i) \/ Flush(i)
  \/ LookedUp \/ SendSnapshot
  \/ \E k \in DOMAIN posts : SendUpsert(k) \/ Ingest(k) \/ LosePost(k)
  \/ Dismiss \/ HubForgets \/ PluginRestart

\* The requests sent first reach the hub at last, and what waits longest to be
\* sent is.
IngestFirst ==
  \E k \in DOMAIN posts : /\ \A j \in 1 .. k - 1 : posts[j].mode = "asking"
                         /\ Ingest(k)
SendFirst ==
  \E k \in DOMAIN posts : /\ \A j \in 1 .. k - 1 : posts[j].mode # "asking"
                         /\ SendUpsert(k)

-----------------------------------------------------------------------------
\* The plugin never takes a session with an unanswered prompt for a finished or
\* paused one: what it holds of it, and reports from then on with timers and
\* heartbeats, is that it needs help, and only a sign of work may overwrite
\* that, never an idle event, whose answer may have to wait.  A request that
\* was under way before may still show the session otherwise for a while.
PromptIsNotFinished ==
  \A i \in awaiting : known[i] \in {"needs_help", "active"}

\* Once OpenCode is quiet the hub shows what the plugin knows, however requests
\* were lost, delayed or reordered and whoever restarted: the sessions that a
\* heartbeat carries, without the ones the user dismissed, and no others of
\* this producer.  A plugin that knows nothing sends nothing.
HubShowsPlugin ==
  KnownSessions # {} =>
    \A i \in PluginSessions :
      hub_sessions[i] = IF i \in DOMAIN SnapshotEvents \ hub_tombstones
                        THEN SnapshotEvents[i].status ELSE "absent"
Converges == <>[]HubShowsPlugin

=============================================================================
