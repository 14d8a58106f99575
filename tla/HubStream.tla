----------------------------- MODULE HubStream ------------------------------
(***************************************************************************)
(* The hub's event stream and the page that follows it: the SSE handler    *)
(* `events' (agentlight-server/src/routes.rs), the broadcast channel       *)
(* behind it (app.rs), and the script of client.html.                      *)
(*                                                                         *)
(* The engine's sink is the broadcast sender, so `channel' of Engine.tla   *)
(* is the broadcast channel: a receiver is a position in it, and falls     *)
(* behind when more than Capacity updates wait.  Frames reach a page in    *)
(* order; taking an update off the channel and handling its frame in the   *)
(* page are one step.  A fetched snapshot travels on a connection of its   *)
(* own and is not ordered with the frames.                                 *)
(*                                                                         *)
(* A page that has not rendered anything shows no sessions.  Pairing and   *)
(* tokens are left out: every request is authorised.  The hub is a process *)
(* of its own, whose settings do not change while it runs; those of the    *)
(* server a desktop embeds do.                                             *)
(***************************************************************************)
EXTENDS Engine

CONSTANTS
  Pages,        \* open browser pages
  Capacity,     \* EVENT_CHANNEL_CAPACITY
  MaxRestarts   \* bound on the number of hub restarts explored

ASSUME StreamAssumption ==
  /\ Capacity \in Nat \ {0}
  /\ MaxRestarts \in Nat

VARIABLES
  conn,          \* how far the page's request is in the `events' handler
  seed,          \* the frame the handler computes before it subscribes
  position,      \* updates of the channel the receiver is past
  last_revision, \* the page's lastRevision
  shown,         \* the sessions the page shows
  wanted,        \* whether a snapshot request of the page is unserved
  replies,       \* snapshots on their way to the page
  restarts       \* hub restarts so far

page == <<conn, seed, position, last_revision, shown, wanted, replies>>
hubVars == <<vars, page, restarts>>

Conns == {"closed", "seed", "load", "subscribe", "greet", "open"}

HubTypeOK ==
  /\ TypeOK
  /\ conn \in [Pages -> Conns]
  /\ seed \in [Pages -> [revision : Nat, snapshot : View]]
  /\ position \in [Pages -> Nat]
  /\ last_revision \in [Pages -> Nat \cup {-1}]
  /\ shown \in [Pages -> View]
  /\ wanted \in SUBSET Pages
  /\ replies \in [Pages -> SUBSET View]
  /\ restarts \in 0 .. MaxRestarts

NoSeed == [revision |-> 0, snapshot |-> NoSessions]

HubInit ==
  /\ Init
  /\ conn = [c \in Pages |-> "closed"]
  /\ seed = [c \in Pages |-> NoSeed]
  /\ position = [c \in Pages |-> 0]
  /\ last_revision = [c \in Pages |-> -1]
  /\ shown = [c \in Pages |-> NoSessions]
  /\ wanted = {}
  /\ replies = [c \in Pages |-> {}]
  /\ restarts = 0

Advance(c, label) == conn' = [conn EXCEPT ![c] = label]

-----------------------------------------------------------------------------
(***************************************************************************)
(* The events handler: current_update() first (it renders, then loads the  *)
(* revision), then the subscription, then the frames.                      *)
(***************************************************************************)
SeedRender(c) ==
  /\ conn[c] = "seed"
  /\ seed' = [seed EXCEPT ![c].snapshot = Visible(config, source)]
  /\ Advance(c, "load")
  /\ UNCHANGED <<vars, position, last_revision, shown, wanted, replies,
                 restarts>>

\* The seed takes a revision of its own.
MutSeedRevision(c) ==
  /\ conn[c] = "load"
  /\ seed' = [seed EXCEPT ![c].revision = revision + 1]
  /\ Advance(c, "subscribe")
  /\ UNCHANGED <<vars, position, last_revision, shown, wanted, replies,
                 restarts>>

SeedRevision(c) ==
  /\ conn[c] = "load"
  /\ seed' = [seed EXCEPT ![c].revision = revision]
  /\ Advance(c, "subscribe")
  /\ UNCHANGED <<vars, position, last_revision, shown, wanted, replies,
                 restarts>>

\* A new receiver starts at the tail of the channel.
Subscribe(c) ==
  /\ conn[c] = "subscribe"
  /\ position' = [position EXCEPT ![c] = Len(channel)]
  /\ Advance(c, "greet")
  /\ UNCHANGED <<vars, seed, last_revision, shown, wanted, replies, restarts>>

-----------------------------------------------------------------------------
(***************************************************************************)
(* The page.                                                               *)
(***************************************************************************)

\* A frame without sessions leaves the page as it is.
MutShowFrame(c, u) ==
  IF u.revision > last_revision[c]
  THEN /\ last_revision' = [last_revision EXCEPT ![c] = u.revision]
       /\ shown' = IF u.snapshot = NoSessions
                   THEN shown
                   ELSE [shown EXCEPT ![c] = u.snapshot]
  ELSE UNCHANGED <<last_revision, shown>>

\* An update the page has seen, or a newer one than which it has seen, is
\* ignored.
ShowFrame(c, u) ==
  IF u.revision > last_revision[c]
  THEN /\ last_revision' = [last_revision EXCEPT ![c] = u.revision]
       /\ shown' = [shown EXCEPT ![c] = u.snapshot]
  ELSE UNCHANGED <<last_revision, shown>>

\* start(): fetch the snapshot and open the stream.
Start(c) ==
  /\ conn[c] = "closed"
  /\ Advance(c, "seed")
  /\ last_revision' = [last_revision EXCEPT ![c] = -1]
  /\ wanted' = wanted \cup {c}
  /\ UNCHANGED <<vars, seed, position, shown, replies, restarts>>

Greet(c) ==
  /\ conn[c] = "greet"
  /\ ShowFrame(c, seed[c])
  /\ Advance(c, "open")
  /\ UNCHANGED <<vars, seed, position, wanted, replies, restarts>>

Behind(c) == Len(channel) - position[c]

Receive(c) ==
  /\ conn[c] = "open"
  /\ Behind(c) \in 1 .. Capacity
  /\ ShowFrame(c, channel[position[c] + 1])
  /\ position' = [position EXCEPT ![c] = @ + 1]
  /\ UNCHANGED <<vars, conn, seed, wanted, replies, restarts>>

\* A receiver that fell behind skips to the newest update of all.
MutLag(c) ==
  /\ conn[c] = "open"
  /\ Behind(c) > Capacity
  /\ position' = [position EXCEPT ![c] = Len(channel)]
  /\ UNCHANGED <<vars, conn, seed, last_revision, shown, wanted, replies,
                 restarts>>

\* The receiver fell behind: it goes on at the oldest update the channel still
\* holds, and the page fetches the snapshot.
Lag(c) ==
  /\ conn[c] = "open"
  /\ Behind(c) > Capacity
  /\ position' = [position EXCEPT ![c] = Len(channel) - Capacity]
  /\ wanted' = wanted \cup {c}
  /\ UNCHANGED <<vars, conn, seed, last_revision, shown, replies, restarts>>

\* GET /api/v1/snapshot reads the sources when it is served; the page renders
\* the reply when it comes.
ServeSnapshot(c) ==
  /\ c \in wanted
  /\ wanted' = wanted \ {c}
  /\ replies' = [replies EXCEPT ![c] = @ \cup {Visible(config, source)}]
  /\ UNCHANGED <<vars, conn, seed, position, last_revision, shown, restarts>>

ShowReply(c, snapshot) ==
  /\ snapshot \in replies[c]
  /\ replies' = [replies EXCEPT ![c] = @ \ {snapshot}]
  /\ shown' = [shown EXCEPT ![c] = snapshot]
  /\ UNCHANGED <<vars, conn, seed, position, last_revision, wanted, restarts>>

\* The stream breaks and the browser's EventSource opens it again; the page
\* keeps what it shows and its lastRevision.
Reconnect(c) ==
  /\ conn[c] \notin {"closed", "seed"}
  /\ Advance(c, "seed")
  /\ seed' = [seed EXCEPT ![c] = NoSeed]
  /\ position' = [position EXCEPT ![c] = 0]
  /\ UNCHANGED <<vars, last_revision, shown, wanted, replies, restarts>>

-----------------------------------------------------------------------------
\* The hub stops and starts again: its sources come back as they were, its
\* revisions from zero; streams and requests break and the browsers reconnect.
HubRestart ==
  /\ restarts < MaxRestarts
  /\ restarts' = restarts + 1
  /\ revision' = 0
  /\ previous' = NoSessions
  /\ alarm_previous' = NoSessions
  /\ channel' = <<>>
  /\ pc' = [t \in Publishers |-> "idle"]
  /\ view' = [t \in Publishers |-> NoSessions]
  /\ update' = [t \in Publishers |-> NoUpdate]
  /\ settings' = [t \in Publishers |-> Unread]
  /\ asked' = [k \in Keys |-> 0]
  /\ due' = {}
  /\ solo' = {}
  /\ overlap' = FALSE
  /\ muted' = {}
  /\ conn' = [c \in Pages |-> IF conn[c] = "closed" THEN "closed" ELSE "seed"]
  /\ seed' = [c \in Pages |-> NoSeed]
  /\ position' = [c \in Pages |-> 0]
  /\ wanted' = {}
  /\ replies' = [c \in Pages |-> {}]
  /\ UNCHANGED <<source, config, last_revision, shown>>

Handler(c) == SeedRender(c) \/ SeedRevision(c) \/ Subscribe(c)

Script(c) ==
  \/ Start(c)
  \/ Greet(c)
  \/ Receive(c)
  \/ Lag(c)
  \/ ServeSnapshot(c)
  \/ \E v \in replies[c] : ShowReply(c, v)
  \/ Reconnect(c)

EngineNext == Next /\ UNCHANGED <<page, restarts>>

HubNext ==
  \/ EngineNext
  \/ \E c \in Pages : Handler(c) \/ Script(c)
  \/ HubRestart

HubSpec == HubInit /\ [][HubNext]_hubVars

-----------------------------------------------------------------------------
(***************************************************************************)
(* What holds of a page.                                                   *)
(***************************************************************************)

Current(c) == shown[c] = Visible(config, source)

\* While the hub stays up no page is ahead of it: whatever the seeds, the lags
\* and the reconnections, the next update is newer than what the page has
\* seen, so the page will not ignore it.
NoneAhead == \A c \in Pages : last_revision[c] <= revision
NextUpdateIsNews == restarts = 0 => NoneAhead

\* Until two publishes overlap, a page that renders the last frame with nothing
\* under way shows what the sources hold, whatever it showed before, seed gaps
\* and late snapshots included, unless the settings have changed since the
\* last publish.
RenderingCatchesUp ==
  [][\A c \in Pages :
       /\ Receive(c) /\ last_revision'[c] # last_revision[c]
       /\ Quiet /\ position'[c] = Len(channel)
       /\ ~overlap /\ solo # {}
       => Current(c)']_hubVars

\* What a lagging page passes over is never the newest update: until two
\* publishes overlap, a page that has caught up with the channel has seen the
\* newest revision there is.
CatchingUpSeesNewest ==
  [][\A c \in Pages :
       /\ conn[c] = "open" /\ conn'[c] = "open"
       /\ Behind(c) > 0 /\ Behind(c)' = 0 /\ ~overlap
       => last_revision'[c] >= Newest.revision]_hubVars

(***************************************************************************)
(* What docs/protocol.md says: "revision is a monotonic u64", so a client  *)
(* can ignore revisions that are not newer than the newest it has seen.    *)
(***************************************************************************)

\* No update that is still to be published will be ignored by an open page.
UpdatesAreNews == NoneAhead

=============================================================================
