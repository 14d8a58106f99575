-------------------------- MODULE HubStreamProofs ---------------------------
(***************************************************************************)
(* What holds of the hub's pages for any number of pages and publishing    *)
(* threads, any capacity of the channel and any restarts: types, no page   *)
(* is ahead of the hub, and catching up.                                   *)
(***************************************************************************)
EXTENDS HubStream, EngineProofs

-----------------------------------------------------------------------------
(***************************************************************************)
(* The engine below the pages.                                             *)
(***************************************************************************)

\* What is known of the engine.
EngineInv == TypeOK /\ EachRevisionOnce /\ LoneInv /\ DoneInv /\ Serial

\* An engine that starts, at first or again, has published nothing.
Started ==
  /\ revision = 0 /\ channel = <<>>
  /\ previous = NoSessions /\ alarm_previous = NoSessions
  /\ pc = [t \in Publishers |-> "idle"]
  /\ view = [t \in Publishers |-> NoSessions]
  /\ update = [t \in Publishers |-> NoUpdate]
  /\ settings = [t \in Publishers |-> Unread]
  /\ asked = [k \in Keys |-> 0]
  /\ due = {} /\ solo = {} /\ overlap = FALSE /\ muted = {}

\* That is a state the engine may be in.
LEMMA StartedInv ==
  ASSUME Started, source \in View, config \in Configs
  PROVE  EngineInv
<1>1. TypeOK
  <2>1. overlap \in BOOLEAN
    BY Zenon DEF Started
  <2>2. QED
    BY <2>1, EmptyType DEF Started, TypeOK, PCs
<1>2. QED
  BY <1>1 DEF Started, EngineInv, EachRevisionOnce, Delivered, InFlight, LoneInv,
              DoneInv, Serial

\* And after a restart.
LEMMA RestartedInv ==
  ASSUME Started', source' \in View, config' \in Configs
  PROVE  EngineInv'
<1>1. TypeOK'
  <2>1. overlap' \in BOOLEAN
    BY Zenon DEF Started
  <2>2. QED
    BY <2>1, EmptyType DEF Started, TypeOK, PCs
<1>2. QED
  BY <1>1 DEF Started, EngineInv, EachRevisionOnce, Delivered, InFlight, LoneInv,
              DoneInv, Serial

\* A step of the hub is a step of its engine, none at all for it, or a restart.
LEMMA HubStepIsEngineStep ==
  [HubNext]_hubVars => [Next]_vars \/ HubRestart
BY Zenon DEF HubNext, EngineNext, hubVars, Handler, Script, SeedRender, SeedRevision,
   Subscribe, Start, Greet, Receive, Lag, ServeSnapshot, ShowReply, Reconnect

\* The engine is as it was alone, below any pages and through any restart.
LEMMA EngineStep ==
  EngineInv /\ [HubNext]_hubVars => EngineInv'
<1> SUFFICES ASSUME EngineInv, [HubNext]_hubVars
             PROVE  EngineInv'
  OBVIOUS
<1>1. CASE [Next]_vars
  BY <1>1, TypedStep, NumberingStep, LoneStep, DoneStep, SerialStep DEF EngineInv
<1>2. CASE HubRestart
  <2>1. Started' /\ UNCHANGED <<source, config>>
    BY <1>2, Zenon DEF HubRestart, Started, NoSessions, NoUpdate
  <2>2. source' \in View /\ config' \in Configs
    BY <2>1 DEF EngineInv, TypeOK
  <2>3. QED
    BY <2>1, <2>2, RestartedInv
<1>3. QED
  BY <1>1, <1>2, HubStepIsEngineStep

-----------------------------------------------------------------------------
(***************************************************************************)
(* Types of the pages.                                                     *)
(***************************************************************************)
PagesTyped ==
  /\ conn \in [Pages -> Conns]
  /\ seed \in [Pages -> [revision : Nat, snapshot : View]]
  /\ position \in [Pages -> Nat]
  /\ last_revision \in [Pages -> Nat \cup {-1}]
  /\ shown \in [Pages -> View]
  /\ wanted \in SUBSET Pages
  /\ replies \in [Pages -> SUBSET View]
  /\ restarts \in 0 .. MaxRestarts

\* A frame that is shown is well typed.
LEMMA ShowFrameTyped ==
  ASSUME PagesTyped, NEW c \in Pages, NEW u, u.revision \in Nat, u.snapshot \in View,
         ShowFrame(c, u)
  PROVE  /\ last_revision' \in [Pages -> Nat \cup {-1}]
         /\ shown' \in [Pages -> View]
BY DEF PagesTyped, ShowFrame

\* Every step keeps the types of the pages.
LEMMA PagesTypedStep ==
  EngineInv /\ PagesTyped /\ [HubNext]_hubVars => PagesTyped'
<1> SUFFICES ASSUME TypeOK, PagesTyped, [HubNext]_hubVars
             PROVE  PagesTyped'
  BY DEF EngineInv
<1>1. /\ Visible(config, source) \in View /\ NoSessions \in View
      /\ NoSeed \in [revision : Nat, snapshot : View]
  BY VisibleType, EmptyType DEF TypeOK, NoSeed
<1> USE DEF PagesTyped, Conns, Advance
<1>2. ASSUME NEW c \in Pages, SeedRender(c) \/ SeedRevision(c)
      PROVE  PagesTyped'
  <2>1. CASE SeedRender(c)
    <3> DEFINE rec == [seed[c] EXCEPT !.snapshot = Visible(config, source)]
    <3>1. rec \in [revision : Nat, snapshot : View]
      BY <1>1
    <3>2. seed' = [seed EXCEPT ![c] = rec]
      BY <2>1 DEF SeedRender
    <3> HIDE DEF rec
    <3>3. seed' \in [Pages -> [revision : Nat, snapshot : View]]
      BY <3>1, <3>2
    <3>4. QED
      BY <2>1, <3>3 DEF SeedRender
  <2>2. CASE SeedRevision(c)
    BY <2>2 DEF SeedRevision, TypeOK
  <2>3. QED
    BY <1>2, <2>1, <2>2
<1>3. ASSUME NEW c \in Pages, Subscribe(c)
      PROVE  PagesTyped'
  BY <1>3 DEF Subscribe, TypeOK
<1>4. ASSUME NEW c \in Pages, Start(c)
      PROVE  PagesTyped'
  BY <1>4 DEF Start
<1>5. ASSUME NEW c \in Pages, Greet(c)
      PROVE  PagesTyped'
  <2>1. seed[c].revision \in Nat /\ seed[c].snapshot \in View
    OBVIOUS
  <2>2. ShowFrame(c, seed[c])
    BY <1>5 DEF Greet
  <2>3. /\ last_revision' \in [Pages -> Nat \cup {-1}]
        /\ shown' \in [Pages -> View]
    BY <2>1, <2>2, ShowFrameTyped
  <2>4. QED
    BY <1>5, <2>3 DEF Greet
<1>6. ASSUME NEW c \in Pages, Receive(c)
      PROVE  PagesTyped'
  <2>1. position[c] + 1 \in DOMAIN channel
    BY <1>6, StreamAssumption DEF Receive, Behind, TypeOK
  <2>2. channel[position[c] + 1] \in Update
    BY <2>1, DeliveredTyped
  <2>3. /\ last_revision' \in [Pages -> Nat \cup {-1}]
        /\ shown' \in [Pages -> View]
    BY <1>6, <2>2, ShowFrameTyped DEF Receive, Update
  <2>4. position' \in [Pages -> Nat]
    BY <1>6 DEF Receive
  <2>5. QED
    BY <1>6, <2>3, <2>4 DEF Receive
<1>7. ASSUME NEW c \in Pages, Lag(c)
      PROVE  PagesTyped'
  <2>1. Len(channel) - Capacity \in Nat
    BY <1>7, StreamAssumption DEF Lag, Behind, TypeOK
  <2>2. position' \in [Pages -> Nat] /\ wanted' \in SUBSET Pages
    BY <1>7, <2>1 DEF Lag
  <2>3. QED
    BY <1>7, <2>2 DEF Lag
<1>8. ASSUME NEW c \in Pages, ServeSnapshot(c)
      PROVE  PagesTyped'
  BY <1>1, <1>8 DEF ServeSnapshot
<1>9. ASSUME NEW c \in Pages, NEW v \in replies[c], ShowReply(c, v)
      PROVE  PagesTyped'
  BY <1>9 DEF ShowReply
<1>10. ASSUME NEW c \in Pages, Reconnect(c)
       PROVE  PagesTyped'
  BY <1>1, <1>10 DEF Reconnect
<1>11. CASE HubRestart
  BY <1>1, <1>11, StreamAssumption DEF HubRestart
<1>12. CASE EngineNext \/ UNCHANGED hubVars
  BY <1>12 DEF EngineNext, hubVars, page
<1>13. QED
  BY <1>2, <1>3, <1>4, <1>5, <1>6, <1>7, <1>8, <1>9, <1>10, <1>11, <1>12
     DEF HubNext, Handler, Script

-----------------------------------------------------------------------------
(***************************************************************************)
(* No page is ahead of a hub that stays up.                                *)
(***************************************************************************)

\* Neither the seeds nor what the pages have seen is newer than the counter.
NothingAhead ==
  restarts = 0 =>
    \A c \in Pages : /\ last_revision[c] <= revision
                     /\ seed[c].revision <= revision

\* The counter of an engine that goes on never runs down.
LEMMA RevisionGrows ==
  TypeOK /\ [Next]_vars => revision' \in Nat /\ revision <= revision'
<1> SUFFICES ASSUME TypeOK, [Next]_vars
             PROVE  revision' \in Nat /\ revision <= revision'
  OBVIOUS
<1>1. revision' = revision \/ revision' = revision + 1
  BY Zenon DEF Next, Publish, Change, Refresh, SetConfig, ReadSources, Render,
     NotificationSettings, NotificationEdge, AlarmSettings, AlarmEdge, Number, Deliver,
     Exhausted, vars, shared
<1>2. QED
  BY <1>1 DEF TypeOK

\* Every step keeps the pages behind the hub.
LEMMA AheadStep ==
  EngineInv /\ PagesTyped /\ NothingAhead /\ [HubNext]_hubVars => NothingAhead'
<1> SUFFICES ASSUME EngineInv, PagesTyped, NothingAhead, [HubNext]_hubVars,
                    restarts' = 0, NEW c \in Pages
             PROVE  last_revision'[c] <= revision' /\ seed'[c].revision <= revision'
  BY DEF NothingAhead
<1>0. TypeOK /\ EachRevisionOnce
  BY DEF EngineInv
<1>1. ~HubRestart
  BY DEF HubRestart, PagesTyped
<1>2. [Next]_vars
  BY <1>1, HubStepIsEngineStep
<1>3. revision \in Nat /\ revision' \in Nat /\ revision <= revision'
  BY <1>0, <1>2, RevisionGrows DEF TypeOK
<1>4. restarts = 0
  BY <1>1, Zenon DEF HubNext, EngineNext, hubVars, Handler, Script, SeedRender,
     SeedRevision, Subscribe, Start, Greet, Receive, Lag, ServeSnapshot, ShowReply,
     Reconnect
<1>5. /\ last_revision[c] <= revision /\ seed[c].revision <= revision
      /\ last_revision[c] \in Nat \cup {-1} /\ seed[c].revision \in Nat
  BY <1>4 DEF NothingAhead, PagesTyped
<1>6. last_revision[c] <= revision' /\ seed[c].revision <= revision'
  BY <1>3, <1>5
<1>7. seed'[c].revision \in {seed[c].revision, revision, 0}
  <2>1. CASE \E d \in Pages : SeedRender(d) \/ SeedRevision(d) \/ Reconnect(d)
    BY <2>1 DEF SeedRender, SeedRevision, Reconnect, PagesTyped, NoSeed
  <2>2. CASE ~\E d \in Pages : SeedRender(d) \/ SeedRevision(d) \/ Reconnect(d)
    <3>1. seed' = seed
      BY <1>1, <2>2, Zenon DEF HubNext, EngineNext, hubVars, page, Handler, Script,
         Subscribe, Start, Greet, Receive, Lag, ServeSnapshot, ShowReply
    <3>2. QED
      BY <3>1
  <2>3. QED
    BY <2>1, <2>2
<1>8. last_revision'[c] \in {last_revision[c], -1, seed[c].revision}
      \/ Receive(c)
  <2>1. CASE \E d \in Pages : Start(d)
    BY <2>1 DEF Start, PagesTyped
  <2>2. CASE \E d \in Pages : Greet(d)
    BY <2>2 DEF Greet, ShowFrame, PagesTyped
  <2>3. CASE \E d \in Pages : Receive(d)
    BY <2>3 DEF Receive, ShowFrame, PagesTyped
  <2>4. CASE ~\E d \in Pages : Start(d) \/ Greet(d) \/ Receive(d)
    <3>1. last_revision' = last_revision
      BY <1>1, <2>4, Zenon DEF HubNext, EngineNext, hubVars, page, Handler, Script,
         SeedRender, SeedRevision, Subscribe, Lag, ServeSnapshot, ShowReply, Reconnect
    <3>2. QED
      BY <3>1
  <2>5. QED
    BY <2>1, <2>2, <2>3, <2>4
<1>9. CASE Receive(c)
  <2>1. position[c] + 1 \in DOMAIN channel
    BY <1>0, <1>9, StreamAssumption DEF Receive, Behind, PagesTyped, TypeOK
  <2>2. channel[position[c] + 1].revision \in 1 .. revision
    BY <1>0, <2>1 DEF EachRevisionOnce, Delivered
  <2>3. last_revision'[c] \in {last_revision[c], channel[position[c] + 1].revision}
    BY <1>9 DEF Receive, ShowFrame, PagesTyped
  <2>4. QED
    BY <1>3, <1>6, <1>7, <2>2, <2>3
<1>10. QED
  BY <1>3, <1>6, <1>7, <1>8, <1>9

\* The inductive invariant of the hub.
HubInv == EngineInv /\ PagesTyped /\ NothingAhead

\* It holds in every state of every run.
LEMMA HubInvAlways ==
  HubSpec => []HubInv
<1>1. HubInit => HubInv
  <2> SUFFICES ASSUME HubInit
               PROVE  HubInv
    OBVIOUS
  <2>1. Started /\ source \in View /\ config \in Configs
    BY EmptyType, Zenon DEF HubInit, Init, Started
  <2>2. EngineInv
    BY <2>1, StartedInv
  <2>3. PagesTyped
    BY EmptyType, StreamAssumption DEF HubInit, PagesTyped, Conns, NoSeed
  <2>4. NothingAhead
    BY <2>1 DEF HubInit, NothingAhead, NoSeed, Started
  <2>5. QED
    BY <2>2, <2>3, <2>4 DEF HubInv
<1>2. HubInv /\ [HubNext]_hubVars => HubInv'
  BY EngineStep, PagesTypedStep, AheadStep DEF HubInv
<1>3. QED
  BY <1>1, <1>2, PTL DEF HubSpec

\* Hub and pages are well typed.
THEOREM HubTypeCorrect == HubSpec => []HubTypeOK
<1>1. HubInv => HubTypeOK
  BY DEF HubInv, EngineInv, PagesTyped, HubTypeOK
<1>2. QED
  BY <1>1, HubInvAlways, PTL

\* While the hub stays up no page has seen a revision that is still to come, so
\* none will ignore the next update.
THEOREM NoPageAhead == HubSpec => []NextUpdateIsNews
<1>1. HubInv => NextUpdateIsNews
  BY DEF HubInv, NothingAhead, NextUpdateIsNews, NoneAhead
<1>2. QED
  BY <1>1, HubInvAlways, PTL

-----------------------------------------------------------------------------
(***************************************************************************)
(* Catching up.                                                            *)
(***************************************************************************)

\* While publishes do not overlap the newest update is the last.
LEMMA LastIsNewest ==
  ASSUME TypeOK, Serial, ~overlap, Len(channel) > 0
  PROVE  /\ NewestAt(Len(channel))
         /\ Newest = channel[Len(channel)]
         /\ \A n \in DOMAIN channel : NewestAt(n) => n = Len(channel)
<1>1. /\ DOMAIN channel = 1 .. Len(channel) /\ Len(channel) \in Nat
      /\ Len(channel) \in DOMAIN channel
  BY DEF TypeOK
<1>2. \A n \in DOMAIN channel : channel[n].revision = n
  BY <1>1 DEF Serial
<1>3. NewestAt(Len(channel))
  BY <1>1, <1>2 DEF NewestAt
<1>4. \A n \in DOMAIN channel : NewestAt(n) => n = Len(channel)
  BY <1>1, <1>2 DEF NewestAt
<1>5. Newest = channel[Len(channel)]
  BY <1>1, <1>3, NewestIs
<1>6. QED
  BY <1>3, <1>4, <1>5

\* A page that renders the last frame, with nothing under way, shows what the
\* sources hold.
THEOREM LastFrameIsCurrent == HubSpec => RenderingCatchesUp
<1>1. HubInv /\ [HubNext]_hubVars
        => [\A c \in Pages :
              /\ Receive(c) /\ last_revision'[c] # last_revision[c]
              /\ Quiet /\ position'[c] = Len(channel)
              /\ ~overlap /\ solo # {}
              => Current(c)']_hubVars
  <2> SUFFICES ASSUME HubInv, NEW c \in Pages,
                      Receive(c), last_revision'[c] # last_revision[c],
                      Quiet, position'[c] = Len(channel), ~overlap, solo # {}
               PROVE  Current(c)'
    OBVIOUS
  <2>1. TypeOK /\ PagesTyped /\ Serial /\ DoneInv
    BY DEF HubInv, EngineInv
  <2>2. position'[c] = position[c] + 1 /\ Len(channel) > 0
    BY <2>1, StreamAssumption DEF Receive, PagesTyped, TypeOK, Behind
  <2>3. shown'[c] = channel[Len(channel)].snapshot
    BY <2>1, <2>2 DEF Receive, ShowFrame, PagesTyped
  <2>4. PICK t \in solo : pc[t] = "idle"
    BY <2>1 DEF Quiet, TypeOK
  <2>5. PICK n \in DOMAIN channel :
          NewestAt(n) /\ channel[n].snapshot = Visible(config, source)
    BY <2>1, <2>4 DEF DoneInv
  <2>6. n = Len(channel)
    BY <2>1, <2>2, <2>5, LastIsNewest
  <2>7. config' = config /\ source' = source
    BY DEF Receive, vars, shared
  <2>8. QED
    BY <2>3, <2>5, <2>6, <2>7 DEF Current, Visible, SessionVisible
<1>2. QED
  BY <1>1, HubInvAlways, PTL DEF HubSpec, RenderingCatchesUp

\* A page that has caught up with the channel has seen the newest revision,
\* whatever it passed over when it lagged.
THEOREM LagMissesNoNewest == HubSpec => CatchingUpSeesNewest
<1>1. HubInv /\ [HubNext]_hubVars
        => [\A c \in Pages :
              /\ conn[c] = "open" /\ conn'[c] = "open"
              /\ Behind(c) > 0 /\ Behind(c)' = 0 /\ ~overlap
              => last_revision'[c] >= Newest.revision]_hubVars
  <2> SUFFICES ASSUME HubInv, [HubNext]_hubVars, NEW c \in Pages,
                      conn[c] = "open", conn'[c] = "open",
                      Behind(c) > 0, Behind(c)' = 0, ~overlap
               PROVE  last_revision'[c] >= Newest.revision
    OBVIOUS
  <2>1. TypeOK /\ PagesTyped /\ Serial
    BY DEF HubInv, EngineInv
  <2>2. Receive(c)
    <3>1. ~HubRestart
      BY DEF HubRestart, PagesTyped
    <3>2. CASE EngineNext
      <4>1. position'[c] = position[c]
        BY <3>2 DEF EngineNext, page
      <4>2. Len(channel') >= Len(channel)
        BY <2>1, <3>2 DEF EngineNext, Next, Publish, Change, Refresh, SetConfig,
           ReadSources, Render, NotificationSettings, NotificationEdge, AlarmSettings,
           AlarmEdge, Number, Deliver, Exhausted, vars, shared, TypeOK
      <4>3. QED
        BY <2>1, <4>1, <4>2 DEF Behind, PagesTyped, TypeOK
    <3>3. ASSUME NEW d \in Pages, Handler(d) \/ Script(d)
          PROVE  Receive(c)
      <4>1. channel' = channel
        BY <3>3, Zenon DEF Handler, Script, SeedRender, SeedRevision, Subscribe, Start,
           Greet, Receive, Lag, ServeSnapshot, ShowReply, Reconnect, vars, shared
      <4>2. position'[c] # position[c]
        BY <4>1 DEF Behind
      <4>3. Receive(d) \/ Lag(d) \/ Subscribe(d) \/ Reconnect(d)
        BY <3>3, <4>2, Zenon DEF Handler, Script, SeedRender, SeedRevision, Start,
           Greet, ServeSnapshot, ShowReply
      <4>4. d = c
        BY <2>1, <4>2, <4>3 DEF Receive, Lag, Subscribe, Reconnect, PagesTyped
      <4>5. ~Lag(c)
        <5>1. Lag(c) => Behind(c)' = Capacity
          BY <2>1, <4>1, StreamAssumption DEF Lag, Behind, PagesTyped, TypeOK
        <5>2. QED
          BY <5>1, StreamAssumption
      <4>6. ~Subscribe(c) /\ ~Reconnect(c)
        <5>1. ~Subscribe(c)
          BY <2>1 DEF Subscribe
        <5>2. Reconnect(c) => conn'[c] = "seed"
          BY <2>1 DEF Reconnect, Advance, PagesTyped
        <5>3. QED
          BY <5>1, <5>2
      <4>7. QED
        BY <4>3, <4>4, <4>5, <4>6
    <3>4. CASE UNCHANGED hubVars
      BY <3>4 DEF hubVars, vars, shared, page, Behind
    <3>5. QED
      BY <3>1, <3>2, <3>3, <3>4 DEF HubNext
  <2>3. channel' = channel
    BY <2>2 DEF Receive, vars, shared
  <2>4. position[c] + 1 = Len(channel) /\ Len(channel) > 0
    BY <2>1, <2>2, <2>3, StreamAssumption DEF Receive, Behind, PagesTyped, TypeOK
  <2>5. Newest = channel[Len(channel)] /\ Newest.revision \in Nat
    BY <2>1, <2>4, LastIsNewest, DeliveredTyped DEF TypeOK
  <2>6. last_revision'[c] >= channel[Len(channel)].revision
    <3>1. PICK u : u = channel[Len(channel)]
      OBVIOUS
    <3>2. ShowFrame(c, u)
      BY <2>2, <2>4, <3>1 DEF Receive
    <3>3. u.revision \in Int /\ last_revision[c] \in Int
      BY <2>1, <2>5, <3>1 DEF PagesTyped
    <3>4. last_revision'[c] = IF u.revision > last_revision[c] THEN u.revision
                                                              ELSE last_revision[c]
      BY <2>1, <3>2 DEF ShowFrame, PagesTyped
    <3>5. QED
      BY <3>1, <3>3, <3>4
  <2>7. QED
    BY <2>5, <2>6
<1>2. QED
  BY <1>1, HubInvAlways, PTL DEF HubSpec, CatchingUpSeesNewest

=============================================================================
