------------------------------ MODULE Display -------------------------------
(***************************************************************************)
(* What is shown of a set of sessions: order, retention of finished        *)
(* sessions, counts, the colour of the light, links and status wording.    *)
(*                                                                         *)
(* The rules exist twice in agentlight-core.  build_snapshot_at            *)
(* (snapshot.rs, with load_sessions of session.rs) renders a state file on *)
(* its own; the engine (engine.rs, render) renders the normalized sessions *)
(* of its sources.  Both are translated, so that they can be compared.     *)
(*                                                                         *)
(* A session is its id, status, time of the last update, harness, producer *)
(* link and whether it is a subagent; name, project and badge are          *)
(* functions of the session that nothing branches on.  The sessions of a   *)
(* file come out of a HashMap in any order, so a rendering is a set: the   *)
(* snapshots that some iteration order leads to.                           *)
(*                                                                         *)
(* Operators named Mut... are bugs that a property of some run must catch; *)
(* no other definition uses them.                                          *)
(***************************************************************************)
EXTENDS Integers, Sequences, FiniteSets, SequencesExt

CONSTANTS
  DoneRetention,   \* finished sessions shown when show_done is off
  NoTime           \* last_updated is absent or does not parse

ASSUME DisplayAssumption ==
  /\ DoneRetention \in Nat
  /\ NoTime \in Int /\ NoTime < 0

Statuses == {"needs_help", "active", "inactive", "done"}

Urgency == [needs_help |-> 0, active |-> 1, inactive |-> 2, done |-> 3]

\* Most urgent first, then the newest; a session without a time comes last.
CompareSessions(a, b) ==
  \/ Urgency[a.status] < Urgency[b.status]
  \/ a.status = b.status /\ a.at > b.at

\* Every order the stable sort may give the sessions of S.
Sorted(S) ==
  {rows \in SetToSeqs(S) :
     \A j, k \in DOMAIN rows : j < k => ~CompareSessions(rows[k], rows[j])}

DoneRows(rows) == {k \in DOMAIN rows : rows[k].status = "done"}

\* The first DoneRetention finished rows stay, unless all are asked for.
ApplyRetention(rows, show_done) ==
  FoldLeft(LAMBDA kept, row :
             IF /\ ~show_done /\ row.status = "done"
                /\ Cardinality(DoneRows(kept)) >= DoneRetention
             THEN kept ELSE Append(kept, row),
           <<>>, rows)

CountModels(S) ==
  [s \in Statuses |-> Cardinality({m \in S : m.status = s})]

\* Red when anyone needs help; an idle session wins over a working one unless
\* the mode says working wins.
Aggregate(counts, yellow_mode) ==
  IF counts["needs_help"] > 0 THEN "red"
  ELSE IF /\ counts["inactive"] > 0
          /\ yellow_mode = "any_inactive" \/ counts["active"] = 0
       THEN "orange"
       ELSE IF counts["active"] > 0 THEN "green" ELSE "gray"

-----------------------------------------------------------------------------
(***************************************************************************)
(* Links.                                                                  *)
(***************************************************************************)
LinkModes == {"opencode_v1", "opencode_v2", "openchamber", "producer", "off"}
NoLink == <<>>
NoBase == "no base"
DefaultBase(mode) ==
  IF mode = "openchamber" THEN "localhost:3000" ELSE "localhost:4096"

BuildSessionLink(mode, base, m) ==
  LET web == mode \in {"opencode_v1", "opencode_v2", "openchamber"}
  IN  IF m.id = "" \/ mode = "off" THEN NoLink
      ELSE IF mode = "producer" THEN m.url
      ELSE IF web /\ m.harness \notin {"none", "opencode"} THEN NoLink
      ELSE <<mode, IF base = NoBase THEN DefaultBase(mode) ELSE base, m.id>>

DisplaySession(config, m) ==
  [m EXCEPT !.url = BuildSessionLink(config.session_link, config.base, m)]

-----------------------------------------------------------------------------
(***************************************************************************)
(* A state file on its own.  `load' is what load_state found: loaded,      *)
(* missing or unreadable, with the sessions after the staleness reap.      *)
(***************************************************************************)
LoadSessions(S, config) ==
  {ApplyRetention(rows, config.show_done) : rows \in Sorted(S)}

BuildSnapshot(load, config) ==
  LET shown == IF load.health = "ready" THEN load.sessions ELSE {}
  IN {[ok          |-> load.health = "ready",
       error       |-> CASE load.health = "ready"      -> <<>>
                         [] load.health = "missing"    -> <<"file", "waiting">>
                         [] load.health = "unreadable" -> <<"file", "reason">>,
       exists      |-> load.health # "missing",
       source_kind |-> "file",
       aggregate   |-> Aggregate(CountModels(shown), config.yellow_mode),
       counts      |-> CountModels(shown),
       sessions    |-> [k \in DOMAIN rows |-> DisplaySession(config, rows[k])]]
        : rows \in LoadSessions(shown, config)}

-----------------------------------------------------------------------------
(***************************************************************************)
(* The sources of an engine: a sequence of [kind, health, sessions].       *)
(***************************************************************************)
SessionVisible(config, m) ==
  config.show_subagents \/ ~m.subagent \/ m.status = "needs_help"

ErrorOf(sources, config) ==
  LET unready == {k \in DOMAIN sources : sources[k].health # "ready"}
      first == sources[Min(unready)]
  IN  IF sources = <<>> THEN <<config.source_kind, "waiting">>
      ELSE IF unready = {} THEN <<>>
      ELSE <<first.kind,
             IF first.health = "unreadable" THEN "reason" ELSE "waiting">>

\* The counts are taken after retention.
MutRender(sources, config) ==
  LET models == UNION {s.sessions : s \in ToSet(sources)}
      shown  == {m \in models : SessionVisible(config, m)}
  IN {[ok          |-> ErrorOf(sources, config) = <<>>,
       error       |-> ErrorOf(sources, config),
       exists      |-> \E s \in ToSet(sources) : s.health # "missing",
       source_kind |-> IF sources = <<>> THEN config.source_kind
                                         ELSE Head(sources).kind,
       aggregate   |-> Aggregate(CountModels(ToSet(rows)), config.yellow_mode),
       counts      |-> CountModels(ToSet(rows)),
       sessions    |-> [k \in DOMAIN rows |-> DisplaySession(config, rows[k])]]
        : rows \in {ApplyRetention(r, config.show_done) : r \in Sorted(shown)}}

Render(sources, config) ==
  LET models == UNION {s.sessions : s \in ToSet(sources)}
      shown  == {m \in models : SessionVisible(config, m)}
  IN {[ok          |-> ErrorOf(sources, config) = <<>>,
       error       |-> ErrorOf(sources, config),
       exists      |-> \E s \in ToSet(sources) : s.health # "missing",
       source_kind |-> IF sources = <<>> THEN config.source_kind
                                         ELSE Head(sources).kind,
       aggregate   |-> Aggregate(CountModels(shown), config.yellow_mode),
       counts      |-> CountModels(shown),
       sessions    |-> [k \in DOMAIN rows |-> DisplaySession(config, rows[k])]]
        : rows \in {ApplyRetention(r, config.show_done) : r \in Sorted(shown)}}

=============================================================================
