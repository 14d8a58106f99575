---------------------------- MODULE MCPushSource ----------------------------
(***************************************************************************)
(* PushSource on small instances.  The producers send what the opencode    *)
(* plugins send: single-event upserts, and heartbeats that list a set of   *)
(* the producer's own sessions; FewUpserts has an event without a          *)
(* producer too.                                                           *)
(***************************************************************************)
EXTENDS PushSource, TLC

CONSTANTS Active

Event(i, status, producer) ==
  [events |-> (i :> [status |-> status, producer |-> producer]),
   producer |-> producer]

Heartbeat(p, S) ==
  [events |-> [i \in S |-> [status |-> Active, producer |-> p]],
   producer |-> IF S = {} THEN NoProducer ELSE p]

OwnedUpserts == {Event(i, s, p) : i \in SessionIds, s \in Statuses,
                                  p \in Producers}

Heartbeats == {Heartbeat(p, S) : p \in Producers, S \in SUBSET SessionIds}

\* A short selection for overlapping calls: an event without a producer for b,
\* and heartbeats of p that each prune what the other one brought.
CONSTANTS a, b, p
FewUpserts == {Event(b, Done, NoProducer)}
FewHeartbeats == {Heartbeat(p, {a}), Heartbeat(p, {b})}

ThreadSymmetry == Permutations(Threads)
=============================================================================
