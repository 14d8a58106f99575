---------------------------- MODULE MCPushStore -----------------------------
(***************************************************************************)
(* PushStore on a small instance, with every batch the data allows: any    *)
(* mix of producers, and events without one; and a plugin that reports to  *)
(* another one.  A behaviour is one of either, which `part' names, and the *)
(* other rests.                                                            *)
(***************************************************************************)
EXTENDS PushStore, Producer

VARIABLE part

storeVars == <<part, vars, producerVars>>

StoreInit == part \in {"store", "producer"} /\ Init /\ ProducerInit

StoreStep(A) == part = "store" /\ A /\ UNCHANGED <<part, producerVars>>
ProducerStep(A) == part = "producer" /\ A /\ UNCHANGED <<part, vars>>

StoreNext == StoreStep(Next) \/ ProducerStep(ProducerNext)

\* The timers end, heartbeats come, answers come, and a request that is not
\* lost reaches the hub.
ProducerFairness ==
  /\ \A i \in PluginSessions : WF_storeVars(ProducerStep(Flush(i)))
  /\ WF_storeVars(ProducerStep(SendSnapshot))
  /\ WF_storeVars(ProducerStep(LookedUp))
  /\ WF_storeVars(ProducerStep(IngestFirst))
  /\ WF_storeVars(ProducerStep(SendFirst))

StoreSpec == StoreInit /\ [][StoreNext]_storeVars /\ ProducerFairness
=============================================================================
