------------------------------ MODULE MCFollow ------------------------------
(***************************************************************************)
(* The two sources of the desktop, each on a small instance.  They share   *)
(* no state, so a behaviour is one of one source, which `part' names, and  *)
(* the other rests.                                                        *)
(***************************************************************************)
EXTENDS StateFile, HubClient

VARIABLE part

CONSTANTS a, b
MinusOne == -1
TwoHarnesses == [i \in Ids |-> IF i = a THEN "none" ELSE "codex"]

followVars == <<part, fileVars, clientVars>>

FollowInit ==
  /\ part \in {"file", "hub"}
  /\ FileInit /\ ClientInit
  /\ part = "file" => up /\ modern

FileStep(A) == part = "file" /\ A /\ UNCHANGED <<part, clientVars>>
HubStep(A) == part = "hub" /\ A /\ UNCHANGED <<part, fileVars>>

FollowNext == FileStep(FileNext) \/ HubStep(ClientNext)

\* The fairness of the source that moves.
FollowFairness ==
  /\ WF_followVars(FileStep(WatchLoop) \/ HubStep(StreamLoop))
  /\ WF_followVars(HubStep(Send))
  /\ WF_followVars(HubStep(CommandSteps))

FollowSpec == FollowInit /\ [][FollowNext]_followVars /\ FollowFairness

-----------------------------------------------------------------------------
\* The source that moves has its types.
FollowTypeOK == IF part = "file" THEN FileTypeOK ELSE ClientTypeOK

\* Rendering through the engine gives what rendering the state file alone gave
\* (SeamKeepsSnapshots), in every state the file goes through.
FileIsRenderedAlike == part = "file" => SeamKeepsSnapshots

\* Once the outside has settled the screen shows it: the state file as it is
\* (WatcherCatchesUp), or the hub's state (ClientConverges).
ScreenCatchesUp ==
  <>[](IF part = "file" THEN CaughtUp ELSE Converged)

=============================================================================
