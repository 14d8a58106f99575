---------------------------- MODULE MCHubClient -----------------------------
(***************************************************************************)
(* HubClient on its own, for the run about a hub that is lost.             *)
(***************************************************************************)
EXTENDS HubClient
=============================================================================
