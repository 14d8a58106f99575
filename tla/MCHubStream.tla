---------------------------- MODULE MCHubStream -----------------------------
(***************************************************************************)
(* HubStream with one page on a hub whose publishes do not overlap, and a  *)
(* channel so short that the page falls behind.                            *)
(***************************************************************************)
EXTENDS HubStream

CONSTANTS Active

\* The settings of a hub.
Hub == [notifications |-> TRUE, notification_trigger |-> {"needs_help"},
        alarms_enabled |-> FALSE, alarm_trigger |-> {},
        show_subagents |-> TRUE]
OneHub == {Hub}
=============================================================================
