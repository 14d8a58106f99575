----------------------------- MODULE MCEngine ------------------------------
(***************************************************************************)
(* Engine on small instances: the engine of the desktop, which hides       *)
(* subagents that need no help, while the user turns notifications off and *)
(* on.                                                                     *)
(***************************************************************************)
EXTENDS Engine, TLC

CONSTANTS Active

\* The settings of a desktop that announces prompts and sounds no alarm but
\* for any change of status.
Desktop == [notifications |-> TRUE, notification_trigger |-> {"needs_help"},
            alarms_enabled |-> TRUE, alarm_trigger |-> {"any_status"},
            show_subagents |-> FALSE]
Muted == [Desktop EXCEPT !.notifications = FALSE]
DesktopToggled == {Desktop, Muted}

PublisherSymmetry == Permutations(Publishers)
=============================================================================
