------------------------------ MODULE MCShell -------------------------------
(***************************************************************************)
(* The shell of the desktop and the files it and the hub write, each on a  *)
(* small instance: replacing a file, the paired devices, the settings and  *)
(* the window.  They share no state, so a behaviour is one of one part,    *)
(* which `part' names, and the others rest.                                *)
(***************************************************************************)
EXTENDS MCFileReplace, Settings, Devices, Window, TLC

VARIABLE part

TwoMonitors == <<Rect(0, 6), Rect(6, 4)>>
FirstMonitor == Rect(0, 6)
ViewWidths == [mini |-> 2, detail |-> 3, settings |-> 5]
AnyOrder == Permutations(Requests) \cup Permutations(Writers)

shellAll == <<part, vars, shellVars, deviceVars, windowVars>>

ShellInit ==
  /\ part \in {"write", "settings", "devices", "window"}
  /\ Init /\ SettingsInit /\ DevicesInit /\ WindowInit
  /\ part # "settings" => disk = DefaultConfig /\ ~Running
  /\ part # "window" => pos = 1 /\ pinned

WriteStep ==
  part = "write" /\ Next /\ UNCHANGED <<part, shellVars, deviceVars, windowVars>>
SettingsStep ==
  part = "settings" /\ SettingsNext /\ UNCHANGED <<part, vars, deviceVars, windowVars>>
DevicesStep ==
  part = "devices" /\ DevicesNext /\ UNCHANGED <<part, vars, shellVars, windowVars>>
WindowStep ==
  part = "window" /\ WindowNext /\ UNCHANGED <<part, vars, shellVars, deviceVars>>

ShellNext == WriteStep \/ SettingsStep \/ DevicesStep \/ WindowStep

ShellSpec == ShellInit /\ [][ShellNext]_shellAll

-----------------------------------------------------------------------------
\* The part that moves has its types.
ShellTypeOK ==
  CASE part = "write"    -> TypeOK
    [] part = "settings" -> SettingsTypeOK
    [] part = "devices"  -> DevicesTypeOK
    [] part = "window"   -> WindowTypeOK

=============================================================================
