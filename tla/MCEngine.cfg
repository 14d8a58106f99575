\* Two publishers that overlap, a session and a subagent, notifications turned
\* off and on.
CONSTANTS
  Gone = Gone
  Unread = Unread
  Active = Active
  NeedsHelp = NeedsHelp
  Done = Done
  Statuses = {NeedsHelp, Done}
  Keys = {a, b}
  Subagents = {b}
  Publishers = {t, u}
  Configs <- DesktopToggled
  MaxRevision = 3
SYMMETRY PublisherSymmetry
SPECIFICATION Spec
INVARIANTS
  TypeOK
  EachRevisionOnce
  LonePublishRepairs
  NewestIsCurrent
  NotifiedOncePerEntry
  OnlyMutedAreMissed
 
