\* One publisher: a prompt is lost after notifications were off.
CONSTANTS
  Gone = Gone
  Unread = Unread
  Active = Active
  NeedsHelp = NeedsHelp
  Done = Done
  Statuses = {NeedsHelp, Active, Done}
  Keys = {a}
  Subagents = {}
  Publishers = {t}
  Configs <- DesktopToggled
  MaxRevision = 4
SYMMETRY PublisherSymmetry
SPECIFICATION Spec
INVARIANT PromptsAreNotified
