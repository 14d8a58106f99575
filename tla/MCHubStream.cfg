\* One page: seeds, lags, late snapshots, reconnections, a restarted hub.
CONSTANTS
  Gone = Gone
  Unread = Unread
  NeedsHelp = NeedsHelp
  Done = Done
  Active = Active
  Statuses = {NeedsHelp, Done}
  Keys = {a}
  Subagents = {}
  Publishers = {t}
  Configs <- OneHub
  MaxRevision = 3
  Pages = {c}
  Capacity = 1
  MaxRestarts = 1
SPECIFICATION HubSpec
INVARIANTS
  NextUpdateIsNews
PROPERTIES
  RenderingCatchesUp
  CatchingUpSeesNewest
