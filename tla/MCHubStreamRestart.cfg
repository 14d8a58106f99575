\* The hub restarts under an open page.
CONSTANTS
  Gone = Gone
  Unread = Unread
  NeedsHelp = NeedsHelp
  Done = Done
  Active = Active
  Statuses = {NeedsHelp, Done}
  Keys = {a}
  Subagents = {}
  Publishers = {t}
  Configs <- OneHub
  MaxRevision = 2
  Pages = {c}
  Capacity = 1
  MaxRestarts = 1
SPECIFICATION HubSpec
INVARIANT UpdatesAreNews
