\* One outside writer and one caller over two sessions; a hub with one row, one
\* failure and one command.
CONSTANTS
  a = a
  b = b
  Ids = {a, b}
  Gone = Gone
  Callers = {ui}
  Clawlight = Clawlight
  Nobody = Nobody
  Faults = TRUE
  OutStatuses = {"done", "active"}
  Harness <- TwoHarnesses
  StaleAfter = 1
  MaxTime = 1
  MaxWrites = 2
  DoneRetention = 1
  NoTime <- MinusOne
  Rows = {"s"}
  RowStatuses = {"done"}
  Troubles = {TRUE}
  FrameCapacity = 1
  MaxChanges = 2
  MaxFaults = 1
  MaxCommands = 1
SPECIFICATION FollowSpec
INVARIANTS
  FollowTypeOK
  FileIsRenderedAlike
  OnlyOvertakenIsStale
PROPERTIES
  UpdatesAreNotLost
  ClearTakesOnlyDone
  ScreenCatchesUp
  DroppedEnds
\* Either source may come to rest, with the bounds used up.
CHECK_DEADLOCK FALSE
