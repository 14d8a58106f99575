\* Three writes of a file, with a temporary file each; two commands and one
\* relaunch; two requests, two devices and two stores; two monitors, of which
\* the second is too small for Settings, and two drags.
CONSTANTS
  Writers = {u, v, w}
  shared = shared
  Names = {u, v, w}
  TmpName <- PerCall
  Chunks = 2
  NoFile = NoFile
  Hole = Hole
  Urls = {"default", "other"}
  Paths = {"f"}
  Binds = {"default", "q"}
  MaxSaves = 2
  MaxRuns = 1
  DeviceIds = {d1, d2}
  Unpaired = Unpaired
  Requests = {r1, r2}
  MaxClock = 1
  MaxStarts = 2
  Monitors <- TwoMonitors
  Primary <- FirstMonitor
  Widths <- ViewWidths
  Spots = {1, 5, 9}
  NoPosition = NoPosition
  MaxDrags = 2
  MaxPending = 1
SPECIFICATION ShellSpec
SYMMETRY AnyOrder
INVARIANTS
  ShellTypeOK
  PathIsWhole
  ShellAgrees
  FileKeepsUp
  AnswersLast
  ClickIsNeverANoOp
PROPERTIES
  FileIsAtomic
  PersistedFollowsServer
  CollapseRestores
\* Writes end, and so do commands when the bounds are used up.
CHECK_DEADLOCK FALSE
