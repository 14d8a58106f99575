\* A hub with one row, one failure and one command.
CONSTANTS
  Rows = {"s"}
  RowStatuses = {"done"}
  Troubles = {TRUE}
  FrameCapacity = 1
  MaxChanges = 2
  MaxFaults = 1
  MaxCommands = 1
SPECIFICATION ClientSpec
PROPERTY UnreachableIsShown
\* The thread of a dropped source ends.
CHECK_DEADLOCK FALSE
