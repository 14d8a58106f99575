\* Three calls at once that share a temporary file.
CONSTANTS
  Writers = {u, v, w}
  shared = shared
  Names = {shared}
  TmpName <- PerProcess
  Chunks = 2
  NoFile = NoFile
  Hole = Hole
SPECIFICATION Spec
INVARIANT PathIsWhole
