\* Two overlapping calls of every kind, store writes that fail, restarts.
CONSTANTS
  NoProducer = NoProducer
  NoSession = NoSession
  Active = Active
  Done = Done
  Statuses = {Active, Done}
  a = a
  b = b
  p = p
  SessionIds = {a, b}
  Producers = {p}
  MAX_REMOVED = 1
  Threads = {t, u}
  WritesFail = TRUE
  Upserts <- FewUpserts
  Snapshots <- FewHeartbeats
SYMMETRY ThreadSymmetry
SPECIFICATION Spec
INVARIANTS
  TypeOK
  EntriesHaveSessions
  TombstonesProper
  ChangesAreEmitted
PROPERTY LossHasCause
