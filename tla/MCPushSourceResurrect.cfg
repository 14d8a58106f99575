\* Two overlapping calls: a heartbeat brings a removed session back.
CONSTANTS
  NoProducer = NoProducer
  NoSession = NoSession
  Active = Active
  Done = Done
  Statuses = {Active, Done}
  a = a
  b = b
  p = p
  SessionIds = {a, b}
  Producers = {p}
  MAX_REMOVED = 1
  Threads = {t, u}
  WritesFail = FALSE
  Upserts <- FewUpserts
  Snapshots <- FewHeartbeats
SYMMETRY ThreadSymmetry
SPECIFICATION Spec
PROPERTY HeartbeatsReviveNothing
