\* One call at a time, signed events, three sessions against a cap of two.
CONSTANTS
  NoProducer = NoProducer
  NoSession = NoSession
  Active = Active
  Done = Done
  Statuses = {Active, Done}
  a = a
  b = b
  p = p
  SessionIds = {a, b, c}
  Producers = {p, q}
  MAX_REMOVED = 2
  Threads = {t}
  WritesFail = FALSE
  Upserts <- OwnedUpserts
  Snapshots <- Heartbeats
SPECIFICATION Spec
INVARIANTS
  LiveXorTombstoned
  StoreIsCurrent
  LiveAreOwned
PROPERTY StoreIsAtomic
