\* Three sessions against a cap of two tombstones, every batch; a plugin with a
\* main session and a child, one heartbeat in flight, one done session to send.
CONSTANTS
  NoProducer = NoProducer
  NoSession = NoSession
  Done = Done
  Active = Active
  Statuses = {Active, Done}
  SessionIds = {a, b, c}
  Producers = {p, q}
  MAX_REMOVED = 2
  PluginSessions = {a, b}
  Children = {b}
  RemovedCap = 1
  MAX_DONE_SESSIONS = 1
  MaxEvents = 3
  MaxFaults = 1
  MaxDismissals = 1
  MaxUpserts = 1
  MaxBeats = 1
SPECIFICATION StoreSpec
INVARIANTS
  TypeOK
  LiveXorTombstoned
  PromptIsNotFinished
PROPERTIES
  ReviveOnlyByUpsert
  Converges
\* A plugin that knows no session does nothing.
CHECK_DEADLOCK FALSE
