SPECIFICATION Spec
CONSTANTS
  upstream = upstream
  old = old
  new = new
  NoWriter = NoWriter
  Exchanges <- OneExchange
  MaxChunks = 1
  QueueSlots = 2
  QueueBytes = 3
  MaxFailures = 1
  Writers <- OldAndNew
  MaxFiles = 3
  MaxEvents = 3
  MaxLines = 2
  MaxTroubles = 1
CHECK_DEADLOCK FALSE
INVARIANTS AuditTypeOK CompleteMeansWhole AcceptedIsAccountedFor
PROPERTIES ArchiveOnlyGrows LinesArePublished
