SPECIFICATION WriterSpec
CONSTANTS
  Foreign = Foreign
  Events <- MCEvents
  MaxRevisions = 1
  Batch = 2
  Interval = 1
  MaxTroubles = 1
INVARIANTS
  BoundaryPublished
PROPERTIES
  JournalDurable
  FinalsPublished
CHECK_DEADLOCK FALSE
