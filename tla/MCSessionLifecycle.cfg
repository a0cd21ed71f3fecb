SPECIFICATION LifecycleSpec
CONSTANTS
  s1 = s1
  s2 = s2
  Sessions = {s1, s2}
  WriteOutcomes = {"ok", "lost", "late"}
  WorkspaceMoves = TRUE
SYMMETRY Symmetry
INVARIANT
  RunOwned
PROPERTIES
  RecordFollowsJournal
  EndedStaysEnded
  RecoveredAgrees
