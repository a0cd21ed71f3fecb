SPECIFICATION LibrarySpec
CONSTANTS
  Workspaces = {"documents", "elsewhere"}
  Default = "documents"
  Projects = {"p1", "p2"}
  Home <- MCHome
  Damaged = Damaged
  MaxRevision = 2
  MaxSettings = 2
  MaxTroubles = 1
INVARIANTS
  RevisionNamesContent
  NoWriterInTrash
PROPERTY
  ListedAsChosen
CHECK_DEADLOCK FALSE
