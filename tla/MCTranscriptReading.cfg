SPECIFICATION ReadingSpec
CONSTANTS
  Workspaces = {"documents", "elsewhere"}
  Finals <- MCFinals
  MaxVersions <- MCVersions
  Recorded <- MCRecorded
  MaxGeneration = 3
  MaxDamages = 1
INVARIANTS
  AnswersFromProjection
  PagesStayTogether
