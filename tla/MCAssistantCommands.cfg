SPECIFICATION AssistantSpec
CONSTANTS
  Commands <- MCCommands
  Costs = {1}
  Limit = 2
  MaxAttempts = 2
  MaxPending = 2
  MaxSends = 2
  Neighbors = 1
  Latest = 3
  Samples = 3
  Closing = 2
  MaxSelected = 3
  Room = 4
  Purposes <- MCPurposes
  Meetings <- MCMeetings
  MaxTroubles = 1
INVARIANTS
  LimitKept
  BillCovered
  UsageCounted
  SummaryKept
  PromptsFit
CHECK_DEADLOCK FALSE
