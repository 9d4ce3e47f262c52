SPECIFICATION FairSpec
CONSTANTS
  Agents = {"x", "y"}
  MaxIterations = 2
  ToolCounts = {0, 2}
  MaxHistory = 4
INVARIANTS
  TypeOK
  NeverStartsWithTool
  OverLimitIsOneTurn
  SerialRequestsAreValid
  OwnTurnIsSent
  DoneIsLastAndOnce
PROPERTY AgentEnds
CHECK_DEADLOCK FALSE
