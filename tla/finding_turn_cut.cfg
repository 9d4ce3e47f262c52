SPECIFICATION Spec
CONSTANTS
  Agents = {"x", "y"}
  MaxIterations = 2
  ToolCounts = {0, 2}
  MaxHistory = 4
INVARIANT ToolsKeepTheirCalls
CHECK_DEADLOCK FALSE
