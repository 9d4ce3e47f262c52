CONSTANTS
  Agents = {"x"}
  A = "x"
  MaxIterations = 2
  ToolCounts = {0, 2}
  MaxHistory = 8
  Replies <- MCReplies
  MaxWait = 2
  Tools = {"time"}
  MaxWrite = 3
SPECIFICATION ChatSpec
INVARIANTS
  ChatTypeOK
  ReplyIsRelayed
  CallsAreWhole
  CancelIsPrompt
  ClientSeesReply
PROPERTY ChatEnds
CHECK_DEADLOCK FALSE
