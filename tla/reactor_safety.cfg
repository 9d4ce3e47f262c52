SPECIFICATION Spec
CONSTANTS
  a = a
  b = b
  Clients = {a, b}
  Fds = {f}
  Frames <- AllFrames
  Scripts <- HttpAndStream
  SockCap = 1
  MaxInFlight = 1
  MaxRead = 2
  MaxWrite = 2
  MaxConn = 2
  FdsRunOut = TRUE
  MaxCompletions = 1
  MaxChunks = 1
  NoConn = NoConn
  NoFd = NoFd
  IdleTimer = IdleTimer
  Listen = Listen
  Wakeup = Wakeup
INVARIANTS TypeOK TablesAgree NoLostEdge EofIsAnswered TurnEndsClean CancelReachesAgent FlushFindsSse
