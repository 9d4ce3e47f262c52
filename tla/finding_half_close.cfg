SPECIFICATION Spec
CONSTANTS
  a = a
  b = b
  Clients = {a, b}
  Fds = {f}
  Frames <- AllFrames
  Scripts <- Pipelined
  SockCap = 1
  MaxInFlight = 1
  MaxRead = 2
  MaxWrite = 2
  MaxConn = 2
  FdsRunOut = FALSE
  MaxCompletions = 1
  MaxChunks = 1
  NoConn = NoConn
  NoFd = NoFd
  IdleTimer = IdleTimer
  Listen = Listen
  Wakeup = Wakeup
PROPERTY HalfCloseKeepsOutput
