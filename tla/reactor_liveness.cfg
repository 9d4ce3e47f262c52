SPECIFICATION ReadingSpec
CONSTANTS
  a = a
  b = b
  Clients = {a, b}
  Fds = {f, g}
  Frames <- AllFrames
  Scripts <- OneRequestEach
  SockCap = 1
  MaxInFlight = 1
  MaxRead = 2
  MaxWrite = 2
  MaxConn = 1
  FdsRunOut = FALSE
  MaxCompletions = 1
  MaxChunks = 1
  NoConn = NoConn
  NoFd = NoFd
  IdleTimer = IdleTimer
  Listen = Listen
  Wakeup = Wakeup
PROPERTIES IdleIsClosed CloseCompletes BacklogIsServed ChatIsClosed
