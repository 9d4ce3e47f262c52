CONSTANTS
  Scripts <- MCScripts
  Files = {"/"}
  Outside = {"/../up"}
  MaxHeaderBytes = 18
  MaxHeaderCount = 2
  MaxBody = 3
  MaxRead = 32
SPECIFICATION Spec
INVARIANTS
  TypeOK
  NothingWaits
PROPERTIES
  ImplementsService
  TurnEnds
CHECK_DEADLOCK FALSE
