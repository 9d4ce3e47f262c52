SPECIFICATION FairSpec
CONSTANTS
  MaxTimers = 3
  MaxTime = 3
  Delays = {0, 2}
  Intervals = {0, 1}
  NoTimer = NoTimer
INVARIANTS TypeOK BooksBalance NoOversleep
PROPERTIES ImplementsService DueIsServed
