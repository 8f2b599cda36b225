CONSTANTS
  None = None
  w1 = w1
  w2 = w2
  c1 = c1
  c2 = c2
  r1 = r1
  r2 = r2
  Dispatcher = Dispatcher
  Works <- TwoWorks
  Callers <- OneCaller
  Runners <- OneRunner
  Accepted <- OneWork
  Operations <- NoCancel
  Outcomes <- Ending
  Sleeps <- Timed
  Again = FALSE
  MaxCalls = 3
  MaxTurns = 1
  MaxCrashes = 1
SPECIFICATION FairSpec
INVARIANTS ExecutionIsRecorded  OnePlace
PROPERTIES KeepsLifecycle EveryWorkEnds StopsInTheEnd
CHECK_DEADLOCK FALSE
