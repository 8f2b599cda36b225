CONSTANTS
  None = None
  w1 = w1
  w2 = w2
  c1 = c1
  c2 = c2
  r1 = r1
  r2 = r2
  Dispatcher = Dispatcher
  Works <- OneWork
  Callers <- OneCaller
  Runners <- OneRunner
  Accepted <- OneWork
  Operations <- ScheduleCancel
  Outcomes <- Ending
  Sleeps <- AtOnce
  Again = FALSE
  MaxCalls = 2
  MaxTurns = 0
  MaxCrashes = 0
SPECIFICATION Spec
INVARIANTS NoEmbrace
CHECK_DEADLOCK FALSE
