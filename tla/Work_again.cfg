CONSTANTS
  None = None
  w1 = w1
  w2 = w2
  c1 = c1
  c2 = c2
  r1 = r1
  r2 = r2
  Dispatcher = Dispatcher
  Works <- OneWork
  Callers <- TwoCallers
  Runners <- TwoRunners
  Accepted <- OneWork
  Operations <- AllOperations
  Outcomes <- AllOutcomes
  Sleeps <- AnySleep
  Again = TRUE
  MaxCalls = 4
  MaxTurns = 1
  MaxCrashes = 1
SPECIFICATION Spec
SYMMETRY Symmetry
INVARIANTS LInv OneExecution
CHECK_DEADLOCK FALSE
