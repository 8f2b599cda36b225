CONSTANTS
  None = None
  o1 = o1
  o2 = o2
  a1 = a1
  a2 = a2
  h1 = h1
  h2 = h2
  Owners <- OneOwner
  Answers <- OneAnswer
  Handlers <- TwoHandlers
  ResultCounts <- UpToTwo
  Rewrites = TRUE
  Throws = TRUE
  PoolSize = 1
  Timeouts <- AllTimeouts
SPECIFICATION LiveSpec
INVARIANTS IInv NoLostUpdate NoMissedWakeup
PROPERTIES Delivers EveryUpdateReported
CHECK_DEADLOCK FALSE
