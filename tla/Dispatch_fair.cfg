CONSTANTS
  None = None
  o1 = o1
  o2 = o2
  a1 = a1
  a2 = a2
  h1 = h1
  h2 = h2
  Owners <- OneOwner
  Answers <- OneAnswer
  Handlers <- TwoHandlers
  ResultCounts <- ExactlyOne
  Rewrites = FALSE
  Throws = FALSE
  PoolSize = 2
  Timeouts <- AllTimeouts
SPECIFICATION FairSpec
INVARIANTS RemovedIsComplete
PROPERTIES RemovedIsFinal EveryAnswerLeaves DeliversInTheEnd
CHECK_DEADLOCK FALSE
