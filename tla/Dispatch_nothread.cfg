CONSTANTS
  None = None
  o1 = o1
  o2 = o2
  a1 = a1
  a2 = a2
  h1 = h1
  h2 = h2
  Owners <- OneOwner
  Answers <- TwoAnswers
  Handlers <- OneHandler
  ResultCounts <- ExactlyOne
  Rewrites = FALSE
  Throws = FALSE
  PoolSize = 1
  Timeouts <- FiniteOnly
SPECIFICATION Spec
INVARIANTS AllCommandsRun
CHECK_DEADLOCK FALSE
