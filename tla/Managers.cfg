CONSTANTS
  None = None
  Devices <- SmallDevices
  Lists <- AllOrOne
  Values = {0, 1}
  MaxRequests = 2
  Switches <- OneSwitch
  NUMBER_OF_RETRIES = 2
  MAX_NUMBER_FAILED_REPEATS = 2
  MaxLoads = 1
  MaxSets = 1
  n1 = n1
  v1 = v1
  Nodes = {n1}
  NodeValues = {v1}
  MaxChanges = 3
SPECIFICATION Spec
INVARIANTS ManagersInv SwitchAgrees  NoStaleValues
PROPERTIES RepliesAreSeen RemovingEnds JablotronLoopGoesOn
CHECK_DEADLOCK FALSE
