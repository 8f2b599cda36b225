CONSTANTS
  d1 = d1
  d2 = d2
  c1 = c1
  jablotron = jablotron
  None = None
  Error = Error
  Daemons = {d1, d2}
  Technologies = {jablotron}
  PrefixOf <- SamePrefix
  Commands = {c1}
  UINT8_MAX = 1
  MaxBoots = 3
  MaxRequests = 1
  MaxIds = 3
SPECIFICATION Spec
INVARIANTS BInv ResultMeetsCommand
  

CHECK_DEADLOCK FALSE
