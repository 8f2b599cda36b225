SPECIFICATION Spec
CONSTANTS
  None = None
  t1 = t1
  t2 = t2
  Documents <- MCDocuments
  KnownTypes = {"temperature", "on_off"}
  Kinds <- MCKinds
  Numbers = {0, 1, 2}
  LastSlots = {"AC881", "AeotecPir"}
  LastValues = {0, 150}
  Actions <- MCActions
  Measured <- MCMeasured
  ProductNodes <- MCProductNodes
  Changes <- MCChanges
  Commands <- MCCommands
  Devices = {"d1"}
  Contents <- MCContents
  Salts = {"s"}
  Algorithms = {"aes256", "des"}
  Iterations = {0, 2000}
  Foreign <- MCForeign
  GatewayNumbers <- MCGatewayNumbers
  DeviceNumbers <- MCDeviceNumbers
  Idents <- MCIdents
  Certificates <- MCCertificates
  Samples <- MCSamples
  Interval = 2
  MaxTime = 4
  MaxSamples = 3
  Threads = {t1, t2}
  MaxCalls = 3
  Passphrase <- MCPassphrase
  PrivateKey <- MCPrivateKey
  Protocols <- MCProtocols
  Chains <- MCChains
  Length = 4
INVARIANTS ReadsBack 
CHECK_DEADLOCK FALSE
