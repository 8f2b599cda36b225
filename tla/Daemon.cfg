CONSTANTS
  Classes <- GatewayClasses
  Directories <- GatewayDirectories
  Lines <- GatewayLines
  MaxAnswers = 1
SPECIFICATION Spec
INVARIANTS Wiring NobodyLeftBehind
PROPERTIES Terminates
CHECK_DEADLOCK FALSE
