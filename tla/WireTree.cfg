\* A tree that the case reader accepts cannot be sent.
SPECIFICATION Spec
CHECK_DEADLOCK FALSE
CONSTANTS
  MaxDepth = 4
  MaxNodes = 14
  MaxNesting = 12
  AtomOrder <- MCAtomOrder
  NumberOf <- MCNumberOf
  NoTolerance <- MCNoTolerance
  PyNumber <- MCPyNumber
  PySpelling <- MCPySpelling
  FloatText <- MCFloatText
  IntValue <- MCIntValue
  DefaultLimits <- MCDefaultLimits
  ValidSlugs = {"two-sum", "other", "2", "90", "null", "true"}
  MaxPayload = 80
  IntTexts = {"1", "2", "9007199254740992"}
  Trips <- MCTrips
  Apply <- MCApply
INVARIANT AcceptedCasesRun
