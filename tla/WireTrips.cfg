\* The trip of one case: 4 levels, 14 nodes, every kind of value and target.
SPECIFICATION Spec
CHECK_DEADLOCK FALSE
CONSTANTS
  MaxDepth = 4
  MaxNodes = 14
  MaxNesting = 12
  AtomOrder <- MCAtomOrder
  NumberOf <- MCNumberOf
  NoTolerance <- MCNoTolerance
  PyNumber <- MCPyNumber
  PySpelling <- MCPySpelling
  FloatText <- MCFloatText
  IntValue <- MCIntValue
  DefaultLimits <- MCDefaultLimits
  ValidSlugs = {"two-sum", "other", "2", "90", "null", "true"}
  MaxPayload = 80
  IntTexts = {"1", "2", "9007199254740992"}
  Trips <- MCTrips
  Apply <- MCApply
INVARIANT EchoIsJudged NoFalsePass ArgumentsAreDeclared StartersRun CanonicalFormIsUnique MirrorAgrees AnswersAreClassified
