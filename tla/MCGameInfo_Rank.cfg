CONSTANTS
  MaxNode = 1
  MaxEdit = 2
  TextTypes = {"BR", "WR"}
  GameTypes <- MCGameTypes
  BoardSizes <- MCBoardSizes
SPECIFICATION Spec
\* Undefined behaviour ends the behaviour.
CHECK_DEADLOCK FALSE
INVARIANT ValueAgreesWithText
