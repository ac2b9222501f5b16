CONSTANTS
  MaxNode = 3
  MaxEdit = 2
  TextTypes = {"RE"}
  GameTypes <- MCGameTypes
  BoardSizes <- MCBoardSizes
SPECIFICATION Spec
\* Undefined behaviour ends the behaviour.
CHECK_DEADLOCK FALSE
PROPERTY WrittenWithoutGameInfoNode
