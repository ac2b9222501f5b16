CONSTANTS
  Years = {0, 2019, 2020}
  Months = {0, 1, 2}
  Days = {0, 1, 29}
  MaxDates = 3
  Columns = {1, 9, 19, 25, 27, 52, 53}
  Rows = {1, 9, 19, 25, 27, 52, 60}
  Numbers = {0, 1, 8, 9, 10, 19, 25, 26, 27, 52, 53, 60, 101}
  MaxInt = 100
  TextValues <- MCTextValues
  ShortTextValues <- MCShortTextValues
  RawValues <- MCRawValues
  ClientNumbers <- MCNumbers
  ClientReals <- MCReals
  NumberTexts <- MCNumberTexts
  RealTexts <- MCRealTexts
  MaxNumber = 1000
  RealPrecision = 3
  Scores <- MCScores
  Ranks <- MCRanks
  RoundNumbers <- MCRoundParts
  RoundTypes <- MCRoundParts
  ResultTexts <- MCResultTexts
  RankTexts <- MCRankTexts
  RoundTexts <- MCRoundTexts
  Nodes = {"root", "child", "grandchild"}
  NodeParent <- MCNodeParent
  NoNode = "none"
  Properties = {1, 2, 3}
  NoProperty = 0
  Namings <- MCNamings
  MaxArguments = 2
  RootValues <- MCRootValues
  MaxRootValues = 2
  IntegerParameters = {0, 1, 3, 4}
  MessageIDs <- MCMessageIDs
  PropertyTypeParameters = {"B", "HA", "Unknown"}
  Encodings = {"", "8", "UTF-8"}
  ShortEncodings = {"", "8"}
  MaxAdded = 2
SPECIFICATION Spec
\* A conversion ends.
CHECK_DEADLOCK FALSE
INVARIANTS
  DatesReadBack
  ComposedUnlessErroneous
  ValuesReadBack
  SkeletonIntact
  TypedValuesKept
  TextsReadBack
  UniqueProperties
  InheritedIsNearest
  DecoderAgreesWithGame
  ArgumentsTakeEffect
PROPERTIES
  ShortcutWherePossible
  NotationsAgree
  ImplementsPropertyMap
