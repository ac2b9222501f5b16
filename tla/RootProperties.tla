--------------------------- MODULE RootProperties ---------------------------
(***************************************************************************)
(* The type of a game and the size of its board: the properties GM and SZ  *)
(* of the root node, which a client makes and edits (SgfcPropertyFactory,  *)
(* SgfcGameTypeProperty, SgfcBoardSizeProperty, SgfcProperty), as a game   *)
(* interprets them (SgfcGame, SgfcGameUtility), and as the decoder         *)
(* interprets those that SGFC delivers, before it decodes the nodes of the *)
(* game (SgfcPropertyDecoder).                                             *)
(***************************************************************************)
EXTENDS PropertyTables, SequencesExt

CONSTANTS
  RootValues,      \* values of a property, see below
  MaxRootValues    \* bound: number of values of a property

ASSUME RootAssumption ==
  /\ \A value \in RootValues : value \in Seq(Int) /\ Len(value) \in {1, 2}
  /\ MaxRootValues \in Nat

VARIABLES
  rootStage,        \* "client", "written", "read", or an exception
  rootProperties,   \* the values of GM and SZ, of those that the root node has
  written,          \* what the game was before it was written
  decoded           \* the game type and board size that its nodes are decoded for

rootVars == <<rootStage, rootProperties, written, decoded>>

-----------------------------------------------------------------------------
(* Values: a sequence of one number, or of the two of a composed value;    *)
(* what is not a number is NotANumber.  There is one object of each value. *)

Single(number) == <<number>>
Pair(number1, number2) == <<number1, number2>>
NotANumber == -1000

RootNumbers == UNION {Range(value) : value \in RootValues} \ {NotANumber}
AreNumbers(value) == NotANumber \notin Range(value)

Has(type) == type \in DOMAIN rootProperties
ValuesOf(type) == IF Has(type) THEN rootProperties[type] ELSE <<>>

-----------------------------------------------------------------------------
(* SgfcBoardSize.                                                          *)

MaximumGo == 52
BoardSizeNone == <<-1, -1>>
BoardSizeInvalid == <<-2, -2>>

IsValidSize(size, game) ==
  \A i \in {1, 2} : size[i] >= 1 /\ (game = "Go" => size[i] <= MaximumGo)

GetDefaultBoardSize(game) ==
  CASE game = "Go" -> <<19, 19>> [] game = "Chess" -> <<8, 8>> [] OTHER -> BoardSizeNone

-----------------------------------------------------------------------------
(* SgfcGameUtility, from the values of a property.                         *)

GameTypeNaN == NotANumber

GetGameTypeAsNumber(list) ==
  CASE list = <<>> -> MapGameTypeToNumberValue(DefaultGameType)
    [] Len(list) = 1 /\ Len(list[1]) = 1 /\ AreNumbers(list[1]) -> list[1][1]
    [] OTHER -> GameTypeNaN

GetGameType(list) == MapNumberValueToGameType(GetGameTypeAsNumber(list))

SizeOf(value) == <<value[1], value[Len(value)]>>

GetBoardSize(list, game) ==
  CASE list = <<>> -> GetDefaultBoardSize(game)
    [] Len(list) = 1 /\ AreNumbers(list[1]) /\ IsValidSize(SizeOf(list[1]), game) -> SizeOf(list[1])
    [] OTHER -> BoardSizeInvalid

(* SgfcGame: no property is like one without a value.                      *)
GameOf(type) ==
  LET game == GetGameType(ValuesOf("GM"))
  IN  IF type = "GM" THEN game ELSE GetBoardSize(ValuesOf("SZ"), game)

-----------------------------------------------------------------------------
(* The client.                                                             *)

(* What the constructors of the typed properties, and the factory, accept. *)
CanCreateProperty(type, list) ==
  \/ list = <<>>
  \/ /\ Len(list) = 1 /\ AreNumbers(list[1])
     /\ type = "GM" => Len(list[1]) = 1

(* SgfcPropertyValueFactory: the values of a type and of a size.           *)
CreateGameTypePropertyValue(game) == Single(MapGameTypeToNumberValue(game))

CreateBoardSizePropertyValue(size) ==
  IF size[1] = size[2] THEN Single(size[1]) ELSE Pair(size[1], size[2])

SetRoot(type, list) ==
  /\ rootProperties' = [t \in DOMAIN rootProperties \cup {type} |->
                           IF t = type THEN list ELSE rootProperties[t]]
  /\ UNCHANGED <<rootStage, written, decoded>>

Lists == {list \in UNION {[1..n -> RootValues] : n \in 0..MaxRootValues} : IsInjective(list)}

(* A new property is set in the root node, or its property is removed.     *)
CreateRootProperty(type) ==
  /\ rootStage = "client"
  /\ \E list \in Lists : CanCreateProperty(type, list) /\ SetRoot(type, list)

RemoveRootProperty(type) ==
  /\ rootStage = "client" /\ Has(type)
  /\ rootProperties' = Restrict(rootProperties, DOMAIN rootProperties \ {type})
  /\ UNCHANGED <<rootStage, written, decoded>>

(* The property of a type or of a size that the client chooses; the        *)
(* factory refuses an unknown type, and a size that is not valid in it.    *)
SetGameType(game) ==
  /\ rootStage = "client" /\ game # UnknownGameType
  /\ SetRoot("GM", <<CreateGameTypePropertyValue(game)>>)

SetBoardSize(size) ==
  /\ rootStage = "client" /\ GameOf("GM") # UnknownGameType /\ IsValidSize(size, GameOf("GM"))
  /\ SetRoot("SZ", <<CreateBoardSizePropertyValue(size)>>)

(* SgfcProperty changes its values whatever its type requires: all of      *)
(* them, or one.                                                           *)
SetPropertyValues(type) ==
  /\ rootStage = "client" /\ Has(type)
  /\ \E list \in Lists : SetRoot(type, list)

AppendPropertyValue(type) ==
  /\ rootStage = "client" /\ Has(type)
  /\ Len(rootProperties[type]) < MaxRootValues
  /\ \E value \in RootValues \ Range(rootProperties[type]) :
       SetRoot(type, Append(rootProperties[type], value))

RemovePropertyValue(type) ==
  /\ rootStage = "client"
  /\ \E value \in Range(ValuesOf(type)) : SetRoot(type, RemoveFirst(rootProperties[type], value))

-----------------------------------------------------------------------------
(* SGFC: of several values the first is taken.  It adds a game type that   *)
(* is missing, or is not a number; in a game of Go also a size; in other   *)
(* games it removes a size that is not one.  A number that cannot be a     *)
(* size may be kept.                                                       *)

CorrectedGameType ==
  LET list == ValuesOf("GM")
  IN  IF list # <<>> /\ Len(list[1]) = 1 /\ AreNumbers(list[1]) THEN list[1] ELSE Single(1)

CorrectedBoardSizes ==
  LET list    == ValuesOf("SZ")
      game    == MapNumberValueToGameType(CorrectedGameType[1])
      default == IF game = "Go" THEN {[SZ |-> <<Single(19)>>]} ELSE {<<>>}
      kept    == [SZ |-> <<CreateBoardSizePropertyValue(SizeOf(list[1]))>>]
  IN  IF list = <<>> \/ ~AreNumbers(list[1]) THEN default
      ELSE IF IsValidSize(SizeOf(list[1]), game) THEN {kept}
      ELSE default \cup {kept}

WriteAndCorrect ==
  /\ rootStage = "client"
  /\ rootStage' = "written"
  /\ written' = [type \in {"GM", "SZ"} |-> GameOf(type)]
  /\ \E size \in CorrectedBoardSizes :
       rootProperties' = [type \in {"GM"} \cup DOMAIN size |->
                            IF type = "GM" THEN <<CorrectedGameType>> ELSE size[type]]
  /\ UNCHANGED decoded

-----------------------------------------------------------------------------
(* The decoder.                                                            *)

(* Otherwise one of them throws std::domain_error.                        *)
IsDecodable(type) == Has(type) => ValuesOf(type) # <<>> /\ AreNumbers(ValuesOf(type)[1])

(* The values that the decoder makes of the first one that SGFC delivers.  *)
DecodedValues(type) == SubSeq(ValuesOf(type), 1, 1)

GetGameTypeFromNode == IF Has("GM") THEN GetGameType(DecodedValues("GM")) ELSE DefaultGameType

(* Mutant: a game without the property has the board of a game of Go.      *)
GetGoBoardSizeFromNode(game) ==
  IF Has("SZ") THEN GetBoardSize(DecodedValues("SZ"), game) ELSE <<19, 19>>

GetBoardSizeFromNode(game) ==
  IF Has("SZ") THEN GetBoardSize(DecodedValues("SZ"), game) ELSE GetDefaultBoardSize(game)

(* The properties of the game that is made are those of SGFC.              *)
ReadRoot ==
  /\ rootStage = "written"
  /\ IF IsDecodable("GM") /\ IsDecodable("SZ")
     THEN /\ rootStage' = "read"
          /\ decoded' = [GM |-> GetGameTypeFromNode, SZ |-> GetBoardSizeFromNode(GetGameTypeFromNode)]
     ELSE rootStage' = "domain_error" /\ UNCHANGED decoded
  /\ UNCHANGED <<rootProperties, written>>

(* What was read is edited and written again.                              *)
EditReadRoot ==
  /\ rootStage = "read"
  /\ rootStage' = "client"
  /\ written' = <<>> /\ decoded' = <<>>
  /\ UNCHANGED rootProperties

-----------------------------------------------------------------------------
NoRoot == rootProperties = <<>> /\ written = <<>> /\ decoded = <<>>
RootInit == rootStage = "client" /\ NoRoot
RootIdle == rootStage = "idle" /\ NoRoot

RootNext ==
  \/ \E type \in {"GM", "SZ"} :
       \/ CreateRootProperty(type) \/ RemoveRootProperty(type)
       \/ SetPropertyValues(type) \/ AppendPropertyValue(type) \/ RemovePropertyValue(type)
  \/ \E number \in RootNumbers : SetGameType(MapNumberValueToGameType(number))
  \/ \E size \in RootNumbers \X RootNumbers : SetBoardSize(size)
  \/ WriteAndCorrect \/ ReadRoot \/ EditReadRoot

RootSpec == RootInit /\ [][RootNext]_rootVars

-----------------------------------------------------------------------------
(* Properties.                                                             *)

(* What the decoder took for the type and size of a game when it decoded   *)
(* its moves, stones and points is what the game says afterwards, and what *)
(* is used to encode them again; and a game that had a known type, and a   *)
(* valid size, before it was written has them still.                       *)
DecoderAgreesWithGame ==
  /\ rootStage # "domain_error"
  /\ rootStage = "read" =>
       /\ decoded = [GM |-> GameOf("GM"), SZ |-> GameOf("SZ")]
       /\ written["GM"] # UnknownGameType =>
            /\ decoded["GM"] = written["GM"]
            /\ written["SZ"] # BoardSizeInvalid => decoded["SZ"] = written["SZ"]
=============================================================================
