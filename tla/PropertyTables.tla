--------------------------- MODULE PropertyTables ---------------------------
(***************************************************************************)
(* The constant tables of the library: property types with their names,    *)
(* categories, traits and value types (SgfcConstants, SgfcPropertyType,    *)
(* SgfcPropertyMetaInfo), and the numbers of the game types.               *)
(*                                                                         *)
(* The enumeration value of a standard property has the property's name in *)
(* the source, and is its name here.                                       *)
(***************************************************************************)
EXTENDS Integers, Sequences

-----------------------------------------------------------------------------
(* Property types.                                                         *)

MoveTypes       == {"B", "KO", "MN", "W"}
SetupTypes      == {"AB", "AE", "AW", "PL"}
NodeAnnotations == {"C", "DM", "GB", "GW", "HO", "N", "UC", "V"}
MoveAnnotations == {"BM", "DO", "IT", "TE"}
MarkupTypes     == {"AR", "CR", "DD", "LB", "LN", "MA", "SL", "SQ", "TR"}
RootTypes       == {"AP", "CA", "FF", "GM", "ST", "SZ"}
GameInfoTypes   == {"AN", "BR", "BT", "CP", "DT", "EV", "GN", "GC", "ON", "OT", "PB", "PC", "PW",
                    "RE", "RO", "RU", "SO", "TM", "US", "WR", "WT"}
TimingTypes     == {"BL", "OB", "OW", "WL"}
OtherTypes      == {"FG", "PM", "VW"}
OldTypes        == {"BS", "CH", "EL", "EX", "ID", "L", "LT", "M", "OM", "OP", "OV", "RG", "SC", "SE",
                    "SI", "TC", "WS"}
GoTypes         == {"HA", "KM", "TB", "TW"}
UnknownType     == "Unknown"

StandardTypes ==
  MoveTypes \cup SetupTypes \cup NodeAnnotations \cup MoveAnnotations \cup MarkupTypes
    \cup RootTypes \cup GameInfoTypes \cup TimingTypes \cup OtherTypes \cup OldTypes \cup GoTypes
AllPropertyTypes == StandardTypes \cup {UnknownType}

(* Any other name is that of a custom property, whose type is unknown.     *)
MapPropertyNameToPropertyType(name) == IF name \in StandardTypes THEN name ELSE UnknownType

(* The type Unknown has no name: the mapping throws.                       *)
MapPropertyTypeToPropertyName(type) == IF type \in StandardTypes THEN type ELSE "invalid_argument"

MapPropertyTypeToPropertyCategory(type) ==
  CASE type \in MoveTypes -> "Move"
    [] type \in SetupTypes -> "Setup"
    [] type \in NodeAnnotations -> "NodeAnnotation"
    [] type \in MoveAnnotations \cup {"CH", "SI"} -> "MoveAnnotation"
    [] type \in MarkupTypes \cup {"L", "M", "RG", "SC", "TB", "TW"} -> "Markup"
    [] type \in RootTypes \cup {"LT"} -> "Root"
    [] type \in GameInfoTypes \cup {"BS", "ID", "WS", "HA", "KM"} -> "GameInfo"
    [] type \in TimingTypes \cup {"OM", "OP", "OV"} -> "Timing"
    [] OTHER -> "Miscellaneous"

MapPropertyTypeToPropertyTraits(type) == IF type \in {"DD", "PM", "VW"} THEN {"Inheritable"} ELSE {}

(* Only its position makes a node a root node, and nothing is              *)
(* miscellaneous about a node.                                             *)
MapPropertyCategoryToNodeTraits(category) ==
  IF category \in {"Root", "Miscellaneous"} THEN {} ELSE {category}

-----------------------------------------------------------------------------
(* Value types.  A descriptor names the types of a single value and of the *)
(* two parts of a composed one; it allows one of both, or (dual) both.     *)

Nothing == "no type"
Basic(type) == [kind |-> "basic", single |-> type, parts |-> <<Nothing, Nothing>>]
Composed(type1, type2) == [kind |-> "composed", single |-> Nothing, parts |-> <<type1, type2>>]
Dual(type, type1, type2) == [kind |-> "dual", single |-> type, parts |-> <<type1, type2>>]
ListOf(descriptor) == [descriptor EXCEPT !.kind = "list"]
ElistOf(descriptor) == [descriptor EXCEPT !.kind = "elist"]

ValueTypeDescriptor(type, gameType) ==
  CASE type \in {"B", "W", "EX"} -> Basic("Move")
    [] type \in {"KO", "DO", "IT", "LT"} -> Basic("None")
    [] type \in {"MN", "FF", "GM", "ST", "OB", "OW", "PM", "BS", "EL", "OM", "TC", "WS"} -> Basic("Number")
    [] type \in {"V", "TM", "BL", "WL", "OP", "OV"} -> Basic("Real")
    [] type \in {"DM", "GB", "GW", "HO", "UC", "BM", "TE", "CH", "SI"} -> Basic("Double")
    [] type = "PL" -> Basic("Color")
    [] type \in {"C", "GC", "ID"} -> Basic("Text")
    [] type \in {"N", "CA"} \cup (GameInfoTypes \ {"GC", "TM"}) -> Basic("SimpleText")
    [] type \in {"AB", "AW"} -> ListOf(Basic("Stone"))
    [] type \in {"AE", "CR", "MA", "SL", "SQ", "TR", "L", "M", "RG", "SC"} -> ListOf(Basic("Point"))
    [] type = "SE" -> IF gameType = "LinesOfAction" THEN Basic("Point") ELSE ListOf(Basic("Point"))
    [] type \in {"DD", "VW"} -> ElistOf(Basic("Point"))
    [] type \in {"AR", "LN"} -> ListOf(Composed("Point", "Point"))
    [] type = "LB" -> ListOf(Composed("Point", "SimpleText"))
    [] type = "AP" -> Composed("SimpleText", "SimpleText")
    [] type = "SZ" -> Dual("Number", "Number", "Number")
    [] type = "FG" -> Dual("None", "Number", "SimpleText")
    [] type = "HA" /\ gameType = "Go" -> Basic("Number")
    [] type = "KM" /\ gameType = "Go" -> Basic("Real")
    [] type \in {"TB", "TW"} /\ gameType = "Go" -> ElistOf(Basic("Point"))
    [] OTHER -> Basic(UnknownType)

(* What a value type is compared with: of a composed value, both parts.    *)
ElementHasValueType(descriptor, valueType) ==
  valueType \in {descriptor.single, descriptor.parts[1], descriptor.parts[2]} \ {Nothing}

CanPropertyHaveValueType(type, gameType, valueType) ==
  LET descriptor == ValueTypeDescriptor(type, gameType)
  IN  \/ ElementHasValueType(descriptor, valueType)
      \/ descriptor.kind = "elist" /\ valueType = "None"

-----------------------------------------------------------------------------
(* Game types.                                                             *)

GameTypes ==
  << "Go", "Othello", "Chess", "GomokuAndRenju", "NineMensMorris", "Backgammon", "ChineseChess",
     "Shogi", "LinesOfAction", "Ataxx", "Hex", "Jungle", "Neutron", "PhilosophersFootball",
     "Quadrature", "Trax", "Tantrix", "Amazons", "Octi", "Gess", "Twixt", "Zertz", "Plateau",
     "Yinsh", "Punct", "Gobblet", "Hive", "Exxit", "Hnefatal", "Kuba", "Tripples", "Chase",
     "TumblingDown", "Sahara", "Byte", "Focus", "Dvonn", "Tamsk", "Gipf", "Kropki" >>

DefaultGameType == "Go"
UnknownGameType == "Unknown"

MapNumberValueToGameType(number) ==
  IF number \in DOMAIN GameTypes THEN GameTypes[number] ELSE UnknownGameType

(* The game type Unknown has no number: the mapping throws.                *)
GameTypeHasNumber(gameType) == gameType # UnknownGameType
MapGameTypeToNumberValue(gameType) == CHOOSE number \in DOMAIN GameTypes : GameTypes[number] = gameType
=============================================================================
