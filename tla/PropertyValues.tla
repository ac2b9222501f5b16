--------------------------- MODULE PropertyValues ---------------------------
(***************************************************************************)
(* The values of a property, as they are written and read: the encoder     *)
(* (SgfcDocumentEncoder) forms the SGF text of a property, adding escape   *)
(* characters; SGFC parses it, removing them; the decoder                  *)
(* (SgfcPropertyDecoder) makes values of what SGFC delivers, according to  *)
(* the type of the property.  What was read may be written again.          *)
(*                                                                         *)
(* A value is a single one, or composed of two; the texts are sequences of *)
(* characters, those with a meaning in SGF, and letters and digits for all *)
(* others.                                                                 *)
(***************************************************************************)
EXTENDS PropertyTables, SequencesExt

CONSTANTS
  TextValues,        \* values of type Text and SimpleText
  ShortTextValues,   \* those in a composed value
  RawValues          \* values of type Point, Move, Stone of games but Go,
                     \* and of custom properties

VARIABLES
  valueStage,    \* "client", "written", "read", or an exception
  propertyType,  \* the property, and
  gameType,      \* the type of the game that it belongs to
  escapeProcessingEnabled,  \* whether the decoder, and not SGFC, removes escape characters
  values,        \* its values, as the client has set or read them
  sgf,           \* the SGF text of the values
  readValues     \* the values read from it, by SGFC and then by the decoder

valueVars == <<valueStage, propertyType, gameType, escapeProcessingEnabled, values, sgf, readValues>>

-----------------------------------------------------------------------------
(* Property types: one of each descriptor, and those whose type depends on *)
(* the game or whose moves have no color.                                  *)

PropertyTypes ==
  {"KO", "MN", "V", "PL", "DM", "C", "N", "B", "EX", "AB", "AE", "DD", "AP", "LB", "AR", "SZ", "FG",
   "SE", "HA", "TB", UnknownType}

(* LinesOfAction stands for all games but Go.                              *)
PlayedGames == {"Go", "LinesOfAction"}

(* Every type has, in every game, the descriptor of one of those.          *)
ASSUME RepresentativesAssumption ==
  \A type \in AllPropertyTypes, game \in Range(GameTypes) \cup {UnknownGameType} :
    \E other \in PropertyTypes, played \in PlayedGames :
      /\ (played = "Go") = (game = "Go")
      /\ ValueTypeDescriptor(other, played) = ValueTypeDescriptor(type, game)

TextTypes == {"Text", "SimpleText"}
RawTypes == {"Point", "Move", "Stone"}
StrictTypes == {"Number", "Real", "Double", "Color"}

(* SGFC splits a rectangle of points or stones, of games but Go, into two. *)
IsCompressible(descriptor) ==
  descriptor.kind \in {"list", "elist"} /\ descriptor.single \in {"Point", "Stone"}

PartTypes(descriptor) ==
  IF IsCompressible(descriptor) THEN <<descriptor.single, descriptor.single>> ELSE descriptor.parts

-----------------------------------------------------------------------------
(* Characters.                                                             *)

Escape == "\\"
ValueBegin == "["
ValueEnd == "]"
Separator == ":"
LineEnding == "line ending"
Space == "space"

ASSUME ValuesAssumption == TextValues \cup ShortTextValues \cup RawValues \subseteq Seq(STRING)

Replace(text, character, replacement) ==
  FlattenSeq([i \in DOMAIN text |-> IF text[i] = character THEN replacement ELSE <<text[i]>>])

(* A value is the sequence of its texts: one, or two if it is composed.    *)
IsComposed(value) == Len(value) = 2
TypesOf(value, descriptor) ==
  IF IsComposed(value) THEN PartTypes(descriptor) ELSE <<descriptor.single>>

-----------------------------------------------------------------------------
(* The encoder.                                                            *)

(* Mutants: the end of the value is escaped before the escape characters   *)
(* are; the separator is escaped in no value.                              *)
EscapedInWrongOrder(text, isFirst) ==
  Replace(Replace(text, ValueEnd, <<Escape, ValueEnd>>), Escape, <<Escape, Escape>>)
EndEscaped(text, isFirst) == Replace(text, ValueEnd, <<Escape, ValueEnd>>)

AddMandatoryEscapeCharacters(text, isFirst) ==
  LET result == Replace(text, ValueEnd, <<Escape, ValueEnd>>)
  IN  IF isFirst THEN Replace(result, Separator, <<Escape, Separator>>) ELSE result

AddSimpleTextAndTextEscapeCharacters(text, isFirst) ==
  AddMandatoryEscapeCharacters(Replace(text, Escape, <<Escape, Escape>>), isFirst)

IsRaw(type) == type = UnknownType \/ (type \in RawTypes /\ gameType # "Go")

(* Texts of Go are points in SGF notation, the others have a strict form.  *)
EncodeSingleValue(text, type, isFirst) ==
  CASE type \in TextTypes -> AddSimpleTextAndTextEscapeCharacters(text, isFirst)
    [] IsRaw(type) -> AddMandatoryEscapeCharacters(text, isFirst)
    [] OTHER -> text

EncodePropertyValue(value, descriptor) ==
  LET types == TypesOf(value, descriptor)
  IN  <<ValueBegin>>
        \o (IF IsComposed(value)
            THEN EncodeSingleValue(value[1], types[1], TRUE) \o <<Separator>>
                   \o EncodeSingleValue(value[2], types[2], FALSE)
            ELSE EncodeSingleValue(value[1], types[1], FALSE))
        \o <<ValueEnd>>

EncodeProperty(descriptor) ==
  IF values = <<>>
  THEN <<ValueBegin, ValueEnd>>
  ELSE FlattenSeq([k \in DOMAIN values |-> EncodePropertyValue(values[k], descriptor)])

-----------------------------------------------------------------------------
(* SGFC: the text of a property is split into its values, a value at its   *)
(* first separator if its type may be composed; escape characters are      *)
(* removed, with the line ending that follows one; other line endings are  *)
(* spaces in a SimpleText.  Older versions keep the escape characters that *)
(* are needed.  What is outside of the brackets, or lacks its closing one, *)
(* is not a part of the property any more.                                 *)

Unescape(text, escaped, type) ==
  FlattenSeq([i \in DOMAIN text |->
    CASE escaped[i] -> IF text[i] = LineEnding THEN <<>> ELSE <<text[i]>>
      [] ~escaped[i] /\ text[i] = Escape /\ escapeProcessingEnabled -> <<Escape>>
      [] ~escaped[i] /\ text[i] = Escape /\ ~escapeProcessingEnabled -> <<>>
      [] ~escaped[i] /\ text[i] = LineEnding /\ type = "SimpleText" -> <<Space>>
      [] OTHER -> <<text[i]>>])

(* Whether each character of a text is escaped by the one before it.       *)
Escaped(text) ==
  LET escaped[i \in 1..Len(text)] == i > 1 /\ text[i - 1] = Escape /\ ~escaped[i - 1]
  IN  [i \in DOMAIN text |-> escaped[i]]

Unescaped(text, character) == {i \in DOMAIN text : text[i] = character /\ ~Escaped(text)[i]}

ParseValue(text, descriptor) ==
  LET types      == PartTypes(descriptor)
      separators == IF types[1] = Nothing THEN {} ELSE Unescaped(text, Separator)
      escaped    == Escaped(text)
      part(from, to, type) == Unescape(SubSeq(text, from, to), SubSeq(escaped, from, to), type)
  IN  IF separators = {}
      THEN <<part(1, Len(text), IF descriptor.single # Nothing THEN descriptor.single ELSE types[1])>>
      ELSE <<part(1, Min(separators) - 1, types[1]), part(Min(separators) + 1, Len(text), types[2])>>

(* Where the values of a text end, one after the other.                    *)
ValueEnds(text) ==
  LET ends == Unescaped(text, ValueEnd)
  IN  FlattenSeq([i \in DOMAIN text |-> IF i \in ends THEN <<i>> ELSE <<>>])

(* The values begin where the text begins, or the one before them ends.    *)
Parse(text, descriptor) ==
  LET ends     == ValueEnds(text)
      begin(k) == IF k = 1 THEN 1 ELSE ends[k - 1] + 1
  IN  [ intact |-> /\ \A k \in DOMAIN ends : text[begin(k)] = ValueBegin
                   /\ ends # <<>> /\ Last(ends) = Len(text),
        values |-> [k \in DOMAIN ends |->
                     ParseValue(SubSeq(text, begin(k) + 1, ends[k] - 1), descriptor)] ]

-----------------------------------------------------------------------------
(* The decoder.  It removes escape characters only if a caller enables     *)
(* that, line endings that are escaped always.                             *)

RemoveTextLineBreaks(text) ==
  LET isEscape(i) == text[i] = Escape /\ i < Len(text) /\ text[i + 1] = LineEnding
      isEscaped(i) == i > 1 /\ isEscape(i - 1)
  IN  FlattenSeq([i \in DOMAIN text |->
                   IF isEscape(i) \/ isEscaped(i) THEN <<>> ELSE <<text[i]>>])

RemoveSimpleTextLineBreaks(text) ==
  Replace(RemoveTextLineBreaks(text), LineEnding, <<Space>>)

(* A regular expression replaces pairs from left to right.                 *)
ReplacePair(text, character) ==
  LET first[i \in 0..Len(text)] ==
        /\ i \in 1..(Len(text) - 1) /\ text[i] = Escape /\ text[i + 1] = character
        /\ ~(character = Escape /\ first[i - 1])
  IN  FlattenSeq([i \in DOMAIN text |-> IF first[i] THEN <<>> ELSE <<text[i]>>])

RemoveMandatoryEscapeCharacters(text) == ReplacePair(text, ValueEnd)

RemoveSimpleTextAndTextEscapeCharacters(text, isComposed) ==
  LET result == RemoveMandatoryEscapeCharacters(text)
  IN  ReplacePair(IF isComposed THEN ReplacePair(result, Separator) ELSE result, Escape)

RemoveMoveAndPointAndStoneEscapeCharactersForNonGoGameTypes(text, isFirst) ==
  LET result == RemoveMandatoryEscapeCharacters(text)
  IN  IF isFirst THEN ReplacePair(result, Separator) ELSE result

ProcessEscapes(text, type, isFirst, isComposed) ==
  CASE type \in TextTypes -> RemoveSimpleTextAndTextEscapeCharacters(text, isComposed)
    [] type \in RawTypes /\ gameType # "Go" ->
         RemoveMoveAndPointAndStoneEscapeCharactersForNonGoGameTypes(text, isFirst)
    [] type = UnknownType -> RemoveMandatoryEscapeCharacters(text)
    [] OTHER -> text

DecodeSingleValue(text, type, isFirst, isComposed) ==
  LET result == CASE type = "Text" -> RemoveTextLineBreaks(text)
                  [] type = "SimpleText" -> RemoveSimpleTextLineBreaks(text)
                  [] OTHER -> text
  IN  IF escapeProcessingEnabled THEN ProcessEscapes(result, type, isFirst, isComposed) ELSE result

(* The color of the moves and stones of a Go game is that of the property, *)
(* if it has one.                                                          *)
HasColor(type) ==
  type \in {"B", "AB", "GB", "BR", "BT", "PB", "BL", "OB", "TB",
            "W", "AW", "GW", "WR", "WT", "PW", "WL", "OW", "TW"}

(* A value that does not fit its descriptor, or a move without a color,    *)
(* makes the decoder throw.                                                *)
Fits(value, descriptor) ==
  IF IsComposed(value)
  THEN \/ descriptor.parts[1] # Nothing
       \/ IsCompressible(descriptor) /\ gameType # "Go"
  ELSE /\ descriptor.single # Nothing
       /\ gameType = "Go" /\ descriptor.single \in {"Move", "Stone"} => HasColor(propertyType)

DecodeValue(value, descriptor) ==
  [i \in DOMAIN value |->
    DecodeSingleValue(value[i], TypesOf(value, descriptor)[i], IsComposed(value) /\ i = 1, IsComposed(value))]

(* The values of SGFC that are looked at: the first only, unless the       *)
(* property has a list of them, and none if its first is empty in an elist *)
(* or if it has no value type.                                             *)
RelevantValues(parsed, descriptor) ==
  CASE descriptor.kind = "list" -> parsed
    [] descriptor.kind = "elist" -> IF parsed[1][1] = <<>> THEN <<>> ELSE parsed
    [] descriptor.single = "None" /\ ~IsComposed(parsed[1]) -> <<>>
    [] OTHER -> <<parsed[1]>>

GetPropertyValues(parsed, descriptor) ==
  LET relevant == RelevantValues(parsed, descriptor)
  IN  [k \in DOMAIN relevant |-> DecodeValue(relevant[k], descriptor)]

-----------------------------------------------------------------------------
(* The values that a client may set.                                       *)
Letter == <<"a">>

SingleValues(type, game, composed) ==
  CASE type \in StrictTypes -> {<<"7">>}
    [] type \in TextTypes -> IF composed THEN ShortTextValues ELSE TextValues
    [] type \in RawTypes /\ game = "Go" -> {Letter}
    [] type = UnknownType \/ (type \in RawTypes /\ game # "Go") -> RawValues
    [] OTHER -> {}

ElementValues(descriptor, game) ==
  LET parts == PartTypes(descriptor)
  IN  {<<text>> : text \in SingleValues(descriptor.single, game, FALSE)}
        \cup (IF IsCompressible(descriptor) /\ game = "Go"
              THEN {}
              ELSE SingleValues(parts[1], game, TRUE) \X SingleValues(parts[2], game, TRUE))

(* In a list, and in a custom property, a value may be followed by a       *)
(* simple one.                                                             *)
ClientValues(descriptor, game) ==
  LET elements == ElementValues(descriptor, game)
      simple   == IF descriptor.single # Nothing THEN <<Letter>> ELSE <<Letter, Letter>>
  IN  {<<value>> : value \in elements}
        \cup (IF descriptor.kind \in {"list", "elist"} \/ descriptor.single = UnknownType
              THEN {<<value, simple>> : value \in elements}
              ELSE {})
        \cup (IF descriptor.kind = "elist" \/ descriptor.single = "None" THEN {<<>>} ELSE {})

ValueNone == sgf = <<>> /\ readValues = <<>>
ValueInit ==
  /\ valueStage = "client"
  /\ propertyType \in PropertyTypes /\ gameType \in PlayedGames /\ escapeProcessingEnabled \in BOOLEAN
  /\ values \in ClientValues(ValueTypeDescriptor(propertyType, gameType), gameType)
  /\ ValueNone
ValueIdle ==
  /\ valueStage = "idle" /\ propertyType = "KO" /\ gameType = "Go" /\ escapeProcessingEnabled = FALSE
  /\ values = <<>> /\ ValueNone

Encode ==
  /\ valueStage = "client"
  /\ valueStage' = "written"
  /\ sgf' = EncodeProperty(ValueTypeDescriptor(propertyType, gameType))
  /\ UNCHANGED <<propertyType, gameType, escapeProcessingEnabled, values, readValues>>

Decode ==
  /\ valueStage = "written"
  /\ LET descriptor == ValueTypeDescriptor(propertyType, gameType)
         parsed     == Parse(sgf, descriptor)
         relevant   == RelevantValues(parsed.values, descriptor)
     IN  CASE ~parsed.intact ->
                valueStage' = "broken" /\ UNCHANGED readValues
           [] parsed.intact /\ \E k \in DOMAIN relevant : ~Fits(relevant[k], descriptor) ->
                valueStage' = "throws" /\ UNCHANGED readValues
           [] OTHER ->
                valueStage' = "read" /\ readValues' = GetPropertyValues(parsed.values, descriptor)
  /\ UNCHANGED <<propertyType, gameType, escapeProcessingEnabled, values, sgf>>

(* What was read is written again.                                         *)
TakeReadValues ==
  /\ valueStage = "read"
  /\ valueStage' = "client"
  /\ values' = readValues
  /\ sgf' = <<>>
  /\ readValues' = <<>>
  /\ UNCHANGED <<propertyType, gameType, escapeProcessingEnabled>>

ValueNext == Encode \/ Decode \/ TakeReadValues
ValueSpec == ValueInit /\ [][ValueNext]_valueVars

-----------------------------------------------------------------------------
(* Properties.                                                             *)

Descriptor == ValueTypeDescriptor(propertyType, gameType)

(* The texts of the values, with their types.                              *)
TypedTexts ==
  UNION {{<<values[k][i], TypesOf(values[k], Descriptor)[i]>> : i \in DOMAIN values[k]} : k \in DOMAIN values}

HasPair(text, first, second) == \E i \in 1..(Len(text) - 1) : text[i] = first /\ text[i + 1] = second

(* What libsgfc++ leaves to its client: escape characters, and separators  *)
(* of single values, in points, moves and stones that are not of Go, and   *)
(* escape characters of custom values.                                     *)
HasRawEscape == \E t \in TypedTexts : IsRaw(t[2]) /\ Escape \in Range(t[1])
HasRawSeparator ==
  /\ IsCompressible(Descriptor)
  /\ \E k \in DOMAIN values : ~IsComposed(values[k]) /\ Separator \in Range(values[k][1])

(* A Text with an escape character before a line ending loses both: they   *)
(* are escaped in the file and unescaped by SGFC, and then the decoder     *)
(* takes them for a line ending that is escaped.                           *)
HasEscapedLineEnding ==
  \E t \in TypedTexts : t[2] = "Text" /\ HasPair(t[1], Escape, LineEnding)

(* Of several values of a custom property, or of one that is special to Go *)
(* in another game, only the first is read.                                *)
HasDroppedValues == Descriptor.single = UnknownType /\ Len(values) > 1

(* The decoder takes an empty first value of an elist for the empty list:  *)
(* a point without any character, which a client can make in all games but *)
(* Go, or one of which nothing is left when SGFC has removed the escaped   *)
(* line ending at its beginning.                                           *)
BeginsErased(text) == Len(text) > 1 /\ text[1] = Escape /\ text[2] = LineEnding

HasVanishingValue ==
  /\ Descriptor.kind = "elist" /\ values # <<>>
  /\ values[1][1] = <<>> \/ BeginsErased(values[1][1])

(* EX has moves but no color, which the decoder does not expect.           *)
HasMoveWithoutColor == gameType = "Go" /\ propertyType = "EX"

ReadAs(text, type) == IF type = "SimpleText" THEN Replace(text, LineEnding, <<Space>>) ELSE text

(* The types that the meta information of the property announces.          *)
HasAnnouncedTypes ==
  LET announced(type) == CanPropertyHaveValueType(propertyType, gameType, type)
  IN  /\ readValues = <<>> => announced("None")
      /\ \A k \in DOMAIN readValues : \A i \in DOMAIN readValues[k] :
           announced(TypesOf(readValues[k], Descriptor)[i])

(* "Library clients never need to deal with escaping and unescaping": what *)
(* is written is read back, whatever characters it is made of, in values   *)
(* of every shape, written and read any number of times.  Whatever is read *)
(* has the types that its property can have.                               *)
ValuesReadBack ==
  /\ valueStage = "read" => HasAnnouncedTypes
  /\ valueStage = "read" /\ ~HasRawEscape /\ ~HasRawSeparator /\ ~HasEscapedLineEnding
                         /\ ~HasDroppedValues /\ ~HasVanishingValue =>
       readValues = [k \in DOMAIN values |->
                      [i \in DOMAIN values[k] |->
                        ReadAs(values[k][i], TypesOf(values[k], Descriptor)[i])]]

(* No text of a value ends its value, or splits it, before its end: the    *)
(* skeleton of the file stays intact, and the decoder gets values of the   *)
(* shape it expects.  The exception is an escape character of a point,     *)
(* move or stone that escapes the escape character or the bracket which    *)
(* the encoder puts after it.                                              *)
HasBreakout ==
  \E t \in TypedTexts :
    IsRaw(t[2]) /\ (HasPair(t[1], Escape, ValueEnd) \/ (t[1] # <<>> /\ Last(t[1]) = Escape))

SkeletonIntact ==
  valueStage \in {"read", "broken", "throws"} /\ ~HasBreakout /\ ~HasMoveWithoutColor =>
    /\ valueStage = "read"
    /\ ~HasRawSeparator /\ ~HasDroppedValues /\ ~HasVanishingValue =>
         /\ DOMAIN readValues = DOMAIN values
         /\ \A k \in DOMAIN values : IsComposed(readValues[k]) = IsComposed(values[k])
=============================================================================
