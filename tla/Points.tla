------------------------------- MODULE Points -------------------------------
(***************************************************************************)
(* Points of a Go board (SgfcGoPoint): a text in one of three notations is *)
(* converted to a position, and a position to a text in every notation.    *)
(*                                                                         *)
(*   Sgf     two letters, a..z then A..Z       origin in the upper left    *)
(*   Figure  two numbers, separated by a dash  origin in the upper left    *)
(*   Hybrid  a letter A..Z without I, a number origin in the lower left    *)
(*                                                                         *)
(* A client gives a text and a board size, and then converts the texts     *)
(* that the point has in the three notations back to points.               *)
(***************************************************************************)
EXTENDS Integers, Sequences

CONSTANTS
  Columns, Rows,  \* numbers of columns and rows of a board
  Numbers,        \* numbers that occur in texts
  MaxInt          \* the largest int

ASSUME PointsAssumption ==
  /\ Columns \cup Rows \subseteq 1..100
  /\ Numbers \subseteq Nat /\ MaxInt \in Nat \ 0..99

VARIABLES
  pointStage,  \* whether the client has given a text
  boardSize,   \* the size of the board
  point,       \* the position of the point, or the exception of its constructor
  texts        \* its text in each notation

pointVars == <<pointStage, boardSize, point, texts>>

-----------------------------------------------------------------------------
(* Characters have their ASCII codes; a number of a text is its value,     *)
(* above all codes so as to tell them apart.                               *)
LowerA == 97
LowerZ == 122
UpperA == 65
UpperZ == 90
Number(n) == 1000 + n
IsNumber(compound) == compound >= 1000
ValueOf(compound) == compound - 1000

NoText == <<>>
Dash == 45

IsValidSgfCharacter(c) == c \in LowerA..LowerZ \/ c \in UpperA..UpperZ

MapSgfCharacterToPosition(c) ==
  CASE c \in LowerA..LowerZ -> c - LowerA + 1
    [] c \in UpperA..UpperZ -> c - UpperA + 26 + 1
    [] OTHER -> 0

MapPositionToSgfCharacter(position) ==
  IF position <= 26 THEN LowerA + position - 1 ELSE UpperA + position - 26 - 1

LetterI == UpperA + 8
IsValidXCompoundHybridNotation(c) == c \in UpperA..UpperZ \ {LetterI}

MapXCompoundHybridNotationToPosition(c) ==
  IF c < LetterI THEN c - UpperA + 1 ELSE c - (LetterI + 1) + 8 + 1

(* Mutant: the letter I is not left out.                                   *)
MapPositionToAnyLetter(position) == UpperA + position - 1

MapPositionToXCompoundHybridNotation(position) ==
  UpperA + (IF position >= 9 THEN position + 1 ELSE position) - 1

-----------------------------------------------------------------------------
(* DecomposePointValue.  The constructor checks the number of columns of   *)
(* the board, and not that of its rows.                                    *)

Throws == <<"throws">>

SetPositionOrThrow(x, y, size) ==
  IF x \in 1..size.columns /\ y \in 1..size.rows THEN <<x, y>> ELSE Throws

ParseSgfCompounds(text, size) ==
  IF IsValidSgfCharacter(text[1]) /\ IsValidSgfCharacter(text[2])
  THEN SetPositionOrThrow(MapSgfCharacterToPosition(text[1]),
                          MapSgfCharacterToPosition(text[2]), size)
  ELSE Throws

(* A number that is too large for an int is not an invalid argument but    *)
(* out of range, which the callers do not expect.                          *)
ParseFigureCompounds(text, size) ==
  IF IsNumber(text[1]) /\ IsNumber(text[3])
  THEN IF ValueOf(text[1]) > MaxInt \/ ValueOf(text[3]) > MaxInt
       THEN <<"out of range">>
       ELSE SetPositionOrThrow(ValueOf(text[1]), ValueOf(text[3]), size)
  ELSE Throws

(* A text of more than three characters is refused before its number is    *)
(* converted, which is then too large in any case.                         *)
ParseHybridCompounds(text, size) ==
  IF IsValidXCompoundHybridNotation(text[1]) /\ ValueOf(text[2]) <= 25
  THEN SetPositionOrThrow(MapXCompoundHybridNotationToPosition(text[1]),
                          size.rows + 1 - ValueOf(text[2]), size)
  ELSE Throws

PointOf(text, size) ==
  IF size.columns \notin 1..52 THEN Throws
  ELSE IF Len(text) = 3 THEN ParseFigureCompounds(text, size)
  ELSE IF IsNumber(text[2]) THEN ParseHybridCompounds(text, size)
  ELSE ParseSgfCompounds(text, size)

BuildSgfNotation(p) == <<MapPositionToSgfCharacter(p[1]), MapPositionToSgfCharacter(p[2])>>
BuildFigureNotation(p) == <<Number(p[1]), Dash, Number(p[2])>>
BuildHybridNotation(p, size) ==
  LET fromBelow == size.rows + 1 - p[2]
  IN  IF p[1] > 25 \/ fromBelow > 25
      THEN NoText
      ELSE <<MapPositionToXCompoundHybridNotation(p[1]), Number(fromBelow)>>

-----------------------------------------------------------------------------
Sizes == [columns : Columns, rows : Rows]
Compounds == {LowerA, LowerZ, UpperA, LetterI - 1, LetterI, LetterI + 1, UpperZ - 1, UpperZ}
               \cup {Number(n) : n \in Numbers}
Texts == (Compounds \X Compounds) \cup (Compounds \X {Dash} \X Compounds)

NoPoint == <<>>
NoTexts == [Sgf |-> NoText, Figure |-> NoText, Hybrid |-> NoText]

(* The constructor, of a text of the client.                               *)
ConstructPoint ==
  /\ pointStage = "given"
  /\ pointStage' = "constructed"
  /\ \E text \in Texts, size \in Sizes : boardSize' = size /\ point' = PointOf(text, size)
  /\ texts' = IF Len(point') # 2
              THEN NoTexts
              ELSE [Sgf    |-> BuildSgfNotation(point'),
                    Figure |-> BuildFigureNotation(point'),
                    Hybrid |-> BuildHybridNotation(point', boardSize')]

(* The constructor, of a text that a point has.                            *)
ConstructAgain(notation) ==
  /\ pointStage = "constructed" /\ texts[notation] # NoText
  /\ pointStage' = notation
  /\ point' = PointOf(texts[notation], boardSize)
  /\ UNCHANGED <<boardSize, texts>>

PointNone == boardSize = [columns |-> 0, rows |-> 0] /\ point = NoPoint /\ texts = NoTexts
PointInit == pointStage = "given" /\ PointNone
PointIdle == pointStage = "idle" /\ PointNone

PointNext ==
  \/ ConstructPoint
  \/ \E notation \in {"Sgf", "Figure", "Hybrid"} : ConstructAgain(notation)

PointSpec == PointInit /\ [][PointNext]_pointVars

-----------------------------------------------------------------------------
(* Properties.                                                             *)

(* The three notations of a point stand for one position, which has no     *)
(* text in hybrid notation if it is beyond the letters or the number 25    *)
(* from below.  The exception is the SGF notation of a row that no letter  *)
(* stands for: the constructor does not check the number of rows           *)
(* (SgfcGoPoint.cpp:34), and rows from 53 on get other characters, which   *)
(* are none of the notation or, from 59 on, letters of other rows.         *)
NotationsAgree ==
  [][ pointStage' \in {"Sgf", "Figure", "Hybrid"} =>
        (point' = point <=> ~(pointStage' = "Sgf" /\ point[2] > 52))
    ]_pointVars
=============================================================================
