-------------------------- MODULE ConversionProofs --------------------------
(***************************************************************************)
(* Proofs about Points and Dates: for boards of up to 100 columns and rows *)
(* (the text of SGF notation is a character for each, PointsAssumption),   *)
(* and for all dates and lists of dates of any length.                     *)
(***************************************************************************)
EXTENDS Points, Dates, SequenceTheorems, TLAPS

-----------------------------------------------------------------------------
(* Points: a position in each notation, and back.                          *)

OnBoard(x, y, size) ==
  /\ size.columns \in 1..52 /\ size.rows \in 1..100
  /\ x \in 1..size.columns /\ y \in 1..size.rows

LEMMA NotThrown ==
  ASSUME NEW x, NEW y
  PROVE  <<x, y>> # Throws /\ Len(<<x, y>>) = 2 /\ Len(Throws) = 1 /\ Len(<<"out of range">>) = 1
<1>1. Len(<<x, y>>) = 2 /\ Len(Throws) = 1 /\ Len(<<"out of range">>) = 1
  BY DEF Throws
<1> QED BY <1>1

LEMMA FigureAgain ==
  ASSUME NEW x, NEW y, NEW size, OnBoard(x, y, size)
  PROVE  PointOf(BuildFigureNotation(<<x, y>>), size) = <<x, y>>
<1> DEFINE t == BuildFigureNotation(<<x, y>>)
<1>1. x \in 1..52 /\ y \in 1..100 /\ MaxInt \in Nat /\ MaxInt >= 100
  BY PointsAssumption DEF OnBoard
<1>2. Len(t) = 3 /\ t[1] = 1000 + x /\ t[3] = 1000 + y
  BY DEF BuildFigureNotation, Number
<1> HIDE DEF t
<1>3. IsNumber(t[1]) /\ IsNumber(t[3]) /\ ValueOf(t[1]) = x /\ ValueOf(t[3]) = y
  BY <1>1, <1>2 DEF IsNumber, ValueOf
<1>4. x <= MaxInt /\ y <= MaxInt
  BY <1>1
<1>5. ParseFigureCompounds(t, size) = <<x, y>>
  <2>1. SetPositionOrThrow(x, y, size) = <<x, y>>
    BY DEF SetPositionOrThrow, OnBoard
  <2>2. ~(x > MaxInt \/ y > MaxInt)
    BY <1>1, <1>4
  <2> QED BY ONLY <1>3, <2>1, <2>2 DEF ParseFigureCompounds
<1> QED BY <1>2, <1>5 DEF PointOf, OnBoard, t

LEMMA LetterPosition ==
  ASSUME NEW x \in 1..25
  PROVE  /\ IsValidXCompoundHybridNotation(MapPositionToXCompoundHybridNotation(x))
         /\ ~IsNumber(MapPositionToXCompoundHybridNotation(x))
         /\ MapXCompoundHybridNotationToPosition(MapPositionToXCompoundHybridNotation(x)) = x
BY DEF MapPositionToXCompoundHybridNotation, MapXCompoundHybridNotationToPosition,
       IsValidXCompoundHybridNotation, IsNumber, LetterI, UpperA, UpperZ

LEMMA FromOtherEnd ==
  ASSUME NEW rows \in Int, NEW y \in Int
  PROVE  rows + 1 - (rows + 1 - y) = y
OBVIOUS

LEMMA HybridAgain ==
  ASSUME NEW x, NEW y, NEW size, OnBoard(x, y, size),
         BuildHybridNotation(<<x, y>>, size) # NoText
  PROVE  PointOf(BuildHybridNotation(<<x, y>>, size), size) = <<x, y>>
<1> DEFINE t == BuildHybridNotation(<<x, y>>, size)
           below == size.rows + 1 - y
<1>1. x \in 1..52 /\ y \in 1..100 /\ size.rows \in 1..100 /\ below \in 1..100
  BY DEF OnBoard
<1>7. size.rows + 1 - below = y
  <2>1. size.rows \in Int /\ y \in Int
    BY <1>1
  <2> QED BY <2>1, FromOtherEnd, Zenon
<1>2. x <= 25 /\ below <= 25 /\ t = <<MapPositionToXCompoundHybridNotation(x), Number(below)>>
  BY <1>1 DEF BuildHybridNotation
<1>3. Len(t) = 2 /\ t[1] = MapPositionToXCompoundHybridNotation(x) /\ t[2] = 1000 + below
  BY <1>2 DEF Number
<1> HIDE DEF t, below
<1>4. x \in 1..25
  BY <1>1, <1>2
<1>5. /\ IsValidXCompoundHybridNotation(t[1]) /\ ~IsNumber(t[1])
      /\ MapXCompoundHybridNotationToPosition(t[1]) = x
  BY <1>3, <1>4, LetterPosition
<1>6. IsNumber(t[2]) /\ ValueOf(t[2]) = below
  BY <1>1, <1>3 DEF IsNumber, ValueOf
<1>8. ParseHybridCompounds(t, size) = <<x, y>>
  BY <1>1, <1>2, <1>5, <1>6, <1>7 DEF ParseHybridCompounds, SetPositionOrThrow, OnBoard
<1>9. ~(ValueOf(t[2]) > 99)
  BY <1>1, <1>2, <1>6
<1> QED BY <1>3, <1>5, <1>6, <1>8, <1>9 DEF PointOf, OnBoard, t

(* A definition by cases, as a conditional.                                *)
LEMMA SgfCharacterCases ==
  ASSUME NEW c
  PROVE  MapSgfCharacterToPosition(c) =
           IF c \in LowerA..LowerZ THEN c - LowerA + 1
           ELSE IF c \in UpperA..UpperZ THEN c - UpperA + 26 + 1 ELSE 0
BY DEF MapSgfCharacterToPosition, LowerA, LowerZ, UpperA, UpperZ

(* A letter stands for each position up to 52, and only for it.            *)
LEMMA SgfPosition ==
  ASSUME NEW x \in 1..100, NEW c, c = MapPositionToSgfCharacter(x)
  PROVE  /\ ~IsNumber(c)
         /\ x <= 52 => IsValidSgfCharacter(c) /\ MapSgfCharacterToPosition(c) = x
         /\ x > 52 /\ IsValidSgfCharacter(c) => MapSgfCharacterToPosition(c) < x
<1>1. c = IF x <= 26 THEN 96 + x ELSE 38 + x
  BY DEF MapPositionToSgfCharacter, LowerA, UpperA
<1>2. CASE x <= 26
  <2>1. c \in 97..122
    BY <1>1, <1>2
  <2> QED BY <1>1, <1>2, <2>1, SgfCharacterCases DEF IsNumber, IsValidSgfCharacter, LowerA, LowerZ
<1>3. CASE x \in 27..52
  <2>1. c \in 65..90 /\ c \notin 97..122
    BY <1>1, <1>3
  <2>2. MapSgfCharacterToPosition(c) = c - 65 + 26 + 1
    BY <2>1, SgfCharacterCases DEF LowerA, LowerZ, UpperA, UpperZ
  <2> QED BY <1>1, <1>3, <2>1, <2>2 DEF IsNumber, IsValidSgfCharacter, UpperA, UpperZ
<1>4. CASE x \in 53..100
  <2>1. c \in 91..138 /\ c \notin 65..90 /\ c = 38 + x
    BY <1>1, <1>4
  <2>2. c \in 97..122 => MapSgfCharacterToPosition(c) = c - 97 + 1
    BY SgfCharacterCases DEF LowerA, LowerZ
  <2> QED BY <1>4, <2>1, <2>2 DEF IsNumber, IsValidSgfCharacter, LowerA, LowerZ, UpperA, UpperZ
<1> QED BY <1>2, <1>3, <1>4

LEMMA SgfAgain ==
  ASSUME NEW x, NEW y, NEW size, OnBoard(x, y, size)
  PROVE  PointOf(BuildSgfNotation(<<x, y>>), size) = <<x, y>> <=> y <= 52
<1> DEFINE t == BuildSgfNotation(<<x, y>>)
<1>1. x \in 1..52 /\ x \in 1..100 /\ y \in 1..100 /\ x <= 52
  BY DEF OnBoard
<1>2. Len(t) = 2 /\ t[1] = MapPositionToSgfCharacter(x) /\ t[2] = MapPositionToSgfCharacter(y)
  BY DEF BuildSgfNotation
<1> HIDE DEF t
<1>3. /\ ~IsNumber(t[1]) /\ IsValidSgfCharacter(t[1]) /\ MapSgfCharacterToPosition(t[1]) = x
  BY <1>1, <1>2, SgfPosition
<1>4. /\ ~IsNumber(t[2])
      /\ y <= 52 => IsValidSgfCharacter(t[2]) /\ MapSgfCharacterToPosition(t[2]) = y
      /\ y > 52 /\ IsValidSgfCharacter(t[2]) => MapSgfCharacterToPosition(t[2]) < y
  BY <1>1, <1>2, SgfPosition
<1>5. PointOf(t, size) = ParseSgfCompounds(t, size)
  BY <1>2, <1>3, <1>4 DEF PointOf, OnBoard
<1>6. y <= 52 => ParseSgfCompounds(t, size) = <<x, y>>
  BY <1>1, <1>3, <1>4 DEF ParseSgfCompounds, SetPositionOrThrow, OnBoard
<1>7. y > 52 => ParseSgfCompounds(t, size) # <<x, y>>
  <2> SUFFICES ASSUME y > 52, ParseSgfCompounds(t, size) = <<x, y>> PROVE FALSE
    OBVIOUS
  <2>1. IsValidSgfCharacter(t[2])
    BY NotThrown DEF ParseSgfCompounds
  <2>2. PICK z : z = MapSgfCharacterToPosition(t[2])
    OBVIOUS
  <2>3. SetPositionOrThrow(x, z, size) = <<x, y>>
    BY <1>3, <2>1, <2>2 DEF ParseSgfCompounds
  <2>4. <<x, z>> = <<x, y>>
    BY <2>3, NotThrown DEF SetPositionOrThrow
  <2> QED BY <1>1, <1>4, <2>1, <2>2, <2>4
<1> QED BY <1>1, <1>5, <1>6, <1>7 DEF t

-----------------------------------------------------------------------------
(* All of a point.                                                         *)

PointTexts(x, y, size) ==
  [Sgf    |-> BuildSgfNotation(<<x, y>>),
   Figure |-> BuildFigureNotation(<<x, y>>),
   Hybrid |-> BuildHybridNotation(<<x, y>>, size)]

(* A point that has texts is on its board, and has those of its position.  *)
HasTexts(p, size, ts) ==
  \/ ts = NoTexts
  \/ \E x, y : OnBoard(x, y, size) /\ p = <<x, y>> /\ ts = PointTexts(x, y, size)

PointInv == pointStage = "constructed" => HasTexts(point, boardSize, texts)

(* The constructor only makes points on a board.                           *)
LEMMA PointOnBoard ==
  ASSUME NEW t \in Texts, NEW size \in Sizes, NEW p, p = PointOf(t, size), Len(p) = 2
  PROVE  \E x, y : OnBoard(x, y, size) /\ p = <<x, y>>
<1>1. size.columns \in 1..100 /\ size.rows \in 1..100
  BY PointsAssumption DEF Sizes
<1>2. p # Throws /\ p # <<"out of range">>
  <2>1. Len(Throws) = 1 /\ Len(<<"out of range">>) = 1
    BY NotThrown
  <2>2. Len(p) # Len(Throws) /\ Len(p) # Len(<<"out of range">>)
    BY <2>1
  <2> QED BY ONLY <2>2, Zenon
<1>3. size.columns \in 1..52
  BY <1>2 DEF PointOf
<1>4. ASSUME NEW x, NEW y, p = SetPositionOrThrow(x, y, size)
      PROVE  OnBoard(x, y, size) /\ p = <<x, y>>
  BY <1>1, <1>2, <1>3, <1>4 DEF SetPositionOrThrow, OnBoard
<1>5. \E x, y : p = SetPositionOrThrow(x, y, size)
  <2>1. CASE p = ParseFigureCompounds(t, size)
    BY <1>2, <2>1 DEF ParseFigureCompounds
  <2>2. CASE p = ParseHybridCompounds(t, size)
    BY <1>2, <2>2 DEF ParseHybridCompounds
  <2>3. CASE p = ParseSgfCompounds(t, size)
    BY <1>2, <2>3 DEF ParseSgfCompounds
  <2> QED BY <1>2, <2>1, <2>2, <2>3 DEF PointOf
<1> QED BY <1>4, <1>5

LEMMA PointInitInv == PointInit => PointInv
BY DEF PointInit, PointInv

LEMMA PointNextInv ==
  ASSUME PointInv, [PointNext]_pointVars
  PROVE  PointInv'
<1>1. ASSUME ConstructPoint PROVE PointInv'
  <2>1. PICK t \in Texts, size \in Sizes : boardSize' = size /\ point' = PointOf(t, size)
    BY <1>1 DEF ConstructPoint
  <2>2. PICK p : p = point'
    OBVIOUS
  <2>3. texts' = IF Len(p) # 2 THEN NoTexts
                 ELSE [Sgf |-> BuildSgfNotation(p), Figure |-> BuildFigureNotation(p),
                       Hybrid |-> BuildHybridNotation(p, size)]
    BY <1>1, <2>1, <2>2 DEF ConstructPoint
  <2>4. CASE Len(p) # 2
    BY <2>3, <2>4 DEF PointInv, HasTexts
  <2>5. CASE Len(p) = 2
    <3>1. PICK x, y : OnBoard(x, y, size) /\ p = <<x, y>>
      BY <2>1, <2>2, <2>5, PointOnBoard
    <3>2. texts' = PointTexts(x, y, size)
      BY <2>3, <2>5, <3>1 DEF PointTexts
    <3> QED BY <2>1, <2>2, <3>1, <3>2 DEF PointInv, HasTexts
  <2> QED BY <2>4, <2>5
<1>2. ASSUME NEW notation \in {"Sgf", "Figure", "Hybrid"}, ConstructAgain(notation) PROVE PointInv'
  BY <1>2 DEF ConstructAgain, PointInv
<1>3. ASSUME UNCHANGED pointVars PROVE PointInv'
  BY <1>3 DEF pointVars, PointInv, HasTexts
<1> QED BY <1>1, <1>2, <1>3 DEF PointNext

TextAgrees ==
  pointStage' \in {"Sgf", "Figure", "Hybrid"} =>
    (point' = point <=> ~(pointStage' = "Sgf" /\ point[2] > 52))

LEMMA AgainAgrees ==
  ASSUME PointInv, NEW notation \in {"Sgf", "Figure", "Hybrid"}, ConstructAgain(notation)
  PROVE  TextAgrees
<1>1. /\ pointStage = "constructed" /\ pointStage' = notation /\ texts[notation] # NoText
      /\ point' = PointOf(texts[notation], boardSize)
  BY DEF ConstructAgain
<1>2. texts # NoTexts
  BY <1>1 DEF NoTexts
<1>3. PICK x, y : OnBoard(x, y, boardSize) /\ point = <<x, y>> /\ texts = PointTexts(x, y, boardSize)
  BY <1>1, <1>2 DEF PointInv, HasTexts
<1>4. point[2] = y /\ y \in 1..100
  BY <1>3 DEF OnBoard
<1>5. CASE notation = "Sgf"
  <2>1. texts[notation] = BuildSgfNotation(<<x, y>>)
    BY <1>3, <1>5 DEF PointTexts
  <2>2. point' = point <=> y <= 52
    BY <1>1, <1>3, <2>1, SgfAgain
  <2> QED BY <1>1, <1>4, <1>5, <2>2 DEF TextAgrees
<1>6. CASE notation = "Figure"
  <2>1. texts[notation] = BuildFigureNotation(<<x, y>>)
    BY <1>3, <1>6 DEF PointTexts
  <2> QED BY <1>1, <1>3, <1>6, <2>1, FigureAgain DEF TextAgrees
<1>7. CASE notation = "Hybrid"
  <2>1. texts[notation] = BuildHybridNotation(<<x, y>>, boardSize)
    BY <1>3, <1>7 DEF PointTexts
  <2> QED BY <1>1, <1>3, <1>7, <2>1, HybridAgain DEF TextAgrees
<1> QED BY <1>5, <1>6, <1>7

(* SgfcGoPoint: on every board and for every position, the texts of a      *)
(* point stand for this point, but the SGF notation beyond row 52.         *)
THEOREM NotationsOfPointsAgree == PointSpec => NotationsAgree
<1>1. PointInv /\ [PointNext]_pointVars => [TextAgrees]_pointVars
  <2> SUFFICES ASSUME PointInv, PointNext PROVE TextAgrees
    OBVIOUS
  <2>1. CASE ConstructPoint
    BY <2>1 DEF ConstructPoint, TextAgrees
  <2> QED BY <2>1, AgainAgrees DEF PointNext
<1>2. PointSpec => [][TextAgrees]_pointVars
  BY <1>1, PointInitInv, PointNextInv, PTL DEF PointSpec
<1> QED BY <1>2 DEF NotationsAgree, TextAgrees

-----------------------------------------------------------------------------
(* Dates.  A date is a record of three integers.                           *)

IntDate == [Year : Int, Month : Int, Day : Int]

DateOf(year, month, day) == [Year |-> year, Month |-> month, Day |-> day]

(* Two members at once.                                                    *)
WithMonthAndDay(d, m, n) == [d EXCEPT !.Month = m, !.Day = n]

LEMMA MonthAndDay ==
  ASSUME NEW d \in IntDate, NEW m, NEW n
  PROVE  WithMonthAndDay(d, m, n) = DateOf(d.Year, m, n)
<1>1. [d EXCEPT !.Month = m] = DateOf(d.Year, m, d.Day)
  BY DEF IntDate, DateOf
<1>2. [DateOf(d.Year, m, d.Day) EXCEPT !.Day = n] = DateOf(d.Year, m, n)
  BY DEF DateOf
<1>3. WithMonthAndDay(d, m, n) = [[d EXCEPT !.Month = m] EXCEPT !.Day = n]
  BY DEF WithMonthAndDay
<1> QED BY <1>1, <1>2, <1>3

LEMMA DayOnly ==
  ASSUME NEW d \in IntDate
  PROVE  [d EXCEPT !.Year = 0, !.Month = 0] = DateOf(0, 0, d.Day)
<1>1. [d EXCEPT !.Year = 0] = DateOf(0, d.Month, d.Day)
  BY DEF IntDate, DateOf
<1>2. [DateOf(0, d.Month, d.Day) EXCEPT !.Month = 0] = DateOf(0, 0, d.Day)
  BY DEF DateOf
<1>3. [d EXCEPT !.Year = 0, !.Month = 0] = [[d EXCEPT !.Year = 0] EXCEPT !.Month = 0]
  OBVIOUS
<1> QED BY <1>1, <1>2, <1>3

LEMMA SameDate ==
  ASSUME NEW d \in IntDate, NEW e \in IntDate,
         d.Year = e.Year, d.Month = e.Month, d.Day = e.Day
  PROVE  d = e
BY DEF IntDate

(* The forms that an item may have, by the parts that it has.              *)
Forms == {{"Y"}, {"Y", "M"}, {"Y", "M", "D"}, {"M", "D"}, {"M"}, {"D"}}

(* What is known of a date that was composed and of the parts that its     *)
(* item has, when the next one follows.                                    *)
Linked(date, had) ==
  /\ date \in IntDate /\ date.Year # 0 /\ IsValidSgfDate(date)
  /\ had \in Forms
  /\ "D" \in had <=> date.Day # 0
  /\ date.Month = 0 <=> had = {"Y"}

Precedes(before) ==
  \/ before = LoopStart
  \/ \E date, had : Linked(date, had) /\ before = After(date, had)

LEMMA PrecedingDate ==
  ASSUME NEW before, Precedes(before)
  PROVE  /\ before.present \in BOOLEAN
         /\ before.date \in IntDate
         /\ before.present => Linked(before.date, before.had) /\ before = After(before.date, before.had)
         /\ ~before.present => before = LoopStart
<1>1. CASE before = LoopStart
  BY <1>1 DEF LoopStart, IntDate
<1>2. ASSUME NEW date, NEW had, Linked(date, had), before = After(date, had)
      PROVE  /\ before.present = TRUE /\ before.date = date /\ before.had = had
  BY <1>2 DEF After
<1>3. ASSUME NEW date, NEW had, Linked(date, had), before = After(date, had)
      PROVE  date \in IntDate
  BY <1>3 DEF Linked
<1> QED BY <1>1, <1>2, <1>3 DEF Precedes

(* What a valid date of a year lacks.                                      *)
LEMMA DayHasMonth ==
  ASSUME NEW d \in IntDate, IsValidSgfDate(d), d.Year # 0
  PROVE  d.Month = 0 => d.Day = 0
BY DEF IsValidSgfDate

LEMMA CompletedIs ==
  ASSUME NEW d \in IntDate, NEW before, before.date \in IntDate
  PROVE  /\ Completed(d, before) \in IntDate
         /\ d.Year # 0 => Completed(d, before) = d
         /\ d.Year = 0 => /\ Completed(d, before).Year = before.date.Year
                          /\ Completed(d, before).Month = (IF d.Month = 0 THEN before.date.Month ELSE d.Month)
                          /\ Completed(d, before).Day = d.Day
BY DEF Completed, IntDate

(* OutputDate: of the same year, with another month, or with the same      *)
(* month and another day.                                                  *)
OfSameYear(d, before) == before.present /\ d.Year # 0 /\ d.Year = before.date.Year
OtherMonth(d, before) ==
  /\ OfSameYear(d, before)
  /\ d.Month # 0 /\ before.date.Month # 0 /\ d.Month # before.date.Month
OtherDay(d, before) ==
  /\ OfSameYear(d, before)
  /\ d.Month # 0 /\ d.Month = before.date.Month
  /\ d.Day # 0 /\ before.date.Day # 0

LEMMA OutputIs ==
  ASSUME NEW d \in IntDate, NEW before, before.present \in BOOLEAN
  PROVE  /\ OutputDate(d, before) \in IntDate
         /\ OutputDate(d, before).Day = d.Day
         /\ OutputDate(d, before).Month = (IF OtherDay(d, before) THEN 0 ELSE d.Month)
         /\ OutputDate(d, before).Year =
              (IF OtherMonth(d, before) \/ OtherDay(d, before) THEN 0 ELSE d.Year)
<1>1. CASE OtherMonth(d, before)
  <2>1. OutputDate(d, before) = [d EXCEPT !.Year = 0] /\ ~OtherDay(d, before)
    BY <1>1 DEF OutputDate, OtherMonth, OtherDay, OfSameYear
  <2> QED BY <1>1, <2>1 DEF IntDate
<1>2. CASE OtherDay(d, before)
  <2>1. OutputDate(d, before) = [d EXCEPT !.Year = 0, !.Month = 0]
    BY <1>2 DEF OutputDate, OtherMonth, OtherDay, OfSameYear
  <2>2. [d EXCEPT !.Year = 0, !.Month = 0] = DateOf(0, 0, d.Day)
    BY DayOnly
  <2>3. ASSUME NEW e, e = DateOf(0, 0, d.Day)
        PROVE  e \in IntDate /\ e.Year = 0 /\ e.Month = 0 /\ e.Day = d.Day
    BY <2>3 DEF IntDate, DateOf
  <2> QED BY <1>2, <2>1, <2>2, <2>3
<1>3. CASE ~OtherMonth(d, before) /\ ~OtherDay(d, before)
  <2>1. OutputDate(d, before) = d
    BY <1>3 DEF OutputDate, OtherMonth, OtherDay, OfSameYear
  <2> QED BY <1>3, <2>1 DEF IntDate
<1> QED BY <1>1, <1>2, <1>3

LEMMA PartsAre ==
  ASSUME NEW out
  PROVE  /\ OutputParts(out) \subseteq {"Y", "M", "D"}
         /\ "Y" \in OutputParts(out) <=> out.Year # 0
         /\ "M" \in OutputParts(out) <=> out.Month # 0
         /\ "D" \in OutputParts(out) <=> out.Day # 0
BY DEF OutputParts

(* The items of each form, and what they are decomposed to.                *)
LEMMA TwoParts ==
  ASSUME NEW a, NEW b
  PROVE  <<a>> \o <<b>> = <<a, b>>
<1>1. <<a>> \in Seq({a, b}) /\ <<b>> \in Seq({a, b}) /\ Len(<<a>>) = 1 /\ Len(<<b>>) = 1
  OBVIOUS
<1>2. PICK s : s = <<a>> \o <<b>>
  OBVIOUS
<1>3. s \in Seq({a, b}) /\ Len(s) = 2 /\ s[1] = a /\ s[2] = b
  BY <1>1, <1>2, ConcatProperties
<1>4. PICK t : t = <<a, b>>
  OBVIOUS
<1>5. t \in Seq({a, b}) /\ Len(t) = 2 /\ t[1] = a /\ t[2] = b
  BY <1>4
<1>6. \A i \in 1..Len(s) : s[i] = t[i]
  BY <1>3, <1>5
<1> QED BY <1>2, <1>3, <1>4, <1>5, <1>6, SeqEqual

LEMMA ThreeParts ==
  ASSUME NEW a, NEW b, NEW c
  PROVE  <<a, b>> \o <<c>> = <<a, b, c>>
<1>1. <<a, b>> \in Seq({a, b, c}) /\ <<c>> \in Seq({a, b, c}) /\ Len(<<a, b>>) = 2 /\ Len(<<c>>) = 1
  OBVIOUS
<1>2. PICK s : s = <<a, b>> \o <<c>>
  OBVIOUS
<1>3. s \in Seq({a, b, c}) /\ Len(s) = 3 /\ s[1] = a /\ s[2] = b /\ s[3] = c
  BY <1>1, <1>2, ConcatProperties
<1>4. PICK t : t = <<a, b, c>>
  OBVIOUS
<1>5. t \in Seq({a, b, c}) /\ Len(t) = 3 /\ t[1] = a /\ t[2] = b /\ t[3] = c
  BY <1>4
<1>6. \A i \in 1..Len(s) : s[i] = t[i]
  BY <1>3, <1>5
<1> QED BY <1>2, <1>3, <1>4, <1>5, <1>6, SeqEqual

LEMMA NoPart ==
  ASSUME NEW a, NEW b
  PROVE  /\ <<a>> \o <<>> = <<a>> /\ <<>> \o <<a>> = <<a>> /\ <<>> \o <<>> = <<>>
         /\ <<a, b>> \o <<>> = <<a, b>>
OBVIOUS

LEMMA ItemOf ==
  ASSUME NEW out
  PROVE  /\ OutputItem(out, {"Y"}) = <<Part(4, out.Year)>>
         /\ OutputItem(out, {"Y", "M"}) = <<Part(4, out.Year), Part(2, out.Month)>>
         /\ OutputItem(out, {"Y", "M", "D"}) =
              <<Part(4, out.Year), Part(2, out.Month), Part(2, out.Day)>>
         /\ OutputItem(out, {"M", "D"}) = <<Part(2, out.Month), Part(2, out.Day)>>
         /\ OutputItem(out, {"M"}) = <<Part(2, out.Month)>>
         /\ OutputItem(out, {"D"}) = <<Part(2, out.Day)>>
<1>1. /\ OutputItem(out, {"Y"}) = <<Part(4, out.Year)>> \o <<>> \o <<>>
      /\ OutputItem(out, {"Y", "M"}) = <<Part(4, out.Year)>> \o <<Part(2, out.Month)>> \o <<>>
      /\ OutputItem(out, {"Y", "M", "D"}) =
           <<Part(4, out.Year)>> \o <<Part(2, out.Month)>> \o <<Part(2, out.Day)>>
      /\ OutputItem(out, {"M", "D"}) = <<>> \o <<Part(2, out.Month)>> \o <<Part(2, out.Day)>>
      /\ OutputItem(out, {"M"}) = <<>> \o <<Part(2, out.Month)>> \o <<>>
      /\ OutputItem(out, {"D"}) = <<>> \o <<>> \o <<Part(2, out.Day)>>
  BY DEF OutputItem
<1> QED BY <1>1, NoPart, TwoParts, ThreeParts

LEMMA FullDateOf ==
  ASSUME NEW item
  PROVE  /\ Len(item) = 1 => FullDate(item) = After(DateOf(item[1].value, 0, 0), {"Y"})
         /\ Len(item) = 2 =>
              FullDate(item) = After(DateOf(item[1].value, item[2].value, 0), {"Y", "M"})
         /\ Len(item) = 3 =>
              FullDate(item) = After(DateOf(item[1].value, item[2].value, item[3].value), {"Y", "M", "D"})
BY DEF FullDate, DateOf

LEMMA ShortcutOf ==
  ASSUME NEW item, NEW before, before.date \in IntDate
  PROVE  /\ Len(item) = 2 =>
              Shortcut(item, before) =
                After(DateOf(before.date.Year, item[1].value, item[2].value), {"M", "D"})
         /\ Len(item) = 1 /\ MonthFollows(before.had) =>
              Shortcut(item, before) = After(DateOf(before.date.Year, item[1].value, 0), {"M"})
         /\ Len(item) = 1 /\ ~MonthFollows(before.had) =>
              Shortcut(item, before) =
                After(DateOf(before.date.Year, before.date.Month, item[1].value), {"D"})
<1>1. /\ WithMonthAndDay(before.date, item[1].value, item[2].value)
             = DateOf(before.date.Year, item[1].value, item[2].value)
      /\ WithMonthAndDay(before.date, item[1].value, 0) = DateOf(before.date.Year, item[1].value, 0)
      /\ [before.date EXCEPT !.Day = item[1].value]
             = DateOf(before.date.Year, before.date.Month, item[1].value)
  <2>1. /\ WithMonthAndDay(before.date, item[1].value, item[2].value)
               = DateOf(before.date.Year, item[1].value, item[2].value)
        /\ WithMonthAndDay(before.date, item[1].value, 0) = DateOf(before.date.Year, item[1].value, 0)
    BY MonthAndDay
  <2>2. [before.date EXCEPT !.Day = item[1].value]
          = DateOf(before.date.Year, before.date.Month, item[1].value)
    BY DEF DateOf, IntDate
  <2> QED BY <2>1, <2>2
<1>2. CASE Len(item) = 2
  BY <1>1, <1>2 DEF Shortcut, WithMonthAndDay
<1>3. CASE Len(item) = 1 /\ MonthFollows(before.had)
  BY <1>1, <1>3 DEF Shortcut, WithMonthAndDay
<1>4. CASE Len(item) = 1 /\ ~MonthFollows(before.had)
  BY <1>1, <1>4 DEF Shortcut
<1> QED BY <1>2, <1>3, <1>4

(* An item that ToPropertyValue makes of a date is decomposed to this date *)
(* and these parts.                                                        *)
ReadAs(item, before, date, had) ==
  /\ IsWellFormed(item)
  /\ HasYear(item) \/ IsShortcutAllowed(item, before)
  /\ Decomposed(item, before) = After(date, had)

LEMMA FullDateReadAs ==
  ASSUME NEW before, NEW out \in IntDate, NEW had \in {{"Y"}, {"Y", "M"}, {"Y", "M", "D"}},
         "M" \notin had => out.Month = 0, "D" \notin had => out.Day = 0
  PROVE  ReadAs(OutputItem(out, had), before, out, had)
<1>1. out = DateOf(out.Year, out.Month, out.Day)
  BY DEF IntDate, DateOf
<1>2. CASE had = {"Y"}
  <2>1. PICK item : item = <<Part(4, out.Year)>>
    OBVIOUS
  <2>2. OutputItem(out, had) = item
    BY <1>2, <2>1, ItemOf
  <2>3. Len(item) = 1 /\ item[1].width = 4 /\ item[1].value = out.Year
    BY <2>1 DEF Part
  <2>4. HasYear(item) /\ IsWellFormed(item)
    BY <2>3 DEF HasYear, IsWellFormed
  <2>5. FullDate(item) = After(out, had)
    BY <1>1, <1>2, <2>3, FullDateOf
  <2> QED BY <2>2, <2>4, <2>5 DEF ReadAs, Decomposed
<1>3. CASE had = {"Y", "M"}
  <2>1. PICK item : item = <<Part(4, out.Year), Part(2, out.Month)>>
    OBVIOUS
  <2>2. OutputItem(out, had) = item
    BY <1>3, <2>1, ItemOf
  <2>3. /\ Len(item) = 2 /\ item[1].width = 4 /\ item[1].value = out.Year
        /\ item[2].width = 2 /\ item[2].value = out.Month
    BY <2>1 DEF Part
  <2>4. HasYear(item) /\ IsWellFormed(item)
    BY <2>3 DEF HasYear, IsWellFormed
  <2>5. FullDate(item) = After(out, had)
    BY <1>1, <1>3, <2>3, FullDateOf
  <2> QED BY <2>2, <2>4, <2>5 DEF ReadAs, Decomposed
<1>4. CASE had = {"Y", "M", "D"}
  <2>1. PICK item : item = <<Part(4, out.Year), Part(2, out.Month), Part(2, out.Day)>>
    OBVIOUS
  <2>2. OutputItem(out, had) = item
    BY <1>4, <2>1, ItemOf
  <2>3. /\ Len(item) = 3 /\ item[1].width = 4 /\ item[1].value = out.Year
        /\ item[2].width = 2 /\ item[2].value = out.Month
        /\ item[3].width = 2 /\ item[3].value = out.Day
    BY <2>1 DEF Part
  <2>4. HasYear(item) /\ IsWellFormed(item)
    BY <2>3 DEF HasYear, IsWellFormed
  <2>5. FullDate(item) = After(out, had)
    BY <1>1, <1>4, <2>3, FullDateOf
  <2> QED BY <2>2, <2>4, <2>5 DEF ReadAs, Decomposed
<1> QED BY <1>2, <1>3, <1>4

LEMMA ShortcutReadAs ==
  ASSUME NEW before, before.date \in IntDate, before.present, NEW out \in IntDate
  PROVE  /\ MonthAndDayFollow(before.had) =>
              ReadAs(OutputItem(out, {"M", "D"}), before,
                     DateOf(before.date.Year, out.Month, out.Day), {"M", "D"})
         /\ MonthFollows(before.had) =>
              ReadAs(OutputItem(out, {"M"}), before, DateOf(before.date.Year, out.Month, 0), {"M"})
         /\ DayFollows(before.had) =>
              ReadAs(OutputItem(out, {"D"}), before,
                     DateOf(before.date.Year, before.date.Month, out.Day), {"D"})
<1>1. ASSUME MonthAndDayFollow(before.had)
      PROVE  ReadAs(OutputItem(out, {"M", "D"}), before,
                    DateOf(before.date.Year, out.Month, out.Day), {"M", "D"})
  <2>1. PICK item : item = <<Part(2, out.Month), Part(2, out.Day)>>
    OBVIOUS
  <2>2. OutputItem(out, {"M", "D"}) = item
    BY <2>1, ItemOf
  <2>3. /\ Len(item) = 2 /\ item[1].width = 2 /\ item[1].value = out.Month
        /\ item[2].width = 2 /\ item[2].value = out.Day
    BY <2>1 DEF Part
  <2>4. ~HasYear(item) /\ IsWellFormed(item)
    BY <2>3 DEF HasYear, IsWellFormed
  <2>5. IsShortcutAllowed(item, before)
    BY <1>1, <2>3 DEF IsShortcutAllowed
  <2>6. Shortcut(item, before) = After(DateOf(before.date.Year, out.Month, out.Day), {"M", "D"})
    BY <2>3, ShortcutOf
  <2> QED BY <2>2, <2>4, <2>5, <2>6 DEF ReadAs, Decomposed
<1>2. ASSUME MonthFollows(before.had)
      PROVE  ReadAs(OutputItem(out, {"M"}), before, DateOf(before.date.Year, out.Month, 0), {"M"})
  <2>1. PICK item : item = <<Part(2, out.Month)>>
    OBVIOUS
  <2>2. OutputItem(out, {"M"}) = item
    BY <2>1, ItemOf
  <2>3. Len(item) = 1 /\ item[1].width = 2 /\ item[1].value = out.Month
    BY <2>1 DEF Part
  <2>4. ~HasYear(item) /\ IsWellFormed(item)
    BY <2>3 DEF HasYear, IsWellFormed
  <2>5. IsShortcutAllowed(item, before)
    BY <1>2, <2>3 DEF IsShortcutAllowed
  <2>6. Shortcut(item, before) = After(DateOf(before.date.Year, out.Month, 0), {"M"})
    BY <1>2, <2>3, ShortcutOf
  <2> QED BY <2>2, <2>4, <2>5, <2>6 DEF ReadAs, Decomposed
<1>3. ASSUME DayFollows(before.had)
      PROVE  ReadAs(OutputItem(out, {"D"}), before,
                    DateOf(before.date.Year, before.date.Month, out.Day), {"D"})
  <2>1. PICK item : item = <<Part(2, out.Day)>>
    OBVIOUS
  <2>2. OutputItem(out, {"D"}) = item
    BY <2>1, ItemOf
  <2>3. Len(item) = 1 /\ item[1].width = 2 /\ item[1].value = out.Day
    BY <2>1 DEF Part
  <2>4. ~HasYear(item) /\ IsWellFormed(item)
    BY <2>3 DEF HasYear, IsWellFormed
  <2>5. IsShortcutAllowed(item, before) /\ ~MonthFollows(before.had)
    BY <1>3, <2>3 DEF IsShortcutAllowed, MonthFollows, DayFollows
  <2>6. Shortcut(item, before) = After(DateOf(before.date.Year, before.date.Month, out.Day), {"D"})
    BY <2>3, <2>5, ShortcutOf
  <2> QED BY <2>2, <2>4, <2>5, <2>6 DEF ReadAs, Decomposed
<1> QED BY <1>1, <1>2, <1>3

(* What a date that is composed may be.                                    *)
HadOf(date, before) == OutputParts(OutputDate(date, before))

ComposedForm(d, before, out, had) ==
  /\ OtherMonth(d, before) => had = (IF d.Day = 0 THEN {"M"} ELSE {"M", "D"})
  /\ OtherDay(d, before) => had = {"D"}
  /\ ~OtherMonth(d, before) /\ ~OtherDay(d, before) => out = d
  /\ had \in Forms
  /\ "Y" \in had => had \in {{"Y"}, {"Y", "M"}, {"Y", "M", "D"}} /\ out = d
  /\ "Y" \notin had => before.present
  /\ had = {"M", "D"} => MonthAndDayFollow(before.had)
  /\ had = {"M"} => MonthFollows(before.had)
  /\ had = {"D"} => DayFollows(before.had)

LEMMA ComposedForms ==
  ASSUME NEW d \in IntDate, NEW before, Precedes(before), CanCompose(d, before)
  PROVE  ComposedForm(d, before, OutputDate(d, before), HadOf(d, before))
<1> DEFINE out == OutputDate(d, before)
           had == HadOf(d, before)
<1>1. /\ before.present \in BOOLEAN /\ before.date \in IntDate
      /\ Completed(d, before) \in IntDate /\ IsValidSgfDate(Completed(d, before))
      /\ d.Year # 0 \/ before.present
      /\ CanOutput(had, before)
  BY PrecedingDate, CompletedIs DEF CanCompose, HadOf
<1>2. /\ had \subseteq {"Y", "M", "D"}
      /\ "Y" \in had <=> out.Year # 0
      /\ "M" \in had <=> out.Month # 0
      /\ "D" \in had <=> out.Day # 0
  BY PartsAre DEF HadOf
<1>3. /\ out \in IntDate /\ out.Day = d.Day
      /\ out.Month = (IF OtherDay(d, before) THEN 0 ELSE d.Month)
      /\ out.Year = (IF OtherMonth(d, before) \/ OtherDay(d, before) THEN 0 ELSE d.Year)
  BY <1>1, OutputIs
<1>4. d.Year # 0 => (d.Month = 0 => d.Day = 0)
  <2> SUFFICES ASSUME d.Year # 0 PROVE d.Month = 0 => d.Day = 0
    OBVIOUS
  <2>1. Completed(d, before) = d
    BY <1>1, CompletedIs
  <2> QED BY <1>1, <2>1, DayHasMonth
<1>5. \/ "Y" \in had
      \/ had = {"M", "D"} /\ MonthAndDayFollow(before.had)
      \/ had # {"M", "D"} /\ MonthFollows(before.had) /\ "M" \in had
      \/ had # {"M", "D"} /\ DayFollows(before.had) /\ "D" \in had
  BY <1>1 DEF CanOutput
<1> HIDE DEF out, had
<1>6. ASSUME OtherMonth(d, before)
      PROVE  ~OtherDay(d, before) /\ before.present /\ d.Year # 0 /\ d.Month # 0 /\ "Y" \notin had
  BY <1>2, <1>3, <1>6 DEF OtherMonth, OtherDay, OfSameYear
<1>7. ASSUME OtherDay(d, before)
      PROVE  before.present /\ d.Year # 0 /\ d.Month # 0 /\ d.Day # 0 /\ "Y" \notin had /\ "M" \notin had
  BY <1>2, <1>3, <1>7 DEF OtherDay, OfSameYear
<1>8. OtherMonth(d, before) => had = (IF d.Day = 0 THEN {"M"} ELSE {"M", "D"})
  BY <1>2, <1>3, <1>6
<1>9. OtherDay(d, before) => had = {"D"}
  BY <1>2, <1>3, <1>7
<1>10. ~OtherMonth(d, before) /\ ~OtherDay(d, before) => out = d
  BY <1>3, SameDate
<1>11. had \in Forms
  BY <1>2, <1>3, <1>4, <1>5, <1>6, <1>7 DEF Forms
<1>12. "Y" \in had => had \in {{"Y"}, {"Y", "M"}, {"Y", "M", "D"}} /\ out = d
  BY <1>6, <1>7, <1>10, <1>11 DEF Forms
<1>13. "Y" \notin had => before.present
  BY <1>1, <1>2, <1>3, <1>6, <1>7
<1>14. /\ had = {"M", "D"} => MonthAndDayFollow(before.had)
       /\ had = {"M"} => MonthFollows(before.had)
       /\ had = {"D"} => DayFollows(before.had)
  BY <1>5
<1> QED BY <1>8, <1>9, <1>10, <1>11, <1>12, <1>13, <1>14 DEF out, had, ComposedForm

(* What is composed is decomposed, and the next date may follow it.        *)
LEMMA ComposedReadAs ==
  ASSUME NEW d \in IntDate, NEW before, Precedes(before), CanCompose(d, before)
  PROVE  /\ ReadAs(OutputItem(OutputDate(d, before), HadOf(d, before)), before,
                   Completed(d, before), HadOf(d, before))
         /\ Linked(Completed(d, before), HadOf(d, before))
<1> DEFINE out == OutputDate(d, before)
           had == HadOf(d, before)
           date == Completed(d, before)
           b == before.date
<1>1. /\ before.present \in BOOLEAN /\ b \in IntDate
      /\ before.present => Linked(b, before.had)
      /\ date \in IntDate /\ IsValidSgfDate(date)
      /\ d.Year # 0 \/ before.present
  BY PrecedingDate, CompletedIs DEF CanCompose
<1>2. ComposedForm(d, before, out, had)
  BY ComposedForms
<1>3. /\ "M" \in had <=> out.Month # 0
      /\ "D" \in had <=> out.Day # 0
      /\ "Y" \in had <=> out.Year # 0
  BY PartsAre DEF HadOf
<1>4. /\ out \in IntDate /\ out.Day = d.Day
      /\ out.Month = (IF OtherDay(d, before) THEN 0 ELSE d.Month)
      /\ out.Year = (IF OtherMonth(d, before) \/ OtherDay(d, before) THEN 0 ELSE d.Year)
  BY <1>1, OutputIs
<1>5. /\ d.Year # 0 => date = d
      /\ d.Year = 0 => date.Year = b.Year /\ date.Day = d.Day
                        /\ date.Month = (IF d.Month = 0 THEN b.Month ELSE d.Month)
  BY <1>1, CompletedIs
<1> HIDE DEF out, had, date
<1>6. b.Year = date.Year \/ "Y" \in had
  BY <1>2, <1>3, <1>4, <1>5 DEF ComposedForm, OtherMonth, OtherDay, OfSameYear
<1>7. date.Year # 0 /\ date.Day = d.Day
  BY <1>1, <1>5 DEF Linked
<1>8. date.Month = 0 => date.Day = 0
  BY <1>1, <1>7, DayHasMonth
<1>9. date = DateOf(date.Year, date.Month, date.Day)
  BY <1>1 DEF IntDate, DateOf
<1>10. CASE "Y" \in had
  <2>1. had \in {{"Y"}, {"Y", "M"}, {"Y", "M", "D"}} /\ out = d
    BY <1>2, <1>10 DEF ComposedForm
  <2>2. out = date
    BY <1>3, <1>5, <1>10, <2>1
  <2>3. ReadAs(OutputItem(out, had), before, date, had)
    BY <1>3, <1>4, <2>1, <2>2, FullDateReadAs
  <2>4. Linked(date, had)
    BY <1>1, <1>2, <1>3, <1>7, <1>8, <2>1, <2>2 DEF Linked, ComposedForm
  <2> QED BY <2>3, <2>4 DEF out, had, date
<1>11. CASE had = {"M", "D"}
  <2>1. before.present /\ MonthAndDayFollow(before.had)
    BY <1>2, <1>11 DEF ComposedForm
  <2>2. out.Month = date.Month /\ out.Day = date.Day /\ date.Month # 0
    BY <1>3, <1>4, <1>5, <1>7, <1>11
  <2>3. ReadAs(OutputItem(out, had), before, DateOf(b.Year, out.Month, out.Day), had)
    BY <1>1, <1>4, <1>11, <2>1, ShortcutReadAs
  <2>4. DateOf(b.Year, out.Month, out.Day) = date
    BY <1>6, <1>9, <1>11, <2>2
  <2>5. Linked(date, had)
    BY <1>1, <1>2, <1>3, <1>7, <1>11, <2>2 DEF Linked, ComposedForm
  <2> QED BY <2>3, <2>4, <2>5 DEF out, had, date
<1>12. CASE had = {"M"}
  <2>1. before.present /\ MonthFollows(before.had)
    BY <1>2, <1>12 DEF ComposedForm
  <2>2. out.Month = date.Month /\ date.Day = 0 /\ date.Month # 0
    BY <1>3, <1>4, <1>5, <1>7, <1>12
  <2>3. ReadAs(OutputItem(out, had), before, DateOf(b.Year, out.Month, 0), had)
    BY <1>1, <1>4, <1>12, <2>1, ShortcutReadAs
  <2>4. DateOf(b.Year, out.Month, 0) = date
    BY <1>6, <1>9, <1>12, <2>2
  <2>5. Linked(date, had)
    BY <1>1, <1>2, <1>3, <1>7, <1>12, <2>2 DEF Linked, ComposedForm
  <2> QED BY <2>3, <2>4, <2>5 DEF out, had, date
<1>13. CASE had = {"D"}
  <2>1. before.present /\ DayFollows(before.had)
    BY <1>2, <1>13 DEF ComposedForm
  <2>2. out.Day = date.Day /\ date.Day # 0 /\ date.Month # 0
    BY <1>3, <1>4, <1>7, <1>8, <1>13
  <2>3. date.Month = b.Month
    BY <1>2, <1>3, <1>4, <1>5, <1>13 DEF ComposedForm, OtherDay, OtherMonth, OfSameYear
  <2>4. ReadAs(OutputItem(out, had), before, DateOf(b.Year, b.Month, out.Day), had)
    BY <1>1, <1>4, <1>13, <2>1, ShortcutReadAs
  <2>5. DateOf(b.Year, b.Month, out.Day) = date
    BY <1>6, <1>9, <1>13, <2>2, <2>3
  <2>6. Linked(date, had)
    BY <1>1, <1>2, <1>3, <1>7, <1>13, <2>2 DEF Linked, ComposedForm
  <2> QED BY <2>4, <2>5, <2>6 DEF out, had, date
<1>14. "Y" \in had \/ had = {"M", "D"} \/ had = {"M"} \/ had = {"D"}
  BY <1>2 DEF ComposedForm, Forms
<1> QED BY <1>10, <1>11, <1>12, <1>13, <1>14

LEMMA FollowsIff ==
  ASSUME NEW b, NEW had, Linked(b, had)
  PROVE  /\ MonthAndDayFollow(had) <=> b.Month # 0
         /\ MonthFollows(had) <=> b.Month # 0 /\ b.Day = 0
         /\ DayFollows(had) <=> b.Day # 0
BY DEF Linked, Forms, MonthAndDayFollow, MonthFollows, DayFollows

(* Why a date cannot be composed.                                          *)
Erroneous(d, before) ==
  IF before.present
  THEN \/ ~IsValidSgfDate(Completed(d, before))
       \/ d = before.date
       \/ d.Year = 0 /\ ~IsEncodable(d, before.date)
       \/ IsMonthAfterDay(d, before.date)
  ELSE d.Year = 0 \/ ~IsValidSgfDate(d)

LEMMA NotComposed ==
  ASSUME NEW d \in IntDate, NEW before, Precedes(before), ~CanCompose(d, before)
  PROVE  Erroneous(d, before)
<1> DEFINE out == OutputDate(d, before)
           had == HadOf(d, before)
           b == before.date
<1>1. /\ before.present \in BOOLEAN /\ b \in IntDate
      /\ before.present => Linked(b, before.had)
  BY PrecedingDate
<1>2. /\ had \subseteq {"Y", "M", "D"}
      /\ "M" \in had <=> out.Month # 0
      /\ "D" \in had <=> out.Day # 0
      /\ "Y" \in had <=> out.Year # 0
  BY PartsAre DEF HadOf
<1>3. /\ out \in IntDate /\ out.Day = d.Day
      /\ out.Month = (IF OtherDay(d, before) THEN 0 ELSE d.Month)
      /\ out.Year = (IF OtherMonth(d, before) \/ OtherDay(d, before) THEN 0 ELSE d.Year)
  BY <1>1, OutputIs
<1>4. SUFFICES ASSUME ~Erroneous(d, before) PROVE FALSE
  OBVIOUS
<1>5. d.Year # 0 \/ before.present
  BY <1>1, <1>4 DEF Erroneous
<1>6. IsValidSgfDate(Completed(d, before))
  BY <1>1, <1>4, CompletedIs DEF Erroneous
<1>7. ~IsRepeated(d, before)
  BY <1>4 DEF Erroneous, IsRepeated
<1>8. ~CanOutput(had, before)
  BY <1>5, <1>6, <1>7 DEF CanCompose, HadOf
<1> HIDE DEF out, had
<1>9. /\ "Y" \notin had
      /\ had = {"M", "D"} => ~MonthAndDayFollow(before.had)
      /\ had # {"M", "D"} => ~(MonthFollows(before.had) /\ "M" \in had)
      /\ had # {"M", "D"} => ~(DayFollows(before.had) /\ "D" \in had)
  BY <1>8 DEF CanOutput
<1>10. before.present
  BY <1>1, <1>2, <1>3, <1>5, <1>9 DEF OtherMonth, OtherDay, OfSameYear
<1>11. /\ MonthAndDayFollow(before.had) <=> b.Month # 0
       /\ MonthFollows(before.had) <=> b.Month # 0 /\ b.Day = 0
       /\ DayFollows(before.had) <=> b.Day # 0
  BY <1>1, <1>10, FollowsIff
<1>12. /\ ~(d.Year = 0 /\ ~IsEncodable(d, b))
       /\ ~IsMonthAfterDay(d, b)
  BY <1>4, <1>10 DEF Erroneous
<1>13. CASE OtherMonth(d, before)
  <2>1. d.Year = b.Year /\ d.Month # 0 /\ b.Month # 0 /\ d.Month # b.Month /\ ~OtherDay(d, before)
    BY <1>13 DEF OtherMonth, OtherDay, OfSameYear
  <2>2. "M" \in had /\ ("D" \in had <=> d.Day # 0)
    BY <1>2, <1>3, <2>1
  <2>3. CASE d.Day = 0
    <3>1. b.Day = 0
      BY <1>12, <2>1, <2>3 DEF IsMonthAfterDay
    <3>2. had # {"M", "D"}
      BY <2>2, <2>3
    <3> QED BY <1>9, <1>11, <2>1, <2>2, <3>1, <3>2
  <2>4. CASE d.Day # 0
    <3>1. had = {"M", "D"}
      BY <1>2, <1>9, <2>2, <2>4
    <3> QED BY <1>9, <1>11, <2>1, <3>1
  <2> QED BY <2>3, <2>4
<1>14. CASE OtherDay(d, before)
  <2>1. b.Day # 0 /\ d.Day # 0
    BY <1>14 DEF OtherDay
  <2>2. "D" \in had /\ "M" \notin had
    BY <1>2, <1>3, <1>14, <2>1
  <2> QED BY <1>9, <1>11, <2>1, <2>2
<1>15. CASE ~OtherMonth(d, before) /\ ~OtherDay(d, before)
  <2>1. d.Year = 0 /\ ("M" \in had <=> d.Month # 0) /\ ("D" \in had <=> d.Day # 0)
    BY <1>2, <1>3, <1>9, <1>15
  <2>2. IsEncodable(d, b)
    BY <1>12, <2>1
  <2>3. CASE d.Month # 0 /\ d.Day # 0
    <3>1. had = {"M", "D"} /\ b.Month # 0
      BY <1>2, <1>9, <2>1, <2>2, <2>3 DEF IsEncodable
    <3> QED BY <1>9, <1>11, <3>1
  <2>4. CASE d.Month # 0 /\ d.Day = 0
    <3>1. "M" \in had /\ had # {"M", "D"} /\ b.Month # 0 /\ b.Day = 0
      BY <2>1, <2>2, <2>4 DEF IsEncodable
    <3> QED BY <1>9, <1>11, <3>1
  <2>5. CASE d.Month = 0
    <3>1. d.Day # 0 /\ b.Day # 0
      BY <2>2, <2>5 DEF IsEncodable
    <3>2. "D" \in had /\ had # {"M", "D"}
      BY <2>1, <2>5, <3>1
    <3> QED BY <1>9, <1>11, <3>1, <3>2
  <2> QED BY <2>3, <2>4, <2>5
<1> QED BY <1>13, <1>14, <1>15

LEMMA LengthOf ==
  ASSUME NEW out, NEW had \in Forms
  PROVE  /\ had = {"Y", "M", "D"} => Len(OutputItem(out, had)) = 3
         /\ had \in {{"Y", "M"}, {"M", "D"}} => Len(OutputItem(out, had)) = 2
         /\ had \in {{"Y"}, {"M"}, {"D"}} => Len(OutputItem(out, had)) = 1
<1>1. \A p, q, r : Len(<<p>>) = 1 /\ Len(<<p, q>>) = 2 /\ Len(<<p, q, r>>) = 3
  OBVIOUS
<1>2. CASE had = {"Y", "M", "D"}
  <2>1. Len(OutputItem(out, had)) = 3
    BY <1>1, <1>2, ItemOf
  <2>2. had \notin {{"Y", "M"}, {"M", "D"}} /\ had \notin {{"Y"}, {"M"}, {"D"}}
    BY <1>2
  <2> QED BY <2>1, <2>2
<1>3. CASE had = {"Y", "M"}
  BY <1>1, <1>3, ItemOf
<1>4. CASE had = {"M", "D"}
  BY <1>1, <1>4, ItemOf
<1>5. CASE had = {"Y"}
  BY <1>1, <1>5, ItemOf
<1>6. CASE had = {"M"}
  BY <1>1, <1>6, ItemOf
<1>7. CASE had = {"D"}
  BY <1>1, <1>7, ItemOf
<1> QED BY <1>2, <1>3, <1>4, <1>5, <1>6, <1>7 DEF Forms

LEMMA MembersOf ==
  ASSUME NEW year, NEW month, NEW day, NEW had
  PROVE  /\ After(DateOf(year, month, day), had).date.Year = year
         /\ After(DateOf(year, month, day), had).date.Month = month
         /\ After(DateOf(year, month, day), had).date.Day = day
BY DEF After, DateOf

(* A shorter item for the same date.                                       *)
LEMMA NoShorterItem ==
  ASSUME NEW d \in IntDate, NEW before, Precedes(before), CanCompose(d, before), d.Year # 0,
         NEW item \in Items, \A i \in DOMAIN item : item[i].value # 0,
         Len(item) < Len(OutputItem(OutputDate(d, before), HadOf(d, before))),
         CanDecompose(item, before), Decomposed(item, before).date = d
  PROVE  Len(item) = 2 /\ before.date.Month = d.Month /\ before.date.Day = 0
<1> DEFINE out == OutputDate(d, before)
           had == HadOf(d, before)
           b == before.date
           n == Len(OutputItem(out, had))
<1>1. /\ before.present \in BOOLEAN /\ b \in IntDate
      /\ before.present => Linked(b, before.had)
  BY PrecedingDate
<1>2. ComposedForm(d, before, out, had)
  BY ComposedForms
<1>3. /\ "M" \in had <=> out.Month # 0
      /\ "D" \in had <=> out.Day # 0
      /\ "Y" \in had <=> out.Year # 0
  BY PartsAre DEF HadOf
<1>4. had \in Forms
  BY <1>2 DEF ComposedForm
<1>6. Len(item) \in 1..3 /\ DOMAIN item = 1..Len(item)
  BY DEF Items
<1>7. Len(item) < n
  OBVIOUS
<1> HIDE DEF out, had
<1>5. /\ had = {"Y", "M", "D"} => n = 3
      /\ had \in {{"Y", "M"}, {"M", "D"}} => n = 2
      /\ had \in {{"Y"}, {"M"}, {"D"}} => n = 1
  BY <1>4, LengthOf
<1> HIDE DEF n
<1>8. ~HasYear(item)
  <2> SUFFICES ASSUME HasYear(item) PROVE FALSE
    OBVIOUS
  <2>1. FullDate(item).date = d
    BY DEF Decomposed
  <2>2. Len(item) = 1 => d.Month = 0 /\ d.Day = 0
    BY <2>1, FullDateOf, MembersOf
  <2>3. Len(item) = 2 => d.Day = 0
    BY <2>1, FullDateOf, MembersOf
  <2>4. CASE "Y" \in had
    BY <1>2, <1>3, <1>5, <1>6, <1>7, <2>2, <2>3, <2>4 DEF ComposedForm
  <2>5. CASE "Y" \notin had
    <3>1. Len(item) = 1 /\ had = {"M", "D"}
      BY <1>4, <1>5, <1>6, <1>7, <2>5 DEF Forms
    <3>2. out = d => "Y" \in had
      BY <1>3
    <3>3. OtherMonth(d, before)
      BY <1>2, <2>5, <3>1, <3>2 DEF ComposedForm
    <3> QED BY <2>2, <3>1, <3>3 DEF OtherMonth
  <2> QED BY <2>4, <2>5
<1>9. before.present /\ IsShortcutAllowed(item, before) /\ Shortcut(item, before).date = d
      /\ IsWellFormed(item) /\ Linked(b, before.had)
  BY <1>1, <1>8 DEF CanDecompose, Decomposed, IsShortcutAllowed
<1>10. Len(item) \in 1..2
  BY <1>6, <1>8, <1>9 DEF IsWellFormed
<1>11. /\ MonthAndDayFollow(before.had) <=> b.Month # 0
       /\ MonthFollows(before.had) <=> b.Month # 0 /\ b.Day = 0
       /\ DayFollows(before.had) <=> b.Day # 0
  BY <1>9, FollowsIff
<1>12. item[1].value # 0 /\ (Len(item) = 2 => item[2].value # 0)
  BY <1>6, <1>10
<1>13. CASE Len(item) = 2
  <2>1. d.Year = b.Year /\ d.Month = item[1].value /\ d.Day = item[2].value
    BY <1>1, <1>9, <1>13, ShortcutOf, MembersOf
  <2>2. b.Month # 0
    BY <1>9, <1>11, <1>13 DEF IsShortcutAllowed
  <2>3. had = {"Y", "M", "D"}
    BY <1>4, <1>5, <1>7, <1>13 DEF Forms
  <2>4. ~OtherMonth(d, before) /\ ~OtherDay(d, before)
    <3>1. "Y" \in had
      BY <2>3
    <3> QED BY <1>2, <3>1 DEF ComposedForm
  <2> QED BY <1>9, <1>12, <1>13, <2>1, <2>2, <2>4 DEF OtherMonth, OtherDay, OfSameYear
<1>14. CASE Len(item) = 1 /\ MonthFollows(before.had)
  <2>1. d.Year = b.Year /\ d.Month = item[1].value /\ d.Day = 0
    BY <1>1, <1>9, <1>14, ShortcutOf, MembersOf
  <2>2. b.Month # 0 /\ b.Day = 0
    BY <1>11, <1>14
  <2>3. ~OtherMonth(d, before)
    BY <1>2, <1>5, <1>7, <1>14, <2>1 DEF ComposedForm
  <2>4. d.Month = b.Month
    BY <1>9, <1>12, <2>1, <2>2, <2>3 DEF OtherMonth, OfSameYear
  <2>5. d = b
    BY <1>1, <2>1, <2>2, <2>4, SameDate
  <2> QED BY <1>9, <2>5 DEF CanCompose, IsRepeated
<1>15. CASE Len(item) = 1 /\ ~MonthFollows(before.had)
  <2>1. d.Year = b.Year /\ d.Month = b.Month /\ d.Day = item[1].value
    BY <1>1, <1>9, <1>15, ShortcutOf, MembersOf
  <2>2. b.Day # 0
    BY <1>9, <1>11, <1>15 DEF IsShortcutAllowed
  <2>3. b.Month # 0
    BY <1>1, <1>9, <2>2, DayHasMonth DEF Linked
  <2>4. OtherDay(d, before)
    BY <1>9, <1>12, <2>1, <2>2, <2>3 DEF OtherDay, OfSameYear
  <2> QED BY <1>2, <1>5, <1>7, <1>15, <2>4 DEF ComposedForm
<1> QED BY <1>10, <1>13, <1>14, <1>15

-----------------------------------------------------------------------------
(* What the k-th of some dates means, and what precedes it in the loops.   *)

LastOf(S) == CHOOSE j \in S : \A i \in S : i <= j
YearsUpTo(ds, k) == {j \in 1..k : ds[j].Year # 0}
MonthsUpTo(ds, k) == {j \in 1..k : ds[j].Year # 0 \/ ds[j].Month # 0}

MeantIn(ds, k) ==
  DateOf(ds[LastOf(YearsUpTo(ds, k))].Year, ds[LastOf(MonthsUpTo(ds, k))].Month, ds[k].Day)

LEMMA MeantDateIs ==
  ASSUME NEW k
  PROVE  MeantDate(k) = MeantIn(dates, k)
BY DEF MeantDate, MeantIn, LastOf, YearsUpTo, MonthsUpTo, DateOf

LEMMA LastIsLast ==
  ASSUME NEW k \in Nat, NEW S \in SUBSET (1..k), k \in S
  PROVE  LastOf(S) = k
<1>1. \A i \in S : i <= k
  OBVIOUS
<1>2. \A j \in S : (\A i \in S : i <= j) => j = k
  OBVIOUS
<1> QED BY <1>1, <1>2 DEF LastOf

LEMMA MeantCompleted ==
  ASSUME NEW ds \in Seq(IntDate), NEW k \in 1..Len(ds), NEW before,
         k > 1 => before.date = MeantIn(ds, k - 1) /\ before.date \in IntDate,
         k = 1 => ds[k].Year # 0
  PROVE  MeantIn(ds, k) = Completed(ds[k], before)
<1>1. ds[k] \in IntDate /\ k \in Nat
  OBVIOUS
<1>2. CASE ds[k].Year # 0
  <2>1. k \in YearsUpTo(ds, k) /\ k \in MonthsUpTo(ds, k)
    BY <1>1, <1>2 DEF YearsUpTo, MonthsUpTo
  <2>2. YearsUpTo(ds, k) \in SUBSET (1..k) /\ MonthsUpTo(ds, k) \in SUBSET (1..k)
    BY DEF YearsUpTo, MonthsUpTo
  <2>3. LastOf(YearsUpTo(ds, k)) = k /\ LastOf(MonthsUpTo(ds, k)) = k
    BY <1>1, <2>1, <2>2, LastIsLast
  <2>4. MeantIn(ds, k) = DateOf(ds[k].Year, ds[k].Month, ds[k].Day)
    BY <2>3 DEF MeantIn
  <2>5. Completed(ds[k], before) = ds[k]
    BY <1>2 DEF Completed
  <2> QED BY <1>1, <2>4, <2>5 DEF DateOf, IntDate
<1>3. CASE ds[k].Year = 0
  <2>1. k > 1 /\ before.date = MeantIn(ds, k - 1) /\ before.date \in IntDate
    BY <1>3
  <2>2. YearsUpTo(ds, k) = YearsUpTo(ds, k - 1)
    BY <1>1, <1>3 DEF YearsUpTo
  <2>3. MeantIn(ds, k).Year = before.date.Year
    BY <2>1, <2>2 DEF MeantIn, DateOf
  <2>4. MeantIn(ds, k).Month = (IF ds[k].Month = 0 THEN before.date.Month ELSE ds[k].Month)
    <3>1. CASE ds[k].Month = 0
      <4>1. MonthsUpTo(ds, k) = MonthsUpTo(ds, k - 1)
        BY <1>1, <1>3, <3>1 DEF MonthsUpTo
      <4> QED BY <2>1, <3>1, <4>1 DEF MeantIn, DateOf
    <3>2. CASE ds[k].Month # 0
      <4>1. k \in MonthsUpTo(ds, k) /\ MonthsUpTo(ds, k) \in SUBSET (1..k)
        BY <1>1, <3>2 DEF MonthsUpTo
      <4>2. LastOf(MonthsUpTo(ds, k)) = k
        BY <1>1, <4>1, LastIsLast
      <4> QED BY <3>2, <4>2 DEF MeantIn, DateOf
    <3> QED BY <3>1, <3>2
  <2>5. MeantIn(ds, k).Day = ds[k].Day
    BY DEF MeantIn, DateOf
  <2>6. /\ Completed(ds[k], before) \in IntDate
        /\ Completed(ds[k], before).Year = before.date.Year
        /\ Completed(ds[k], before).Month = (IF ds[k].Month = 0 THEN before.date.Month ELSE ds[k].Month)
        /\ Completed(ds[k], before).Day = ds[k].Day
    BY <1>1, <1>3, <2>1, CompletedIs
  <2>7. MeantIn(ds, k) \in IntDate
    <3>1. MeantIn(ds, k) = DateOf(MeantIn(ds, k).Year, MeantIn(ds, k).Month, MeantIn(ds, k).Day)
      BY DEF MeantIn, DateOf
    <3>2. MeantIn(ds, k).Year \in Int /\ MeantIn(ds, k).Month \in Int /\ MeantIn(ds, k).Day \in Int
      BY <1>1, <2>1, <2>3, <2>4, <2>5 DEF IntDate
    <3> QED BY <3>1, <3>2 DEF DateOf, IntDate
  <2> QED BY <2>3, <2>4, <2>5, <2>6, <2>7, SameDate
<1> QED BY <1>2, <1>3

(* OutputDate asks for the date before only, and not for what it had.      *)
HadAt(ds, k) == HadOf(ds[k], IF k = 1 THEN LoopStart ELSE After(MeantIn(ds, k - 1), {}))
LoopBefore(ds, k) == IF k = 1 THEN LoopStart ELSE After(MeantIn(ds, k - 1), HadAt(ds, k - 1))

LEMMA HadAtIs ==
  ASSUME NEW ds, NEW k
  PROVE  HadAt(ds, k) = HadOf(ds[k], LoopBefore(ds, k))
<1>1. ASSUME NEW d, NEW date, NEW had
      PROVE  OutputDate(d, After(date, had)) = OutputDate(d, After(date, {}))
  BY DEF OutputDate, After
<1> QED BY <1>1 DEF HadAt, LoopBefore, HadOf

(* It depends on the dates up to the k-th, among which the ones with a     *)
(* year and with a month are, once the first date has a year.              *)
HasLast(ds, k) == LastOf(YearsUpTo(ds, k)) \in 1..k /\ LastOf(MonthsUpTo(ds, k)) \in 1..k

LEMMA NextHasLast ==
  ASSUME NEW ds, NEW k \in Nat, k >= 1, ds[k].Year # 0 \/ (k > 1 /\ HasLast(ds, k - 1))
  PROVE  HasLast(ds, k)
<1>1. YearsUpTo(ds, k) \in SUBSET (1..k) /\ MonthsUpTo(ds, k) \in SUBSET (1..k)
  BY DEF YearsUpTo, MonthsUpTo
<1>2. ds[k].Year # 0 => LastOf(YearsUpTo(ds, k)) = k
  <2>1. ds[k].Year # 0 => k \in YearsUpTo(ds, k)
    BY DEF YearsUpTo
  <2> QED BY <1>1, <2>1, LastIsLast
<1>3. ds[k].Year # 0 \/ ds[k].Month # 0 => LastOf(MonthsUpTo(ds, k)) = k
  <2>1. ds[k].Year # 0 \/ ds[k].Month # 0 => k \in MonthsUpTo(ds, k)
    BY DEF MonthsUpTo
  <2> QED BY <1>1, <2>1, LastIsLast
<1>4. ds[k].Year = 0 => YearsUpTo(ds, k) = YearsUpTo(ds, k - 1)
  BY DEF YearsUpTo
<1>5. ds[k].Year = 0 /\ ds[k].Month = 0 => MonthsUpTo(ds, k) = MonthsUpTo(ds, k - 1)
  BY DEF MonthsUpTo
<1>6. k \in 1..k /\ 1..(k - 1) \subseteq 1..k
  OBVIOUS
<1>7. LastOf(YearsUpTo(ds, k)) \in 1..k
  BY <1>2, <1>4, <1>6 DEF HasLast
<1>8. LastOf(MonthsUpTo(ds, k)) \in 1..k
  BY <1>3, <1>5, <1>6 DEF HasLast
<1> QED BY <1>7, <1>8 DEF HasLast

LEMMA Prefix ==
  ASSUME NEW ds, NEW es, NEW k \in Nat, k >= 1, HasLast(ds, k), \A j \in 1..k : es[j] = ds[j]
  PROVE  MeantIn(es, k) = MeantIn(ds, k) /\ HasLast(es, k)
<1>1. YearsUpTo(es, k) = YearsUpTo(ds, k) /\ MonthsUpTo(es, k) = MonthsUpTo(ds, k)
  BY DEF YearsUpTo, MonthsUpTo
<1>2. PICK y, m : y = LastOf(YearsUpTo(ds, k)) /\ m = LastOf(MonthsUpTo(ds, k))
  OBVIOUS
<1>3. y \in 1..k /\ m \in 1..k
  BY <1>2 DEF HasLast
<1>4. es[y] = ds[y] /\ es[m] = ds[m] /\ es[k] = ds[k]
  BY <1>3
<1> QED BY <1>1, <1>2, <1>3, <1>4 DEF MeantIn, HasLast

(* Each item of a text was composed of its date.                           *)
AnyItem == Seq([width : Int, value : Int])

ComposedAt(ds, txt, k) ==
  /\ CanCompose(ds[k], LoopBefore(ds, k))
  /\ txt[k] = OutputItem(OutputDate(ds[k], LoopBefore(ds, k)), HadAt(ds, k))
  /\ Linked(MeantIn(ds, k), HadAt(ds, k))
  /\ HasLast(ds, k)

ComposedUpTo(ds, txt) ==
  /\ txt \in Seq(AnyItem) /\ Len(txt) <= Len(ds)
  /\ \A k \in 1..Len(txt) : ComposedAt(ds, txt, k)

LEMMA LoopPrecedes ==
  ASSUME NEW ds \in Seq(IntDate), NEW txt, ComposedUpTo(ds, txt), NEW k \in 1..(Len(txt) + 1)
  PROVE  Precedes(LoopBefore(ds, k))
<1>1. CASE k = 1
  BY <1>1 DEF LoopBefore, Precedes
<1>2. CASE k > 1
  <2>1. k - 1 \in 1..Len(txt)
    BY <1>2 DEF ComposedUpTo
  <2>2. Linked(MeantIn(ds, k - 1), HadAt(ds, k - 1))
    BY <2>1 DEF ComposedUpTo, ComposedAt
  <2>3. LoopBefore(ds, k) = After(MeantIn(ds, k - 1), HadAt(ds, k - 1))
    BY <1>2 DEF LoopBefore
  <2> QED BY <2>2, <2>3 DEF Precedes
<1> QED BY <1>1, <1>2 DEF ComposedUpTo

(* What the next date means, if it can be composed or only has a year.     *)
LEMMA NextMeant ==
  ASSUME NEW ds \in Seq(IntDate), NEW txt, ComposedUpTo(ds, txt), NEW k \in 1..Len(ds),
         k <= Len(txt) + 1, k = 1 => ds[k].Year # 0
  PROVE  MeantIn(ds, k) = Completed(ds[k], LoopBefore(ds, k))
<1>1. Len(txt) \in Nat
  BY DEF ComposedUpTo
<1>2. k > 1 => LoopBefore(ds, k).date = MeantIn(ds, k - 1)
  BY DEF LoopBefore, After
<1>3. k > 1 => MeantIn(ds, k - 1) \in IntDate
  <2> SUFFICES ASSUME k > 1 PROVE MeantIn(ds, k - 1) \in IntDate
    OBVIOUS
  <2>1. k - 1 \in 1..Len(txt)
    BY <1>1
  <2> QED BY <2>1 DEF ComposedUpTo, ComposedAt, Linked
<1>4. PICK before : before = LoopBefore(ds, k)
  OBVIOUS
<1> QED BY <1>2, <1>3, <1>4, MeantCompleted

LEMMA FirstHasYear ==
  ASSUME NEW d, NEW ds, CanCompose(d, LoopBefore(ds, 1))
  PROVE  d.Year # 0
BY DEF CanCompose, LoopBefore, LoopStart

LEMMA ItemType ==
  ASSUME NEW out \in IntDate, NEW had \in Forms
  PROVE  OutputItem(out, had) \in AnyItem
<1>1. PICK p, q, r : p = Part(4, out.Year) /\ q = Part(2, out.Month) /\ r = Part(2, out.Day)
  OBVIOUS
<1>2. p \in [width : Int, value : Int] /\ q \in [width : Int, value : Int] /\ r \in [width : Int, value : Int]
  BY <1>1 DEF Part, IntDate
<1>3. /\ <<p>> \in AnyItem /\ <<p, q>> \in AnyItem /\ <<p, q, r>> \in AnyItem
      /\ <<q, r>> \in AnyItem /\ <<q>> \in AnyItem /\ <<r>> \in AnyItem
  BY <1>2 DEF AnyItem
<1>4. /\ OutputItem(out, {"Y"}) = <<p>> /\ OutputItem(out, {"Y", "M"}) = <<p, q>>
      /\ OutputItem(out, {"Y", "M", "D"}) = <<p, q, r>> /\ OutputItem(out, {"M", "D"}) = <<q, r>>
      /\ OutputItem(out, {"M"}) = <<q>> /\ OutputItem(out, {"D"}) = <<r>>
  BY <1>1, ItemOf
<1> QED BY <1>3, <1>4 DEF Forms

(* One more date is composed.                                              *)
LEMMA ComposeStep ==
  ASSUME NEW ds \in Seq(IntDate), NEW txt, ComposedUpTo(ds, txt),
         NEW k \in 1..Len(ds), k = Len(txt) + 1,
         NEW before, before = LoopBefore(ds, k), CanCompose(ds[k], before),
         NEW item, item = OutputItem(OutputDate(ds[k], before), HadOf(ds[k], before))
  PROVE  /\ ComposedUpTo(ds, Append(txt, item))
         /\ After(Completed(ds[k], before), HadOf(ds[k], before)) = LoopBefore(ds, k + 1)
<1>1. ds[k] \in IntDate /\ Len(txt) \in Nat /\ k \in Nat /\ txt \in Seq(AnyItem)
  BY DEF ComposedUpTo
<1>2. Precedes(before)
  BY LoopPrecedes, <1>1
<1>3. MeantIn(ds, k) = Completed(ds[k], before)
  BY <1>1, NextMeant, FirstHasYear
<1>4. HadAt(ds, k) = HadOf(ds[k], before)
  BY HadAtIs
<1>5. Linked(MeantIn(ds, k), HadAt(ds, k))
  BY <1>1, <1>2, <1>3, <1>4, ComposedReadAs
<1>6. item \in AnyItem
  <2>1. before.present \in BOOLEAN
    BY <1>2, PrecedingDate
  <2>2. OutputDate(ds[k], before) \in IntDate
    BY <1>1, <2>1, OutputIs
  <2>3. HadOf(ds[k], before) \in Forms
    BY <1>4, <1>5 DEF Linked
  <2> QED BY <2>2, <2>3, ItemType
<1>7. PICK txt2 : txt2 = Append(txt, item)
  OBVIOUS
<1>8. /\ txt2 \in Seq(AnyItem) /\ Len(txt2) = k /\ txt2[k] = item
      /\ \A j \in 1..Len(txt) : txt2[j] = txt[j]
  BY <1>1, <1>6, <1>7
<1>9. ASSUME NEW j \in 1..Len(txt2) PROVE ComposedAt(ds, txt2, j)
  <2>1. CASE j = k
    <3>1. ds[k].Year # 0 \/ (k > 1 /\ HasLast(ds, k - 1))
      <4>1. CASE k = 1
        BY <4>1, FirstHasYear
      <4>2. CASE k > 1
        <5>1. k - 1 \in 1..Len(txt)
          BY <1>1, <4>2
        <5> QED BY <4>2, <5>1 DEF ComposedUpTo, ComposedAt
      <4> QED BY <1>1, <4>1, <4>2
    <3>2. HasLast(ds, k)
      BY <1>1, <3>1, NextHasLast
    <3> QED BY <1>4, <1>5, <1>8, <2>1, <3>2 DEF ComposedAt
  <2>2. CASE j # k
    <3>1. j \in 1..Len(txt) /\ txt2[j] = txt[j]
      BY <1>1, <1>8, <2>2
    <3>2. ComposedAt(ds, txt, j)
      BY <3>1 DEF ComposedUpTo
    <3> QED BY <3>1, <3>2 DEF ComposedAt
  <2> QED BY <2>1, <2>2
<1>10. ComposedUpTo(ds, txt2)
  BY <1>8, <1>9 DEF ComposedUpTo
<1>11. LoopBefore(ds, k + 1) = After(MeantIn(ds, k), HadAt(ds, k))
  <2>1. k + 1 # 1 /\ (k + 1) - 1 = k
    BY <1>1
  <2> QED BY <2>1 DEF LoopBefore
<1> QED BY <1>3, <1>4, <1>7, <1>10, <1>11

(* One more item is decomposed.                                            *)
LEMMA DecomposeStep ==
  ASSUME NEW ds \in Seq(IntDate), NEW txt, ComposedUpTo(ds, txt), NEW k \in 1..Len(txt)
  PROVE  /\ CanDecompose(txt[k], LoopBefore(ds, k))
         /\ Decomposed(txt[k], LoopBefore(ds, k)) = LoopBefore(ds, k + 1)
         /\ LoopBefore(ds, k + 1).date = MeantIn(ds, k)
         /\ MeantIn(ds, k) \in IntDate
<1> DEFINE before == LoopBefore(ds, k)
<1>1. Len(txt) \in Nat /\ Len(txt) <= Len(ds) /\ Len(ds) \in Nat /\ ComposedAt(ds, txt, k)
  BY DEF ComposedUpTo
<1>2. k \in 1..Len(ds) /\ k \in Nat /\ k <= Len(txt) + 1 /\ k \in 1..(Len(txt) + 1)
  BY <1>1
<1>3. ds[k] \in IntDate /\ Precedes(before)
  BY <1>2, LoopPrecedes
<1>4. CanCompose(ds[k], before) /\ Linked(MeantIn(ds, k), HadAt(ds, k))
      /\ txt[k] = OutputItem(OutputDate(ds[k], before), HadAt(ds, k))
  BY <1>1 DEF ComposedAt
<1>5. HadAt(ds, k) = HadOf(ds[k], before)
  BY HadAtIs
<1>6. MeantIn(ds, k) = Completed(ds[k], before)
  BY <1>2, <1>4, NextMeant, FirstHasYear
<1>7. ReadAs(txt[k], before, MeantIn(ds, k), HadAt(ds, k))
  BY <1>3, <1>4, <1>5, <1>6, ComposedReadAs
<1>8. LoopBefore(ds, k + 1) = After(MeantIn(ds, k), HadAt(ds, k))
  <2>1. k + 1 # 1 /\ (k + 1) - 1 = k
    BY <1>2
  <2> QED BY <2>1 DEF LoopBefore
<1>9. Decomposed(txt[k], before) = LoopBefore(ds, k + 1) /\ LoopBefore(ds, k + 1).date = MeantIn(ds, k)
  BY <1>7, <1>8 DEF ReadAs, After
<1>10. CanDecompose(txt[k], before)
  BY <1>4, <1>7, <1>9 DEF CanDecompose, ReadAs, Linked
<1> QED BY <1>4, <1>9, <1>10 DEF Linked

LEMMA OtherDates ==
  ASSUME NEW ds \in Seq(IntDate), NEW es \in Seq(IntDate), NEW txt, ComposedUpTo(ds, txt),
         Len(txt) <= Len(es), \A j \in 1..Len(txt) : es[j] = ds[j]
  PROVE  /\ ComposedUpTo(es, txt)
         /\ LoopBefore(es, Len(txt) + 1) = LoopBefore(ds, Len(txt) + 1)
<1>1. Len(txt) \in Nat /\ txt \in Seq(AnyItem)
  BY DEF ComposedUpTo
<1>2. ASSUME NEW k \in 1..Len(txt) PROVE MeantIn(es, k) = MeantIn(ds, k) /\ HasLast(es, k)
  <2>1. HasLast(ds, k) /\ k \in Nat /\ k >= 1 /\ \A j \in 1..k : es[j] = ds[j]
    BY <1>1 DEF ComposedUpTo, ComposedAt
  <2> QED BY <2>1, Prefix
<1>5. ASSUME NEW k \in 1..Len(txt) PROVE HadAt(es, k) = HadAt(ds, k)
  <2>1. k > 1 => k - 1 \in 1..Len(txt)
    BY <1>1
  <2>2. k > 1 => MeantIn(es, k - 1) = MeantIn(ds, k - 1)
    BY <1>2, <2>1
  <2>3. es[k] = ds[k] /\ (k = 1 \/ k > 1)
    BY <1>1
  <2> QED BY <2>2, <2>3 DEF HadAt
<1>3. ASSUME NEW k \in 1..(Len(txt) + 1) PROVE LoopBefore(es, k) = LoopBefore(ds, k)
  <2>1. k > 1 => k - 1 \in 1..Len(txt)
    BY <1>1
  <2> QED BY <1>1, <1>2, <1>5, <2>1 DEF LoopBefore
<1>4. ASSUME NEW k \in 1..Len(txt) PROVE ComposedAt(es, txt, k)
  <2>1. k \in 1..(Len(txt) + 1) /\ ComposedAt(ds, txt, k)
    BY <1>1 DEF ComposedUpTo
  <2>2. LoopBefore(es, k) = LoopBefore(ds, k)
    BY <1>3, <2>1
  <2> QED BY <1>2, <1>5, <2>1, <2>2 DEF ComposedAt
<1> QED BY <1>1, <1>3, <1>4 DEF ComposedUpTo

-----------------------------------------------------------------------------
(* The two loops.                                                          *)

DateTypes ==
  /\ stage \in {"given", "none", "compose", "decompose", "file", "empty file"}
  /\ dates \in Seq(IntDate) /\ got \in Seq(IntDate) /\ loop.date \in IntDate
  /\ ComposedUpTo(dates, text)

(* ToPropertyValue: its local variables are those after the last item.     *)
Composing ==
  stage \in {"given", "none", "compose"} =>
    /\ loop = LoopBefore(dates, Len(text) + 1) /\ got = <<>>
    /\ stage = "given" => Len(dates) = Len(text)
    /\ stage = "none" =>
         Len(text) < Len(dates) /\ ~CanCompose(dates[Len(text) + 1], LoopBefore(dates, Len(text) + 1))

(* FromPropertyValue: as they were when the item at hand was composed.     *)
Decomposing ==
  /\ Len(got) <= Len(text)
  /\ stage = "decompose" => loop = LoopBefore(dates, Len(got) + 1)
  /\ \A k \in 1..Len(got) : got[k] = MeantIn(dates, k)

FromFile == stage \in {"file", "empty file"} => text = <<>>

DateInv == DateTypes /\ Composing /\ Decomposing /\ FromFile

LEMMA DateInitInv == DateInit => DateInv
<1> SUFFICES ASSUME DateInit PROVE DateInv
  OBVIOUS
<1>1. /\ stage \in {"given", "file"} /\ dates = <<>> /\ text = <<>> /\ got = <<>> /\ loop = LoopStart
      /\ Len(text) = 0 /\ Len(dates) = 0
  BY DEF DateInit, DateNone
<1>2. LoopStart.date \in IntDate
  BY DEF LoopStart, IntDate
<1>3. ComposedUpTo(dates, text)
  BY <1>1 DEF ComposedUpTo
<1>4. LoopBefore(dates, Len(text) + 1) = LoopStart
  BY <1>1 DEF LoopBefore
<1>5. dates \in Seq(IntDate) /\ got \in Seq(IntDate)
  BY <1>1
<1>6. DateTypes
  BY <1>1, <1>2, <1>3, <1>5 DEF DateTypes
<1>7. Composing
  BY <1>1, <1>4 DEF Composing
<1>8. Decomposing
  <2>1. Len(got) = 0
    BY <1>1
  <2> QED BY <1>1, <2>1 DEF Decomposing
<1> QED BY <1>1, <1>6, <1>7, <1>8 DEF DateInv, FromFile

LEMMA ClientDate ==
  ASSUME NEW date \in Date
  PROVE  date \in IntDate
BY DatesAssumption DEF Date, IntDate

(* The items of a file stand for dates.                                    *)
LEMMA DecomposedType ==
  ASSUME NEW item \in Items, NEW before, before.date \in IntDate, IsWellFormed(item)
  PROVE  Decomposed(item, before).date \in IntDate
<1>1. /\ Len(item) \in 1..3 /\ \A i \in 1..Len(item) : item[i].value \in Int
      /\ ~HasYear(item) => Len(item) < 3
  <2>1. Parts \subseteq [width : Int, value : Int]
    BY DatesAssumption DEF Parts, Part
  <2> QED BY <2>1 DEF Items, IsWellFormed
<1>2. ASSUME NEW y \in Int, NEW m \in Int, NEW n \in Int, NEW had
      PROVE  After(DateOf(y, m, n), had).date \in IntDate
  BY DEF After, DateOf, IntDate
<1>3. before.date.Year \in Int /\ before.date.Month \in Int
  BY DEF IntDate
<1>4. CASE HasYear(item)
  <2>1. FullDate(item).date \in IntDate
    BY <1>1, <1>2, FullDateOf
  <2> QED BY <1>4, <2>1 DEF Decomposed
<1>5. CASE ~HasYear(item)
  <2>1. Shortcut(item, before).date \in IntDate
    <3>1. CASE Len(item) = 2
      <4>1. item[1].value \in Int /\ item[2].value \in Int
        BY <1>1, <3>1
      <4> QED BY <1>2, <1>3, <3>1, <4>1, ShortcutOf
    <3>2. CASE Len(item) = 1
      <4>1. item[1].value \in Int
        BY <1>1, <3>2
      <4> QED BY <1>2, <1>3, <3>2, <4>1, ShortcutOf
    <3> QED BY <1>1, <1>5, <3>1, <3>2
  <2> QED BY <1>5, <2>1 DEF Decomposed
<1> QED BY <1>4, <1>5

(* The dates that ComposeDate looks at.                                    *)
LEMMA DatesComposed ==
  ASSUME DateInv, NEW date \in DateToCompose, ComposeDate(date)
  PROVE  /\ dates' \in Seq(IntDate) /\ ComposedUpTo(dates', text)
         /\ Len(text) + 1 \in 1..Len(dates') /\ dates'[Len(text) + 1] = date /\ date \in IntDate
         /\ loop = LoopBefore(dates', Len(text) + 1) /\ got = <<>>
         /\ stage = "given" => Len(dates') = Len(text) + 1
<1>1. /\ dates \in Seq(IntDate) /\ ComposedUpTo(dates, text)
      /\ Len(text) \in Nat /\ Len(dates) \in Nat /\ Len(text) <= Len(dates)
  <2>1. dates \in Seq(IntDate) /\ ComposedUpTo(dates, text)
    BY DEF DateInv, DateTypes
  <2>2. text \in Seq(AnyItem) /\ Len(text) <= Len(dates)
    BY <2>1 DEF ComposedUpTo
  <2> QED BY <2>1, <2>2
<1>2. /\ stage \in {"given", "compose"}
      /\ dates' = IF stage = "given" THEN Append(dates, date) ELSE dates
  BY DEF ComposeDate
<1>3. loop = LoopBefore(dates, Len(text) + 1) /\ got = <<>>
  BY <1>2 DEF DateInv, Composing
<1>4. CASE stage = "given"
  <2>1. date \in IntDate /\ Len(dates) = Len(text)
    BY <1>4, ClientDate DEF DateToCompose, DateInv, Composing
  <2>2. PICK ds : ds = Append(dates, date)
    OBVIOUS
  <2>3. /\ ds \in Seq(IntDate) /\ Len(ds) = Len(text) + 1 /\ ds[Len(text) + 1] = date
        /\ \A j \in 1..Len(text) : ds[j] = dates[j]
    BY <1>1, <2>1, <2>2
  <2>4. ComposedUpTo(ds, text) /\ LoopBefore(ds, Len(text) + 1) = LoopBefore(dates, Len(text) + 1)
    BY <1>1, <2>3, OtherDates
  <2>5. dates' = ds
    BY <1>2, <1>4, <2>2
  <2> QED BY <1>1, <1>3, <2>1, <2>3, <2>4, <2>5
<1>5. CASE stage = "compose"
  <2>1. Len(text) < Len(dates) /\ date = dates[Len(text) + 1]
    BY <1>5 DEF DateToCompose
  <2>2. Len(text) + 1 \in 1..Len(dates)
    BY <1>1, <2>1
  <2>3. date \in IntDate /\ dates' = dates
    BY <1>1, <1>2, <1>5, <2>1, <2>2
  <2> QED BY <1>1, <1>3, <1>5, <2>1, <2>2, <2>3
<1> QED BY <1>2, <1>4, <1>5

LEMMA ComposeDateInv ==
  ASSUME DateInv, NEW date \in DateToCompose, ComposeDate(date)
  PROVE  DateInv'
<1>1. PICK ds, k, before : ds = dates' /\ k = Len(text) + 1 /\ before = loop
  OBVIOUS
<1>2. /\ ds \in Seq(IntDate) /\ ComposedUpTo(ds, text) /\ k \in 1..Len(ds) /\ ds[k] = date /\ date \in IntDate
      /\ before = LoopBefore(ds, k) /\ got = <<>> /\ (stage = "given" => Len(ds) = k)
  BY <1>1, DatesComposed
<1>3. /\ stage \in {"given", "compose"} /\ got' = got
      /\ loop.date \in IntDate /\ got \in Seq(IntDate) /\ text \in Seq(AnyItem) /\ Len(text) \in Nat
  <2>1. ComposedUpTo(dates, text) /\ loop.date \in IntDate /\ got \in Seq(IntDate)
    BY DEF DateInv, DateTypes
  <2> QED BY <2>1 DEF ComposeDate, ComposedUpTo
<1>4. Len(got') = 0
  BY <1>2, <1>3
<1>5. CASE CanCompose(date, before)
  <2>1. PICK item : item = OutputItem(OutputDate(ds[k], before), HadOf(ds[k], before))
    OBVIOUS
  <2>2. /\ text' = Append(text, item) /\ stage' = stage
        /\ loop' = After(Completed(date, before), HadOf(date, before))
    BY <1>1, <1>2, <1>5, <2>1 DEF ComposeDate, HadOf
  <2>3. ComposedUpTo(ds, Append(text, item)) /\ loop' = LoopBefore(ds, k + 1)
    BY <1>1, <1>2, <1>5, <2>1, <2>2, ComposeStep
  <2>4. PICK txt : txt = Append(text, item)
    OBVIOUS
  <2>5. Len(txt) = k /\ ComposedUpTo(ds, txt) /\ text' = txt
    <3>1. Len(Append(text, item)) = Len(text) + 1
      BY <1>3
    <3> QED BY <1>1, <2>2, <2>3, <2>4, <3>1
  <2>6. loop'.date \in IntDate
    <3>1. k \in Nat /\ k >= 1 /\ k \in 1..Len(txt)
      BY <1>2, <2>5
    <3>2. LoopBefore(ds, k + 1).date = MeantIn(ds, k) /\ MeantIn(ds, k) \in IntDate
      BY <1>2, <2>5, <3>1, DecomposeStep
    <3> QED BY <2>3, <3>2
  <2>7. DateTypes'
    BY <1>1, <1>2, <1>3, <2>2, <2>5, <2>6 DEF DateTypes
  <2>8. Composing'
    BY <1>1, <1>2, <1>3, <2>2, <2>3, <2>5 DEF Composing
  <2>9. Decomposing'
    BY <1>2, <1>3, <1>4, <2>2, <2>5 DEF Decomposing
  <2> QED BY <1>3, <2>2, <2>7, <2>8, <2>9 DEF DateInv, FromFile
<1>6. CASE ~CanCompose(date, before)
  <2>1. stage' = "none" /\ text' = text /\ loop' = loop
    BY <1>1, <1>6 DEF ComposeDate
  <2>2. DateTypes'
    BY <1>1, <1>2, <1>3, <2>1 DEF DateTypes
  <2>3. Composing'
    <3>1. ~CanCompose(ds[k], LoopBefore(ds, k)) /\ Len(text) < Len(ds)
      BY <1>1, <1>2, <1>3, <1>6
    <3>2. dates' = ds /\ Len(text') + 1 = k /\ loop' = LoopBefore(ds, k) /\ got' = <<>>
      BY <1>1, <1>2, <1>3, <2>1
    <3> QED BY <2>1, <3>1, <3>2 DEF Composing
  <2>4. Decomposing'
    BY <1>2, <1>3, <1>4, <2>1 DEF Decomposing
  <2> QED BY <2>1, <2>2, <2>3, <2>4 DEF DateInv, FromFile
<1> QED BY <1>5, <1>6

LEMMA DecomposeItemInv ==
  ASSUME DateInv, DecomposeItem
  PROVE  DateInv'
<1>1. /\ stage = "decompose" /\ Len(got) < Len(text) /\ UNCHANGED <<dates, text>>
      /\ loop = LoopBefore(dates, Len(got) + 1)
      /\ dates \in Seq(IntDate) /\ got \in Seq(IntDate) /\ ComposedUpTo(dates, text)
      /\ \A j \in 1..Len(got) : got[j] = MeantIn(dates, j)
  BY DEF DecomposeItem, DateInv, DateTypes, Decomposing
<1>2. PICK k : k = Len(got) + 1
  OBVIOUS
<1>3. Len(text) \in Nat /\ Len(got) \in Nat /\ k \in 1..Len(text)
  <2>1. text \in Seq(AnyItem)
    BY <1>1 DEF ComposedUpTo
  <2> QED BY <1>1, <1>2, <2>1
<1>4. /\ CanDecompose(text[k], loop) /\ Decomposed(text[k], loop) = LoopBefore(dates, k + 1)
      /\ LoopBefore(dates, k + 1).date = MeantIn(dates, k) /\ MeantIn(dates, k) \in IntDate
  BY <1>1, <1>2, <1>3, DecomposeStep
<1>5. loop' = LoopBefore(dates, k + 1) /\ got' = Append(got, MeantIn(dates, k)) /\ stage' = stage
  <2>1. loop' = Decomposed(text[k], loop) /\ got' = Append(got, loop'.date) /\ stage' = stage
    BY <1>2, <1>4 DEF DecomposeItem
  <2> QED BY <1>4, <2>1
<1>6. PICK g : g = Append(got, MeantIn(dates, k))
  OBVIOUS
<1>7. /\ g \in Seq(IntDate) /\ Len(g) = k /\ g[k] = MeantIn(dates, k)
      /\ \A j \in 1..Len(got) : g[j] = got[j]
  BY <1>1, <1>2, <1>4, <1>6
<1>8. \A j \in 1..k : g[j] = MeantIn(dates, j)
  BY <1>1, <1>2, <1>3, <1>7
<1>9. DateTypes'
  BY <1>1, <1>4, <1>5, <1>6, <1>7 DEF DateTypes
<1>10. Composing'
  BY <1>1, <1>5 DEF Composing
<1>11. Decomposing'
  <2>1. got' = g /\ Len(g) <= Len(text)
    BY <1>3, <1>5, <1>6, <1>7
  <2> QED BY <1>1, <1>5, <1>7, <1>8, <2>1 DEF Decomposing
<1> QED BY <1>1, <1>5, <1>9, <1>10, <1>11 DEF DateInv, FromFile

LEMMA DateNextInv ==
  ASSUME DateInv, [DateNext]_dateVars
  PROVE  DateInv'
<1>1. ASSUME NEW date \in DateToCompose, ComposeDate(date) PROVE DateInv'
  BY <1>1, ComposeDateInv
<1>2. ASSUME DecomposeItem PROVE DateInv'
  BY <1>2, DecomposeItemInv
<1>3. ASSUME ToPropertyValue PROVE DateInv'
  <2>1. /\ stage \in {"given", "compose"} /\ stage' = "decompose" /\ loop' = LoopStart
        /\ UNCHANGED <<dates, text, got>>
    BY <1>3 DEF ToPropertyValue
  <2>2. got = <<>> /\ Len(got) = 0
    BY <2>1 DEF DateInv, Composing
  <2>3. LoopBefore(dates, Len(got) + 1) = LoopStart /\ LoopStart.date \in IntDate
    BY <2>2 DEF LoopBefore, LoopStart, IntDate
  <2>4. DateTypes'
    BY <2>1, <2>3 DEF DateInv, DateTypes
  <2>5. Decomposing'
    BY <2>1, <2>2, <2>3 DEF DateInv, Decomposing
  <2> QED BY <2>1, <2>4, <2>5 DEF DateInv, Composing, FromFile
<1>4. ASSUME DecomposeFileItem PROVE DateInv'
  <2>1. stage = "file" /\ text = <<>> /\ UNCHANGED <<text, got>> /\ Len(text) = 0
    BY <1>4 DEF DecomposeFileItem, DateInv, FromFile
  <2>2. PICK item \in Items :
          IF CanDecompose(item, loop)
          THEN /\ loop' = Decomposed(item, loop)
               /\ dates' = Append(dates, loop'.date)
               /\ UNCHANGED stage
          ELSE /\ stage' = "empty file"
               /\ dates' = <<>>
               /\ loop' = LoopStart
    BY <1>4 DEF DecomposeFileItem
  <2>3. loop'.date \in IntDate /\ dates' \in Seq(IntDate) /\ stage' \in {"file", "empty file"}
    <3>1. CASE CanDecompose(item, loop)
      <4>1. Decomposed(item, loop).date \in IntDate
        BY <3>1, DecomposedType DEF CanDecompose, DateInv, DateTypes
      <4>2. loop'.date \in IntDate
        BY <2>2, <3>1, <4>1
      <4> QED BY <2>1, <2>2, <3>1, <4>2 DEF DateInv, DateTypes
    <3>2. CASE ~CanDecompose(item, loop)
      <4>1. LoopStart.date \in IntDate /\ <<>> \in Seq(IntDate)
        BY DEF LoopStart, IntDate
      <4>2. loop' = LoopStart /\ dates' = <<>> /\ stage' = "empty file"
        BY <2>2, <3>2
      <4> QED BY <4>1, <4>2
    <3> QED BY <3>1, <3>2
  <2>4. ComposedUpTo(dates', text')
    <3>1. PICK ds, txt : ds = dates' /\ txt = text'
      OBVIOUS
    <3>2. txt = <<>> /\ Len(txt) = 0 /\ txt \in Seq(AnyItem) /\ Len(ds) \in Nat
      <4>1. txt = <<>> /\ ds \in Seq(IntDate)
        BY <2>1, <2>3, <3>1
      <4> QED BY ONLY <4>1
    <3>3. ComposedUpTo(ds, txt)
      BY <3>2 DEF ComposedUpTo
    <3> QED BY <3>1, <3>3
  <2>5. Len(got) = 0
    BY <2>1 DEF DateInv, DateTypes, Decomposing
  <2>6. DateTypes'
    BY <2>1, <2>3, <2>4 DEF DateInv, DateTypes
  <2>7. Decomposing'
    <3>1. Len(got') = 0 /\ Len(text') = 0 /\ stage' # "decompose"
      BY <2>1, <2>3, <2>5
    <3> QED BY <3>1 DEF Decomposing
  <2> QED BY <2>1, <2>3, <2>6, <2>7 DEF DateInv, Composing, FromFile
<1>5. ASSUME FromPropertyValue PROVE DateInv'
  <2>1. /\ stage = "file" /\ stage' = "compose" /\ loop' = LoopStart /\ text = <<>> /\ Len(text) = 0
        /\ UNCHANGED <<dates, text, got>>
    BY <1>5 DEF FromPropertyValue, DateInv, FromFile
  <2>2. got = <<>> /\ Len(got) = 0
    BY <2>1 DEF DateInv, DateTypes, Decomposing
  <2>3. LoopBefore(dates, Len(text) + 1) = LoopStart /\ LoopStart.date \in IntDate
    BY <2>1 DEF LoopBefore, LoopStart, IntDate
  <2>4. DateTypes'
    BY <2>1, <2>3 DEF DateInv, DateTypes
  <2>5. Composing'
    BY <2>1, <2>2, <2>3 DEF Composing
  <2>6. Decomposing'
    BY <2>1, <2>2 DEF Decomposing
  <2> QED BY <2>1, <2>4, <2>5, <2>6 DEF DateInv, FromFile
<1>6. ASSUME UNCHANGED dateVars PROVE DateInv'
  BY <1>6 DEF dateVars, DateInv, DateTypes, Composing, Decomposing, FromFile
<1> QED BY <1>1, <1>2, <1>3, <1>4, <1>5, <1>6 DEF DateNext

THEOREM DateInvHolds == DateSpec => []DateInv
BY DateInitInv, DateNextInv, PTL DEF DateSpec

(* SgfcDate: for lists of dates of any length, FromPropertyValue takes     *)
(* every text that ToPropertyValue composes, and gives the dates that were *)
(* meant.                                                                  *)
THEOREM DatesAreReadBack == DateSpec => []DatesReadBack
<1>1. DateInv => DatesReadBack
  <2> SUFFICES ASSUME DateInv PROVE DatesReadBack
    OBVIOUS
  <2>1. stage # "empty" /\ got \in Seq(IntDate)
    BY DEF DateInv, DateTypes
  <2>2. \A k \in DOMAIN got : got[k] = MeantDate(k)
    BY <2>1, MeantDateIs DEF DateInv, Decomposing
  <2> QED BY <2>1, <2>2 DEF DatesReadBack
<1> QED BY <1>1, DateInvHolds, PTL

(* A date that was not composed, after those that were.                    *)
LEMMA FailureIsErroneous ==
  ASSUME NEW ds \in Seq(IntDate), NEW txt, ComposedUpTo(ds, txt), NEW k, k = Len(txt) + 1, k \in 1..Len(ds),
         ~CanCompose(ds[k], LoopBefore(ds, k))
  PROVE  IF k = 1
         THEN ds[k].Year = 0 \/ ~IsValidSgfDate(ds[k])
         ELSE \/ ~IsValidSgfDate(MeantIn(ds, k))
              \/ ds[k] = MeantIn(ds, k - 1)
              \/ ds[k].Year = 0 /\ ~IsEncodable(ds[k], MeantIn(ds, k - 1))
              \/ IsMonthAfterDay(ds[k], MeantIn(ds, k - 1))
<1>1. Len(txt) \in Nat /\ k \in Nat /\ ds[k] \in IntDate
  BY DEF ComposedUpTo
<1>2. PICK before : before = LoopBefore(ds, k)
  OBVIOUS
<1>3. Erroneous(ds[k], before)
  BY <1>1, <1>2, LoopPrecedes, NotComposed
<1>4. CASE k = 1
  <2>1. ~before.present
    BY <1>2, <1>4 DEF LoopBefore, LoopStart
  <2> QED BY <1>3, <1>4, <2>1 DEF Erroneous
<1>5. CASE k # 1
  <2>1. before.present /\ before.date = MeantIn(ds, k - 1)
    BY <1>2, <1>5 DEF LoopBefore, After
  <2>2. MeantIn(ds, k) = Completed(ds[k], before)
    BY <1>1, <1>2, <1>5, NextMeant
  <2> QED BY <1>3, <1>5, <2>1, <2>2 DEF Erroneous
<1> QED BY <1>4, <1>5

(* ToPropertyValue: of all lists of dates, only those with an error that   *)
(* SgfcDate.h names, and those with a month after a day, are refused.      *)
THEOREM OnlyErroneousDatesRefused == DateSpec => []ComposedUnlessErroneous
<1>1. DateInv => ComposedUnlessErroneous
  <2> SUFFICES ASSUME DateInv, stage = "none" PROVE ComposedUnlessErroneous
    BY DEF ComposedUnlessErroneous
  <2> DEFINE k == Len(text) + 1
  <2>1. dates \in Seq(IntDate) /\ ComposedUpTo(dates, text)
    BY DEF DateInv, DateTypes
  <2>2. Len(text) < Len(dates) /\ ~CanCompose(dates[k], LoopBefore(dates, k))
    BY DEF DateInv, Composing
  <2>3. k \in 1..Len(dates)
    <3>1. text \in Seq(AnyItem)
      BY <2>1 DEF ComposedUpTo
    <3> QED BY <2>1, <2>2, <3>1
  <2>4. MeantDate(k) = MeantIn(dates, k) /\ MeantDate(k - 1) = MeantIn(dates, k - 1)
    BY MeantDateIs
  <2> QED BY <2>1, <2>2, <2>3, <2>4, FailureIsErroneous DEF ComposedUnlessErroneous
<1> QED BY <1>1, DateInvHolds, PTL

NoShorterShortcut ==
  LET k == Len(text')
      date == dates'[k]
      before == loop
  IN  k > Len(text) /\ k > 0 /\ date.Year # 0 =>
        \A item \in Items :
          /\ Len(item) < Len(text'[k]) /\ \A i \in DOMAIN item : item[i].value # 0
          /\ CanDecompose(item, before) /\ Decomposed(item, before).date = date
          => Len(item) = 2 /\ before.date.Month = date.Month /\ before.date.Day = 0

LEMMA NextNoShorter ==
  ASSUME DateInv, [DateNext]_dateVars
  PROVE  NoShorterShortcut
<1>1. CASE UNCHANGED text
  BY <1>1 DEF NoShorterShortcut
<1>2. ASSUME NEW date \in DateToCompose, ComposeDate(date), CanCompose(date, loop)
      PROVE  NoShorterShortcut
  <2>1. PICK out, had, txt, k : /\ out = OutputDate(date, loop) /\ had = HadOf(date, loop)
                                /\ txt = Append(text, OutputItem(out, had)) /\ k = Len(text) + 1
    OBVIOUS
  <2>2. text' = txt
    BY <1>2, <2>1 DEF ComposeDate, HadOf
  <2>3. ComposedUpTo(dates, text) /\ text \in Seq(AnyItem)
    BY DEF DateInv, DateTypes, ComposedUpTo
  <2>4. /\ dates' \in Seq(IntDate) /\ ComposedUpTo(dates', text) /\ k \in 1..Len(dates')
        /\ dates'[k] = date /\ date \in IntDate /\ loop = LoopBefore(dates', k)
    BY <1>2, <2>1, DatesComposed
  <2>5. Precedes(loop)
    BY <2>3, <2>4, LoopPrecedes, <2>1
  <2>6. Len(txt) = k /\ txt[k] = OutputItem(out, had)
    <3>1. k \in Nat
      BY <2>1, <2>3
    <3> QED BY <2>1, <2>3
  <2>7. ASSUME date.Year # 0, NEW item \in Items, Len(item) < Len(OutputItem(out, had)),
               \A i \in DOMAIN item : item[i].value # 0,
               CanDecompose(item, loop), Decomposed(item, loop).date = date
        PROVE  Len(item) = 2 /\ loop.date.Month = date.Month /\ loop.date.Day = 0
    BY <1>2, <2>1, <2>4, <2>5, <2>7, NoShorterItem
  <2> QED BY <2>2, <2>4, <2>6, <2>7 DEF NoShorterShortcut
<1>3. ASSUME DateNext PROVE UNCHANGED text \/ \E date \in DateToCompose : ComposeDate(date) /\ CanCompose(date, loop)
  BY <1>3 DEF DateNext, ComposeDate, ToPropertyValue, DecomposeItem, DecomposeFileItem, FromPropertyValue
<1> QED BY <1>1, <1>2, <1>3 DEF dateVars

(* ToPropertyValue: no date that is given in full could have a shorter     *)
(* item, but month and day after the same month without a day.             *)
THEOREM ShortcutsWherePossible == DateSpec => ShortcutWherePossible
<1>1. DateInv /\ [DateNext]_dateVars => [NoShorterShortcut]_dateVars
  BY NextNoShorter
<1>2. DateSpec => [][NoShorterShortcut]_dateVars
  BY <1>1, DateInvHolds, PTL DEF DateSpec
<1> QED BY <1>2 DEF ShortcutWherePossible, NoShorterShortcut

=============================================================================
