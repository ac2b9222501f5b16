------------------------------- MODULE Dates -------------------------------
(***************************************************************************)
(* The dates of a game (SgfcDate): ToPropertyValue composes the text of a  *)
(* DT property from dates, with shortcuts that leave out what a date has   *)
(* in common with the one before it, and FromPropertyValue decomposes it.  *)
(*                                                                         *)
(* Both are loops over the dates; an action is one iteration.  The dates   *)
(* are either given by a client, which may shortcut them itself, and are   *)
(* composed; or they are decomposed from a text of a file, and then        *)
(* composed again.  In both cases the composed text is decomposed.         *)
(*                                                                         *)
(* A text is a sequence of items, an item a sequence of parts; a part has  *)
(* its number of characters and the number that they stand for.            *)
(***************************************************************************)
EXTENDS Integers, Sequences

CONSTANTS
  Years, Months, Days,  \* the numbers of a date, 0 for those it does not have
  MaxDates              \* bound: dates of a text

ASSUME DatesAssumption ==
  /\ 0 \in Years \cap Months \cap Days
  /\ Years \cup Months \cup Days \subseteq Int
  /\ MaxDates \in Nat

VARIABLES
  stage,  \* which of the two methods runs, or how they ended
  dates,  \* the dates to compose, or decomposed from the text of a file
  text,   \* the text composed so far, or read from a file
  got,    \* the dates decomposed from the composed text
  loop    \* the local variables of the loop: preceding(Completed)Date,
          \* preceding(Output)DateHadYear, ...Month, ...Day

dateVars == <<stage, dates, text, got, loop>>

Date == [Year : Years, Month : Months, Day : Days]

Part(width, value) == [width |-> width, value |-> value]
Parts == {Part(4, y) : y \in Years} \cup {Part(2, n) : n \in Months \cup Days}
Items == UNION {[1..n -> Parts] : n \in 1..3}

(* The table of SgfcDate.cpp: after a date with a month and without a day  *)
(* a single number is a month; after a date with a day it is a day.        *)
MonthFollows(had) == "M" \in had /\ "D" \notin had
DayFollows(had) == "D" \in had
MonthAndDayFollow(had) == "M" \in had \/ "Y" \notin had

LoopStart == [present |-> FALSE, date |-> [Year |-> 0, Month |-> 0, Day |-> 0], had |-> {}]
After(date, had) == [present |-> TRUE, date |-> date, had |-> had]

-----------------------------------------------------------------------------
(* A date may lack its day, day and month, its year, or year and month.    *)

IsLeapYear(year) == year % 4 = 0 /\ (year % 100 = 0 => year % 400 = 0)

LastDay(date) ==
  CASE date.Month \in {0, 1, 3, 5, 7, 8, 10, 12} -> 31
    [] date.Month \in {4, 6, 9, 11} -> 30
    [] date.Month = 2 -> IF IsLeapYear(date.Year) THEN 29 ELSE 28

IsValidSgfDate(date) ==
  /\ date.Year \in 0..9999 /\ date.Month \in 0..12 /\ date.Day >= 0
  /\ date.Month = 0 => (date.Year = 0) # (date.Day = 0)
  /\ date.Day <= LastDay(date)

-----------------------------------------------------------------------------
(* FromPropertyValue: one item.                                            *)

HasYear(item) == item[1].width = 4

IsWellFormed(item) ==
  /\ \A i \in 2..Len(item) : item[i].width = 2
  /\ HasYear(item) \/ Len(item) < 3

(* The date that an item stands for, and the parts that the item had.      *)
FullDate(item) ==
  LET value(i) == IF i <= Len(item) THEN item[i].value ELSE 0
  IN  After([Year |-> value(1), Month |-> value(2), Day |-> value(3)],
            CASE Len(item) = 1 -> {"Y"} [] Len(item) = 2 -> {"Y", "M"} [] OTHER -> {"Y", "M", "D"})

Shortcut(item, before) ==
  LET date == before.date
  IN  CASE Len(item) = 2 ->
             After([date EXCEPT !.Month = item[1].value, !.Day = item[2].value], {"M", "D"})
        [] Len(item) = 1 /\ MonthFollows(before.had) ->
             After([date EXCEPT !.Month = item[1].value, !.Day = 0], {"M"})
        [] OTHER ->
             After([date EXCEPT !.Day = item[1].value], {"D"})

IsShortcutAllowed(item, before) ==
  /\ before.present
  /\ IF Len(item) = 2
     THEN MonthAndDayFollow(before.had)
     ELSE MonthFollows(before.had) \/ DayFollows(before.had)

Decomposed(item, before) == IF HasYear(item) THEN FullDate(item) ELSE Shortcut(item, before)

CanDecompose(item, before) ==
  /\ IsWellFormed(item)
  /\ HasYear(item) \/ IsShortcutAllowed(item, before)
  /\ LET date == Decomposed(item, before).date
     IN  IsValidSgfDate(date) /\ (~before.present => date.Year # 0)

-----------------------------------------------------------------------------
(* ToPropertyValue: one date.                                              *)

Completed(date, before) ==
  IF date.Year # 0
  THEN date
  ELSE [date EXCEPT !.Year = before.date.Year,
                    !.Month = IF @ = 0 THEN before.date.Month ELSE @]

IsRepeated(date, before) == before.present /\ date.Year # 0 /\ date = before.date

(* Mutants: shortcuts are formed without comparing the years; a day alone  *)
(* although the preceding date has none; only days are shortcut.           *)
OutputOfAnyYear(date, before) ==
  IF before.present /\ date.Day # 0 THEN [date EXCEPT !.Year = 0] ELSE date
OutputDayAfterMonth(date, before) ==
  IF before.present /\ date.Year # 0 /\ date.Year = before.date.Year /\ date.Month = before.date.Month
  THEN [date EXCEPT !.Year = 0, !.Month = 0] ELSE date
OutputOnlyDayShortcuts(date, before) ==
  IF /\ before.present /\ date.Year # 0 /\ date.Day # 0 /\ before.date.Day # 0
     /\ date.Year = before.date.Year /\ date.Month = before.date.Month
  THEN [date EXCEPT !.Year = 0, !.Month = 0] ELSE date

(* Step 2: what is left of a date of the same year.                        *)
OutputDate(date, before) ==
  LET preceding == before.date
      sameYear  == before.present /\ date.Year # 0 /\ date.Year = preceding.Year
      months    == date.Month # 0 /\ preceding.Month # 0
      days      == date.Day # 0 /\ preceding.Day # 0
  IN  CASE sameYear /\ months /\ date.Month # preceding.Month -> [date EXCEPT !.Year = 0]
        [] sameYear /\ months /\ date.Month = preceding.Month /\ days ->
             [date EXCEPT !.Year = 0, !.Month = 0]
        [] OTHER -> date

(* Step 3: the item of such a date, and whether it may follow.             *)
OutputParts(out) ==
  {p \in {"Y", "M", "D"} : CASE p = "Y" -> out.Year # 0 [] p = "M" -> out.Month # 0
                             [] p = "D" -> out.Day # 0}

OutputItem(out, had) ==
  (IF "Y" \in had THEN <<Part(4, out.Year)>> ELSE <<>>)
    \o (IF "M" \in had THEN <<Part(2, out.Month)>> ELSE <<>>)
    \o (IF "D" \in had THEN <<Part(2, out.Day)>> ELSE <<>>)

CanOutput(had, before) ==
  CASE "Y" \in had -> TRUE
    [] {"M", "D"} = had -> MonthAndDayFollow(before.had)
    [] OTHER -> \/ MonthFollows(before.had) /\ "M" \in had
                \/ DayFollows(before.had) /\ "D" \in had

CanCompose(date, before) ==
  /\ date.Year # 0 \/ before.present
  /\ IsValidSgfDate(Completed(date, before))
  /\ ~IsRepeated(date, before)
  /\ CanOutput(OutputParts(OutputDate(date, before)), before)

-----------------------------------------------------------------------------
(* A client gives a date, or the dates decomposed from a file are at hand. *)
DateToCompose ==
  IF stage = "given"
  THEN IF Len(text) < MaxDates THEN Date ELSE {}
  ELSE IF Len(text) < Len(dates) THEN {dates[Len(text) + 1]} ELSE {}

ComposeDate(date) ==
  /\ stage \in {"given", "compose"}
  /\ dates' = IF stage = "given" THEN Append(dates, date) ELSE dates
  /\ IF CanCompose(date, loop)
     THEN LET out == OutputDate(date, loop)
              had == OutputParts(out)
          IN  /\ text' = Append(text, OutputItem(out, had))
              /\ loop' = After(Completed(date, loop), had)
              /\ UNCHANGED stage
     ELSE /\ stage' = "none"
          /\ UNCHANGED <<text, loop>>
  /\ UNCHANGED got

(* The composed text, if any, is decomposed.                               *)
ToPropertyValue ==
  /\ text # <<>>
  /\ stage = "given" \/ (stage = "compose" /\ Len(text) = Len(dates))
  /\ stage' = "decompose"
  /\ loop' = LoopStart
  /\ UNCHANGED <<dates, text, got>>

DecomposeItem ==
  /\ stage = "decompose" /\ Len(got) < Len(text)
  /\ LET item == text[Len(got) + 1]
     IN  IF CanDecompose(item, loop)
         THEN /\ loop' = Decomposed(item, loop)
              /\ got' = Append(got, loop'.date)
              /\ UNCHANGED stage
         ELSE /\ stage' = "empty"
              /\ UNCHANGED <<got, loop>>
  /\ UNCHANGED <<dates, text>>

(* An item of a file.                                                      *)
DecomposeFileItem ==
  /\ stage = "file" /\ Len(dates) < MaxDates
  /\ \E item \in Items :
       IF CanDecompose(item, loop)
       THEN /\ loop' = Decomposed(item, loop)
            /\ dates' = Append(dates, loop'.date)
            /\ UNCHANGED stage
       ELSE /\ stage' = "empty file"
            /\ dates' = <<>>
            /\ loop' = LoopStart
  /\ UNCHANGED <<text, got>>

FromPropertyValue ==
  /\ stage = "file" /\ dates # <<>>
  /\ stage' = "compose"
  /\ loop' = LoopStart
  /\ UNCHANGED <<dates, text, got>>

DateNone == dates = <<>> /\ text = <<>> /\ got = <<>> /\ loop = LoopStart
DateInit == stage \in {"given", "file"} /\ DateNone
DateIdle == stage = "idle" /\ DateNone

DateNext ==
  \/ \E date \in DateToCompose : ComposeDate(date)
  \/ ToPropertyValue
  \/ DecomposeItem
  \/ DecomposeFileItem
  \/ FromPropertyValue

DateSpec == DateInit /\ [][DateNext]_dateVars

-----------------------------------------------------------------------------
(* Properties.                                                             *)

(* The date that the k-th of the dates to compose stands for: what it      *)
(* lacks is that of the last date before it which has it.                  *)
MeantDate(k) ==
  LET last(S) == CHOOSE j \in S : \A i \in S : i <= j
      year  == last({j \in 1..k : dates[j].Year # 0})
      month == last({j \in 1..k : dates[j].Year # 0 \/ dates[j].Month # 0})
  IN  [Year |-> dates[year].Year, Month |-> dates[month].Month, Day |-> dates[k].Day]

(* The text that ToPropertyValue composes is one that FromPropertyValue    *)
(* can decompose, into the dates that were meant: the two methods agree on *)
(* what a shortcut stands for, however long the chain of shortcuts is that *)
(* the meaning of a number goes back through.                              *)
DatesReadBack ==
  /\ stage # "empty"
  /\ \A k \in DOMAIN got : got[k] = MeantDate(k)

(* A date that a client has shortcut itself can follow the date before it. *)
IsEncodable(date, preceding) ==
  CASE date.Month # 0 /\ date.Day # 0 -> preceding.Month # 0
    [] date.Month # 0 /\ date.Day = 0 -> preceding.Month # 0 /\ preceding.Day = 0
    [] OTHER -> date.Day # 0 /\ preceding.Day # 0

(* Of the dates that SgfcDate.h does not name as a reason to fail, only    *)
(* one makes ToPropertyValue fail: a month without a day, after a complete *)
(* date with another month of the same year.  (It is reduced to its month, *)
(* which may not follow a day: SgfcDate.cpp:367 and :512.)  Every other    *)
(* list of dates, of a client or of a file, is composed.                   *)
IsMonthAfterDay(date, preceding) ==
  /\ date.Year = preceding.Year /\ date.Month # 0 /\ date.Day = 0
  /\ preceding.Day # 0 /\ date.Month # preceding.Month

ComposedUnlessErroneous ==
  stage = "none" =>
    LET k == Len(text) + 1
        date == dates[k]
        preceding == MeantDate(k - 1)
    IN  IF k = 1
        THEN date.Year = 0 \/ ~IsValidSgfDate(date)
        ELSE \/ ~IsValidSgfDate(MeantDate(k))
             \/ date = preceding
             \/ date.Year = 0 /\ ~IsEncodable(date, preceding)
             \/ IsMonthAfterDay(date, preceding)

(* Shortcuts are built "wherever possible": no shorter item would be read  *)
(* as a date that the client gives in full, except month and day after a   *)
(* year and the same month without a day, which the code does not use.     *)
(* (Items with a number 0, which FromPropertyValue accepts, aside.)        *)
ShortcutWherePossible ==
  [][ LET k == Len(text')
          date == dates'[k]
          before == loop
      IN  k > Len(text) /\ k > 0 /\ date.Year # 0 =>
            \A item \in Items :
              /\ Len(item) < Len(text'[k]) /\ \A i \in DOMAIN item : item[i].value # 0
              /\ CanDecompose(item, before) /\ Decomposed(item, before).date = date
              => Len(item) = 2 /\ before.date.Month = date.Month /\ before.date.Day = 0
    ]_dateVars
=============================================================================
