------------------------------ MODULE GameTexts ------------------------------
(***************************************************************************)
(* The texts of game information that have a form: game results (RE), the  *)
(* ranks of Go players (BR, WR), rounds (RO) and Go rulesets (RU).  A      *)
(* client makes the text of a decomposed value (ToPropertyValue), or       *)
(* decomposes a text (FromPropertyValue), and may do so by turns.          *)
(*                                                                         *)
(* A text is a sequence of tokens: characters, or words of its form.       *)
(* Scores are integers here: their hundredths.                             *)
(***************************************************************************)
EXTENDS TypedValues

CONSTANTS
  Scores, Ranks, RoundNumbers, RoundTypes,   \* parts of the client's values
  ResultTexts, RankTexts, RoundTexts         \* texts of a file

(* The rank is an int.                                                     *)
ASSUME GameTextsAssumption ==
  /\ Scores \subseteq Int /\ Ranks \subseteq Ints
  /\ RoundNumbers \cup RoundTypes \cup ResultTexts \cup RankTexts \cup RoundTexts \subseteq Seq(STRING)

VARIABLES
  textStage,    \* "client", "text", "read" or "logic_error"
  textKind,     \* "RE", "BR", "RO" or "RU"
  decomposed,   \* the value that the client made a text of, if it did
  gameText,     \* the text
  recomposed    \* what was read from it: a value, or none if it is not valid

gameTextVars == <<textStage, textKind, decomposed, gameText, recomposed>>

-----------------------------------------------------------------------------
(* SgfcGameResult.                                                         *)

ResultTypes == {"BlackWin", "WhiteWin", "Draw", "NoResult", "UnknownResult"}
WinTypes == {"WinWithScore", "WinWithoutScore", "WinByResignation", "WinOnTime", "WinByForfeit"}

GameResult(type, win, score) == [type |-> type, win |-> win, score |-> score]
IsWin(result) == result.type \in {"BlackWin", "WhiteWin"}
HasScore(result) == IsWin(result) /\ result.win = "WinWithScore"

(* The stream has the classic locale.                                      *)
ResultToText(result) ==
  LET winText ==
        CASE result.win = "WinWithScore" -> CreateRealPropertyValue(result.score)
          [] result.win = "WinWithoutScore" -> <<>>
          [] result.win = "WinByResignation" -> <<"Resign">>
          [] result.win = "WinOnTime" -> <<"Time">>
          [] result.win = "WinByForfeit" -> <<"Forfeit">>
  IN  CASE result.type = "BlackWin" -> <<"B+">> \o winText
        [] result.type = "WhiteWin" -> <<"W+">> \o winText
        [] result.type = "Draw" -> <<"Draw">>
        [] result.type = "NoResult" -> <<"Void">>
        [] result.type = "UnknownResult" -> <<"?">>

(* The regular expression asks for digits and a point, each optional.      *)
IsScoreText(text) ==
  /\ \A i \in DOMAIN text : IsDigitCharacter(text[i]) \/ text[i] = "."
  /\ \A i, k \in DOMAIN text : text[i] = "." /\ text[k] = "." => i = k

IsWinText(text) == Begins(text, {"B+", "W+"})
IsUnconvertibleResult(text) ==
  IsWinText(text) /\ Tail(text) # <<>> /\ IsScoreText(Tail(text)) /\ TryConvertStringToRealValue(Tail(text)) = <<>>

(* The other members have their defaults.                                  *)
ResultFromText(text) ==
  LET winner   == IF Head(text) = "B+" THEN "BlackWin" ELSE "WhiteWin"
      Won(win) == <<GameResult(winner, win, 0)>>
      rest     == Tail(text)
  IN  CASE text \in {<<"0">>, <<"Draw">>} -> <<GameResult("Draw", "WinWithScore", 0)>>
        [] text = <<"Void">> -> <<GameResult("NoResult", "WinWithScore", 0)>>
        [] text = <<"?">> -> <<GameResult("UnknownResult", "WinWithScore", 0)>>
        [] IsWinText(text) /\ rest = <<>> -> Won("WinWithoutScore")
        [] IsWinText(text) /\ rest \in {<<"R">>, <<"Resign">>} -> Won("WinByResignation")
        [] IsWinText(text) /\ rest \in {<<"T">>, <<"Time">>} -> Won("WinOnTime")
        [] IsWinText(text) /\ rest \in {<<"F">>, <<"Forfeit">>} -> Won("WinByForfeit")
        [] IsWinText(text) /\ rest # <<>> /\ IsScoreText(rest) ->
             <<GameResult(winner, "WinWithScore", TryConvertStringToRealValue(rest)[1])>>
        [] OTHER -> <<>>

-----------------------------------------------------------------------------
(* SgfcGoPlayerRank.                                                       *)

RankTypes == [Kyu |-> <<"k">>, AmateurDan |-> <<"d">>, ProfessionalDan |-> <<"p">>]
RatingTypes == [Uncertain |-> <<"?">>, Established |-> <<"*">>, Unspecified |-> <<>>]

RankToText(rank) ==
  Sign(rank.rank) \o DigitsOf(Abs(rank.rank)) \o RankTypes[rank.type] \o RatingTypes[rank.rating]

LongRankTypes == [Kyu |-> <<"kyu">>, AmateurDan |-> <<"dan">>, ProfessionalDan |-> <<"p">>]

(* At least one digit, a type, and optionally a rating.                    *)
IsRankText(text, type, rating) ==
  LET digits == LeadingDigits(text)
  IN  digits # <<>> /\ \E suffix \in {RankTypes[type], LongRankTypes[type]} :
                         text = digits \o suffix \o RatingTypes[rating]

IsUnconvertibleRank(text) ==
  /\ \E type \in DOMAIN RankTypes, rating \in DOMAIN RatingTypes : IsRankText(text, type, rating)
  /\ TryConvertStringToNumberValue(LeadingDigits(text)) = <<>>

RankParts(text) ==
  {parts \in (DOMAIN RankTypes) \X (DOMAIN RatingTypes) : IsRankText(text, parts[1], parts[2])}

RankFromText(text) ==
  LET rank == CHOOSE parts \in RankParts(text) : TRUE
  IN  IF RankParts(text) = {} THEN <<>>
      ELSE <<[rank |-> TryConvertStringToNumberValue(LeadingDigits(text))[1],
              type |-> rank[1], rating |-> rank[2]]>>

-----------------------------------------------------------------------------
(* SgfcRoundInformation.                                                   *)

Blank == " "
OpenParenthesis == "("
CloseParenthesis == ")"
NewLine == "\n"
HasNewLine(text) == NewLine \in Range(text)

RoundToText(round) == round.number \o <<Blank, OpenParenthesis>> \o round.type \o <<CloseParenthesis>>

(* Where a part in parentheses may begin.                                  *)
Openings(text) == {i \in 1..(Len(text) - 1) : text[i] = Blank /\ text[i + 1] = OpenParenthesis}

SplitAt(text, i) ==
  <<[number |-> SubSeq(text, 1, i - 1), type |-> SubSeq(text, i + 2, Len(text) - 1)]>>

IsRoundText(text) == Openings(text) # {} /\ Last(text) = CloseParenthesis /\ ~HasNewLine(text)

(* Mutant: the round type begins as early as it can.                       *)
RoundFromTextNotGreedy(text) ==
  IF IsRoundText(text) THEN SplitAt(text, Min(Openings(text))) ELSE <<>>

(* The pattern is greedy, and matches no line break.                       *)
RoundFromText(text) ==
  IF IsRoundText(text) THEN SplitAt(text, Max(Openings(text))) ELSE <<>>

-----------------------------------------------------------------------------
(* SgfcGoRuleset.                                                          *)

Rulesets == [AGA |-> <<"AGA">>, Ing |-> <<"GOE">>, Japanese |-> <<"Japanese">>, NZ |-> <<"NZ">>]
RulesetFromText(text) == SetToSeq({ruleset \in DOMAIN Rulesets : Rulesets[ruleset] = text})

-----------------------------------------------------------------------------
(* ToPropertyValue and FromPropertyValue.                                  *)

TextOf(kind, value) ==
  CASE kind = "RE" -> ResultToText(value)
    [] kind = "BR" -> RankToText(value)
    [] kind = "RO" -> RoundToText(value)
    [] kind = "RU" -> Rulesets[value]

DecomposedValue(kind, text) ==
  CASE kind = "RE" -> ResultFromText(text)
    [] kind = "BR" -> RankFromText(text)
    [] kind = "RO" -> RoundFromText(text)
    [] kind = "RU" -> RulesetFromText(text)

(* The text has the form, but its number cannot be converted.              *)
IsUnconvertible(kind, text) ==
  \/ kind = "RE" /\ IsUnconvertibleResult(text)
  \/ kind = "BR" /\ IsUnconvertibleRank(text)

-----------------------------------------------------------------------------
ClientGameValues ==
  [RE |-> {GameResult(type, win, score) : type \in ResultTypes, win \in WinTypes, score \in Scores},
   BR |-> [rank : Ranks, type : DOMAIN RankTypes, rating : DOMAIN RatingTypes],
   RO |-> [number : RoundNumbers, type : RoundTypes],
   RU |-> DOMAIN Rulesets]
FileGameTexts ==
  [RE |-> ResultTexts, BR |-> RankTexts, RO |-> RoundTexts, RU |-> Range(Rulesets) \cup {<<"ing">>}]

GameTextInit ==
  /\ textKind \in DOMAIN ClientGameValues
  /\ locale \in (IF textKind = "RE" THEN Locales ELSE {"classic"})
  /\ recomposed = <<>>
  /\ \/ /\ textStage = "client" /\ gameText = <<>>
        /\ \E value \in ClientGameValues[textKind] : decomposed = <<value>>
     \/ textStage = "text" /\ decomposed = <<>> /\ gameText \in FileGameTexts[textKind]
GameTextIdle ==
  textStage = "idle" /\ textKind = "RU" /\ decomposed = <<>> /\ gameText = <<>> /\ recomposed = <<>>

WriteGameText ==
  /\ textStage = "client"
  /\ textStage' = "text"
  /\ gameText' = TextOf(textKind, decomposed[1])
  /\ UNCHANGED <<textKind, decomposed, recomposed, locale>>

ReadGameText ==
  /\ textStage = "text"
  /\ IF IsUnconvertible(textKind, gameText)
     THEN textStage' = "logic_error" /\ UNCHANGED recomposed
     ELSE textStage' = "read" /\ recomposed' = DecomposedValue(textKind, gameText)
  /\ UNCHANGED <<textKind, decomposed, gameText, locale>>

(* The client writes the value that it read from a file.                   *)
WriteAgain ==
  /\ textStage = "read" /\ decomposed = <<>> /\ recomposed # <<>>
  /\ textStage' = "client"
  /\ decomposed' = recomposed
  /\ gameText' = <<>> /\ recomposed' = <<>>
  /\ UNCHANGED <<textKind, locale>>

GameTextNext == WriteGameText \/ ReadGameText \/ WriteAgain
GameTextSpec == GameTextInit /\ [][GameTextNext]_<<gameTextVars, locale>>

-----------------------------------------------------------------------------
(* Properties.                                                             *)

(* Members that do not count for a result get their defaults.              *)
Effective(kind, value) ==
  CASE kind = "RE" /\ ~IsWin(value) -> GameResult(value.type, "WinWithScore", 0)
    [] kind = "RE" /\ IsWin(value) /\ ~HasScore(value) -> [value EXCEPT !.score = 0]
    [] OTHER -> value

(* Values that have no text of the form: a score or a rank that is         *)
(* negative, a score with more digits than a stream writes, or that stod   *)
(* does not take because of the locale, a round type with the beginning of *)
(* another, or a line break.                                               *)
HasNoText(kind, value) ==
  \/ kind = "RE" /\ HasScore(value) /\
       \/ value.score < 0 \/ Rounded(value.score) # value.score \/ value.score >= 100 * PowerOfTen(RealPrecision)
       \/ value.score % 100 # 0 /\ DecimalPoint(locale) # "."
  \/ kind = "BR" /\ value.rank < 0
  \/ kind = "RO" /\ (Openings(value.type) # {} \/ HasNewLine(value.number \o value.type))

(* A value of the client, or one that was read from a file, is written as  *)
(* a text that is read as the same value; and reading a file's text throws *)
(* only if it has a number without digits, or one that is out of range.    *)
TextsReadBack ==
  /\ textStage \in {"read", "logic_error"} /\ decomposed # <<>> /\ ~HasNoText(textKind, decomposed[1]) =>
       textStage = "read" /\ recomposed = <<Effective(textKind, decomposed[1])>>
  /\ textStage = "logic_error" =>
       \/ \A i \in DOMAIN gameText : ~IsDigitCharacter(gameText[i])
       \/ ValueOfDigits(LeadingDigits(gameText)) > MaxNumber
       \/ DecimalPoint(locale) # "."
=============================================================================
