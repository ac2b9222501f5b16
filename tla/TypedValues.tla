---------------------------- MODULE TypedValues ----------------------------
(***************************************************************************)
(* Values of the types Number, Real, Double and Color.  A client gives the *)
(* factory (SgfcPropertyValueFactory) a typed value, of which the factory  *)
(* makes a text; the decoder (SgfcPropertyDecoder, SgfcValueConverter)     *)
(* makes a typed value of a text, or keeps only the text if it cannot.     *)
(*                                                                         *)
(* Which characters separate decimals and thousands depends on the locale  *)
(* of the process, which the client sets.  Real values are integers here:  *)
(* their hundredths.                                                       *)
(***************************************************************************)
EXTENDS Integers, SequencesExt

CONSTANTS
  ClientNumbers, ClientReals,   \* values that the client gives the factory
  NumberTexts, RealTexts,       \* texts of a file
  MaxNumber,                    \* the largest int
  RealPrecision                 \* significant digits that a stream writes

(* The values of an int.                                                   *)
Ints == (-MaxNumber - 1)..MaxNumber

(* Real values have two decimals, and so have the texts of a file.         *)
ASSUME TypedValuesAssumption ==
  /\ MaxNumber \in Nat /\ RealPrecision \in Nat \ {0}
  /\ ClientNumbers \subseteq Ints /\ ClientReals \subseteq Int
  /\ NumberTexts \cup RealTexts \subseteq Seq(STRING)
  /\ \A text \in RealTexts : \A i \in DOMAIN text : text[i] = "." => Len(text) <= i + 2

VARIABLES
  typedStage,   \* "client", "object", "read", or "corrected" (by SGFC)
  valueType,
  locale,
  meant,        \* the value of the client, or the one that the file's text means
  rawValue,     \* the text of the value object
  typedValue    \* its typed value; both are sequences of one element, or none

typedVars == <<typedStage, valueType, locale, meant, rawValue, typedValue>>

Locales == {"classic", "English", "German"}
DecimalPoint(where) == IF where = "German" THEN "," ELSE "."

-----------------------------------------------------------------------------
(* Digits.                                                                 *)

DigitCharacters == <<"0", "1", "2", "3", "4", "5", "6", "7", "8", "9">>
IsDigitCharacter(c) == c \in Range(DigitCharacters)
DigitValue(c) == (CHOOSE i \in DOMAIN DigitCharacters : DigitCharacters[i] = c) - 1
ValueOfDigits(text) == FoldLeft(LAMBDA n, c : 10 * n + DigitValue(c), 0, text)

(* A natural number in decimal notation.                                   *)
DigitsOf(number) ==
  LET digits[n \in 0..number] ==
        (IF n < 10 THEN <<>> ELSE digits[n \div 10]) \o <<DigitCharacters[(n % 10) + 1]>>
  IN  digits[number]

PowerOfTen(exponent) ==
  LET power[n \in 0..exponent] == IF n = 0 THEN 1 ELSE 10 * power[n - 1]
  IN  power[exponent]

Sign(number) == IF number < 0 THEN <<"-">> ELSE <<>>
Abs(number) == IF number < 0 THEN -number ELSE number

-----------------------------------------------------------------------------
(* The factory.                                                            *)

(* The stream for numbers has the locale of the process, and separates     *)
(* thousands if that does.                                                 *)
Grouped(digits) ==
  IF Len(digits) <= 3 THEN digits
  ELSE SubSeq(digits, 1, Len(digits) - 3) \o <<"thousands separator">> \o SubSeq(digits, Len(digits) - 2, Len(digits))

CreateNumberPropertyValue(number) ==
  Sign(number) \o (IF locale = "classic" THEN DigitsOf(Abs(number)) ELSE Grouped(DigitsOf(Abs(number))))

(* The stream for reals has the classic locale.  It rounds a value to some *)
(* significant digits and writes larger ones with an exponent.             *)
Rounded(hundredths) ==
  LET excess == Len(DigitsOf(hundredths)) - RealPrecision
      unit   == IF excess > 0 THEN PowerOfTen(excess) ELSE 1
  IN  ((hundredths + (unit \div 2)) \div unit) * unit

CreateRealPropertyValue(real) ==
  LET rounded  == Rounded(Abs(real))
      whole    == DigitsOf(rounded \div 100)
      decimals == rounded % 100
  IN  CASE Len(whole) > RealPrecision ->
             Sign(real) \o <<Head(whole), "e">> \o DigitsOf(Len(whole) - 1)
        [] Len(whole) <= RealPrecision /\ decimals = 0 -> Sign(real) \o whole
        [] Len(whole) <= RealPrecision /\ decimals # 0 ->
             Sign(real) \o whole \o <<".">>
               \o (IF decimals % 10 = 0 THEN DigitsOf(decimals \div 10)
                   ELSE <<DigitCharacters[(decimals \div 10) + 1], DigitCharacters[(decimals % 10) + 1]>>)

CreateDoublePropertyValue(double) == IF double = "Normal" THEN <<"1">> ELSE <<"2">>
CreateColorPropertyValue(color) == IF color = "Black" THEN <<"B">> ELSE <<"W">>

CreatePropertyValue(value) ==
  CASE valueType = "Number" -> CreateNumberPropertyValue(value)
    [] valueType = "Real" -> CreateRealPropertyValue(value)
    [] valueType = "Double" -> CreateDoublePropertyValue(value)
    [] valueType = "Color" -> CreateColorPropertyValue(value)

-----------------------------------------------------------------------------
(* The decoder.  A conversion gives a value, or none.                      *)

(* The C library skips a sign and takes the digits that follow, whatever   *)
(* comes after them.                                                       *)
LeadingDigits(text) ==
  LET others == {i \in DOMAIN text : ~IsDigitCharacter(text[i])}
  IN  IF others = {} THEN text ELSE SubSeq(text, 1, Min(others) - 1)

Begins(text, characters) == text # <<>> /\ Head(text) \in characters
WithoutPlus(text) == IF Begins(text, {"+"}) THEN Tail(text) ELSE text
Unsigned(text) == IF Begins(text, {"+", "-"}) THEN Tail(text) ELSE text
Signed(text, value) == IF Begins(text, {"-"}) THEN -value ELSE value

(* Mutant: any sign is removed before the conversion.                      *)
ConvertWithoutSign(text) ==
  LET digits == LeadingDigits(Unsigned(text))
  IN  IF digits = <<>> \/ ValueOfDigits(digits) \notin Ints THEN <<>> ELSE <<ValueOfDigits(digits)>>

TryConvertStringToNumberValue(text) ==
  LET number == WithoutPlus(text)
      digits == LeadingDigits(Unsigned(number))
      value  == Signed(number, ValueOfDigits(digits))
  IN  IF digits = <<>> \/ value \notin Ints THEN <<>> ELSE <<value>>

TryConvertStringToRealValue(text) ==
  LET real     == WithoutPlus(text)
      digits   == LeadingDigits(Unsigned(real))
      rest     == SubSeq(Unsigned(real), Len(digits) + 1, Len(Unsigned(real)))
      decimals == IF Begins(rest, {DecimalPoint(locale)}) THEN LeadingDigits(Tail(rest)) ELSE <<>>
  IN  IF digits = <<>> /\ decimals = <<>>
      THEN <<>>
      ELSE <<Signed(real, ValueOfDigits(digits \o SubSeq(decimals \o <<"0", "0">>, 1, 2)))>>

TryConvertStringToDoubleValue(text) ==
  CASE text = <<"1">> -> <<"Normal">>
    [] text = <<"2">> -> <<"Emphasized">>
    [] OTHER -> <<>>

TryConvertStringToColorValue(text) ==
  CASE text = <<"B">> -> <<"Black">>
    [] text = <<"W">> -> <<"White">>
    [] OTHER -> <<>>

TryConvert(text) ==
  CASE valueType = "Number" -> TryConvertStringToNumberValue(text)
    [] valueType = "Real" -> TryConvertStringToRealValue(text)
    [] valueType = "Double" -> TryConvertStringToDoubleValue(text)
    [] valueType = "Color" -> TryConvertStringToColorValue(text)

-----------------------------------------------------------------------------
(* The SGF standard: what a text means if it is of the right form.  SGFC   *)
(* corrects other texts.                                                   *)

IsSgfNumber(text) == Unsigned(text) # <<>> /\ \A i \in DOMAIN Unsigned(text) : IsDigitCharacter(Unsigned(text)[i])

IsSgfReal(text) ==
  \/ IsSgfNumber(text)
  \/ \E i \in 1..Len(text) :
       /\ text[i] = "." /\ IsSgfNumber(SubSeq(text, 1, i - 1))
       /\ i < Len(text) /\ \A k \in (i + 1)..Len(text) : IsDigitCharacter(text[k])

IsWellFormedValue(text) ==
  CASE valueType = "Number" -> IsSgfNumber(text)
    [] valueType = "Real" -> IsSgfReal(text)
    [] valueType = "Double" -> text \in {<<"1">>, <<"2">>}
    [] valueType = "Color" -> text \in {<<"B">>, <<"W">>}

(* The digits before and behind a decimal point, read as one number, count *)
(* as many hundredths as decimals are missing.                             *)
Meaning(type, text) ==
  LET digits   == Unsigned(text)
      point    == Min({i \in DOMAIN digits : digits[i] = "."} \cup {Len(digits) + 1})
      decimals == SubSeq(digits, point + 1, Len(digits))
  IN  CASE type = "Number" -> Signed(text, ValueOfDigits(digits))
        [] type = "Real" ->
             Signed(text, ValueOfDigits(SubSeq(digits, 1, point - 1) \o decimals) * PowerOfTen(2 - Len(decimals)))

-----------------------------------------------------------------------------
ClientTypedValues ==
  [Number |-> ClientNumbers, Real |-> ClientReals,
   Double |-> {"Normal", "Emphasized"}, Color |-> {"Black", "White"}]
FileTexts ==
  [Number |-> NumberTexts, Real |-> RealTexts,
   Double |-> {<<"1">>, <<"2">>, <<"3">>, <<>>}, Color |-> {<<"B">>, <<"W">>, <<"b">>, <<>>}]

TypedInit ==
  /\ valueType \in DOMAIN FileTexts
  /\ locale \in Locales
  /\ typedValue = <<>>
  /\ \/ /\ typedStage = "client" /\ rawValue = <<>>
        /\ \E value \in ClientTypedValues[valueType] : meant = <<value>>
     \/ /\ typedStage = "object" /\ meant = <<>>
        /\ \E text \in FileTexts[valueType] : rawValue = <<text>>
TypedIdle ==
  /\ typedStage = "idle" /\ valueType = "Number"
  /\ meant = <<>> /\ rawValue = <<>> /\ typedValue = <<>>

CreateValue ==
  /\ typedStage = "client"
  /\ typedStage' = "object"
  /\ rawValue' = <<CreatePropertyValue(meant[1])>>
  /\ UNCHANGED <<valueType, locale, meant, typedValue>>

(* The encoder writes the text as it is; SGFC delivers it if it is of the  *)
(* right form.  The decoder does not rely on that.                         *)
ReadValue ==
  /\ typedStage = "object"
  /\ typedStage' = "read"
  /\ typedValue' = TryConvert(rawValue[1])
  /\ UNCHANGED <<valueType, locale, meant, rawValue>>

CorrectValue ==
  /\ typedStage = "object"
  /\ ~IsWellFormedValue(rawValue[1])
  /\ typedStage' = "corrected"
  /\ UNCHANGED <<valueType, locale, meant, rawValue, typedValue>>

TypedNext == CreateValue \/ ReadValue \/ CorrectValue
TypedSpec == TypedInit /\ [][TypedNext]_typedVars

-----------------------------------------------------------------------------
(* Properties.                                                             *)

(* Where the text of a number depends on the locale of the process: the    *)
(* factory, unlike SgfcValueConverter, does not give its stream the        *)
(* classic one.                                                            *)
HasThousandsSeparator ==
  valueType = "Number" /\ locale # "classic" /\ meant # <<>> /\ Abs(meant[1]) >= 1000

(* Digits that the stream of the factory drops.                            *)
HasManyDigits ==
  valueType = "Real" /\ meant # <<>> /\ (Rounded(Abs(meant[1])) # Abs(meant[1]) \/ Abs(meant[1]) >= 100 * PowerOfTen(RealPrecision))

(* stod ends at the decimal point if the locale of the process has another.*)
HasForeignPoint == valueType = "Real" /\ DecimalPoint(locale) # "."

(* A value of the client is written as a text that SGFC leaves as it is,   *)
(* and is read as the same value; a text of a file that has the form of    *)
(* the standard is read as the value it means, and has no value only if    *)
(* that is out of range.                                                   *)
TypedValuesKept ==
  typedStage \in {"read", "corrected"} /\ ~HasThousandsSeparator /\ ~HasManyDigits /\ ~HasForeignPoint =>
    IF meant # <<>>
    THEN typedStage = "read" /\ typedValue = meant
    ELSE typedStage = "read" /\ valueType \in {"Number", "Real"} /\ IsWellFormedValue(rawValue[1]) =>
           LET meaning == Meaning(valueType, rawValue[1])
           IN  typedValue = IF valueType = "Number" /\ meaning \notin Ints THEN <<>> ELSE <<meaning>>
=============================================================================
