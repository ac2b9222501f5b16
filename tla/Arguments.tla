------------------------------ MODULE Arguments ------------------------------
(***************************************************************************)
(* The way of an argument: a client adds it to a collection                *)
(* (SgfcArguments, SgfcArgument), of which a backend controller makes a    *)
(* command line that SGFC parses; the controller captures the options that *)
(* SGFC has then (SgfcOptions), and restores them for each of its load and *)
(* save operations.  A controller has a copy of the collection: what the   *)
(* client changes during its life is for the next controller.              *)
(***************************************************************************)
EXTENDS PropertyTables, SequencesExt

CONSTANTS
  IntegerParameters, MessageIDs,
  PropertyTypeParameters,
  Encodings,        \* names of encodings
  ShortEncodings,   \* those of less than two characters
  MaxAdded          \* bound: number of arguments in the collection

(* The encoding that SGFC has by default.                                  *)
DefaultEncodingName == "ISO-8859-1"

ASSUME ArgumentsAssumption ==
  /\ IntegerParameters \subseteq Int /\ MessageIDs \subseteq Int
  /\ PropertyTypeParameters \subseteq AllPropertyTypes
  /\ ShortEncodings \subseteq Encodings /\ DefaultEncodingName \notin ShortEncodings
  /\ MaxAdded \in Nat

VARIABLES
  added,           \* SgfcArguments::arguments
  capturedOptions, \* SgfcBackendController::sgfcOptions
  sgfcOptions,     \* the options of SGFC in the current operation
  controller       \* "none", "valid", "operating", "invalid" (its command line) or an exception

argumentVars == <<added, capturedOptions, sgfcOptions, controller>>

-----------------------------------------------------------------------------
(* SgfcArgumentType, by what an argument requires.                         *)

DeletionTypes ==
  {"DeleteMarkupOnCurrentMove", "DeleteEmptyNodes", "DeleteObsoleteProperties",
   "DeleteUnknownProperties"}
StyleTypes ==
  {"UseOldPassMoveNotation", "EnableRestrictiveChecking", "CorrectVariationLevelAndRootMoves",
   "ReverseVariationOrdering", "ExpandCompressedPointLists"}
NoParameterTypes ==
  {"DisableWarningMessages", "LineBreakAtEndOfNode", "NoSoftLineBreaksInTextValues"}
    \cup DeletionTypes \cup StyleTypes

(* The modes, and the numbers that they may have.                          *)
HardLineBreakModes == 1..4
EncodingModes == 1..3
Modes ==
  [HardLineBreakMode |-> HardLineBreakModes, EncodingMode |-> EncodingModes, BeginningOfSgfData |-> 1..3]
IntegerTypes == DOMAIN Modes
StringTypes == {"DefaultEncoding", "ForcedEncoding"}
PropertyTypeTypes == {"DeletePropertyType"}
MessageIDTypes == {"DisableMessageID"}

RepeatableTypes == PropertyTypeTypes \cup MessageIDTypes
ArgumentTypes == NoParameterTypes \cup IntegerTypes \cup StringTypes \cup RepeatableTypes

(* SgfcMessageID: those of SGFC are positive, and one is for messages of   *)
(* SGFC whose number is not known.                                         *)
SgfcMessages == 1..75
UnknownSgfcMessageID == 2147483647
LibraryMessages == -8..-1

-----------------------------------------------------------------------------
(* SgfcArguments.  A call that is refused throws, and changes nothing.     *)

(* Mutant: a mode may be given again, for instance to change it.           *)
RepeatableMode(argumentType) == argumentType \in RepeatableTypes \cup {"HardLineBreakMode"}

ArgumentTypeCanBeAddedMultipleTimes(argumentType) == argumentType \in RepeatableTypes

IsMultiplicityViolated(argument) ==
  \E present \in Range(added) :
    /\ present.type = argument.type
    /\ ~ArgumentTypeCanBeAddedMultipleTimes(argument.type) \/ present.parameter = argument.parameter

AddArgument(argumentType, parameter) ==
  LET argument == [type |-> argumentType, parameter |-> parameter]
  IN  /\ controller = "none"
      /\ Len(added) < MaxAdded
      /\ ~IsMultiplicityViolated(argument)
      /\ added' = Append(added, argument)
      /\ UNCHANGED <<capturedOptions, sgfcOptions, controller>>

AddAnyArgument ==
  \/ \E argumentType \in NoParameterTypes : AddArgument(argumentType, "no parameter")
  \/ \E argumentType \in IntegerTypes, parameter \in IntegerParameters : AddArgument(argumentType, parameter)
  \/ \E argumentType \in StringTypes, parameter \in Encodings : AddArgument(argumentType, parameter)
  \/ \E argumentType \in PropertyTypeTypes, parameter \in PropertyTypeParameters :
       AddArgument(argumentType, parameter)
  \/ \E argumentType \in MessageIDTypes, parameter \in MessageIDs : AddArgument(argumentType, parameter)

ClearArguments ==
  /\ controller = "none" /\ added # <<>>
  /\ added' = <<>>
  /\ UNCHANGED <<capturedOptions, sgfcOptions, controller>>

-----------------------------------------------------------------------------
(* SGFC's command line.                                                    *)

NoEncoding == "null"

SGFCDefaultOptions ==
  [option \in ArgumentTypes |->
     CASE option \in NoParameterTypes -> FALSE
       [] option \in IntegerTypes -> 1
       [] option = "DefaultEncoding" -> DefaultEncodingName
       [] option = "ForcedEncoding" -> NoEncoding
       [] OTHER -> {}]

(* SGFC knows all types that have a name.                                  *)
IsAccepted(argument) ==
  CASE argument.type \in IntegerTypes -> argument.parameter \in Modes[argument.type]
    [] argument.type \in MessageIDTypes -> argument.parameter \in SgfcMessages
    [] OTHER -> TRUE

ApplyArgument(options, argument) ==
  [options EXCEPT ![argument.type] =
     CASE argument.type \in NoParameterTypes -> TRUE
       [] argument.type \in RepeatableTypes -> @ \cup {argument.parameter}
       [] OTHER -> argument.parameter]

(* One argument after the other.                                           *)
ParseArgs(arguments) ==
  LET parsed[k \in 0 .. Len(arguments)] ==
        IF k = 0 THEN SGFCDefaultOptions ELSE ApplyArgument(parsed[k - 1], arguments[k])
  IN  parsed[Len(arguments)]

-----------------------------------------------------------------------------
(* SgfcBackendController.                                                  *)

(* SgfcArgument::ToString: the type Unknown has no name.                   *)
IsConvertible(argument) ==
  argument.type \in PropertyTypeTypes =>
    MapPropertyTypeToPropertyName(argument.parameter) # "invalid_argument"

ConstructBackendController ==
  /\ controller = "none"
  /\ IF \E argument \in Range(added) : ~IsConvertible(argument)
     THEN controller' = "invalid_argument" /\ capturedOptions' = SGFCDefaultOptions
     ELSE IF \E argument \in Range(added) : ~IsAccepted(argument)
     THEN controller' = "invalid" /\ capturedOptions' = SGFCDefaultOptions
     ELSE controller' = "valid" /\ capturedOptions' = ParseArgs(added)
  /\ UNCHANGED <<added, sgfcOptions>>

(* The name of an encoding is restored only if it has two characters.      *)
RestoreOptions(options) ==
  [option \in ArgumentTypes |->
     IF option \in StringTypes /\ options[option] \in ShortEncodings THEN NoEncoding ELSE options[option]]

BeginLoadOrSave ==
  /\ controller = "valid"
  /\ controller' = "operating"
  /\ sgfcOptions' = RestoreOptions(capturedOptions)
  /\ UNCHANGED <<added, capturedOptions>>

EndLoadOrSave ==
  /\ controller = "operating"
  /\ controller' = "valid"
  /\ sgfcOptions' = SGFCDefaultOptions
  /\ UNCHANGED <<added, capturedOptions>>

DestroyBackendController ==
  /\ controller \in {"valid", "invalid", "invalid_argument"}
  /\ controller' = "none"
  /\ capturedOptions' = SGFCDefaultOptions
  /\ UNCHANGED <<added, sgfcOptions>>

-----------------------------------------------------------------------------
(* The arguments of a SgfcDocumentWriter; those of a reader are none.      *)
WriterArguments == << [type |-> "DefaultEncoding", parameter |-> "UTF-8"] >>

ArgumentsInit ==
  /\ added \in {<<>>, WriterArguments}
  /\ capturedOptions = SGFCDefaultOptions /\ sgfcOptions = SGFCDefaultOptions
  /\ controller = "none"
ArgumentsIdle == added = <<>> /\ capturedOptions = <<>> /\ sgfcOptions = <<>> /\ controller = "idle"

ArgumentsNext ==
  \/ AddAnyArgument \/ ClearArguments
  \/ ConstructBackendController \/ BeginLoadOrSave \/ EndLoadOrSave \/ DestroyBackendController

ArgumentsSpec == ArgumentsInit /\ [][ArgumentsNext]_argumentVars

-----------------------------------------------------------------------------
(* Properties.                                                             *)

(* Each argument of a controller takes effect in each of its operations,   *)
(* whatever was added before or after it, and what no argument asks for is *)
(* as SGFC has it by default.  There are two exceptions: an encoding whose *)
(* name is too short is lost, and the type Unknown, which the collection   *)
(* accepts, makes the constructor of the controller throw.                 *)
ParametersOf(option) ==
  {argument.parameter : argument \in {present \in Range(added) : present.type = option}}

ArgumentsTakeEffect ==
  /\ controller = "operating" =>
       \A option \in ArgumentTypes :
         LET asked == ParametersOf(option)
         IN  /\ option \in NoParameterTypes => sgfcOptions[option] = (asked # {})
             /\ option \in RepeatableTypes => sgfcOptions[option] = asked
             /\ option \in IntegerTypes \cup StringTypes /\ asked = {} =>
                  sgfcOptions[option] = SGFCDefaultOptions[option]
             /\ option \in IntegerTypes /\ asked # {} => asked = {sgfcOptions[option]}
             /\ option \in StringTypes => asked \ ShortEncodings \subseteq {sgfcOptions[option]}
  /\ controller = "invalid_argument" => UnknownType \in ParametersOf("DeletePropertyType")
=============================================================================
