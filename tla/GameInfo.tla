------------------------------ MODULE GameInfo ------------------------------
(***************************************************************************)
(* Game information: a client edits properties of the nodes of a game,     *)
(* takes a snapshot of the root and game info properties (SgfcGameInfo,    *)
(* SgfcGoGameInfo), changes the snapshot, and writes it back through the   *)
(* game or through one of its nodes.                                       *)
(*                                                                         *)
(* A node's properties are a function from the types of those it has to    *)
(* their values.  Nodes are numbered in the order in which                 *)
(* SgfcNodeIterator visits them; the root node of the game is node 1.      *)
(*                                                                         *)
(* RE stands for the properties with a raw text and a decomposed value of  *)
(* every game (DT, RE, RO), BR and WR for those of Go (BR, WR, RU), PB for *)
(* the plain texts, those without a decomposed value, HA for the numbers   *)
(* of Go (HA, KM), and TM is the number of every game.                     *)
(***************************************************************************)
EXTENDS Integers, SequencesExt

CONSTANTS
  MaxNode,     \* bound: nodes of the game
  MaxEdit,     \* bound: changes that the client makes to nodes and its object
  TextTypes,   \* the property types with a text, of RE, BR, WR, PB
  GameTypes,   \* values of GM, and
  BoardSizes   \* values of SZ, that a root node may have

ASSUME GameInfoAssumption ==
  /\ MaxNode \in Nat /\ MaxEdit \in Nat
  /\ TextTypes \subseteq {"RE", "BR", "WR", "PB"}
  /\ \A value \in GameTypes \cup BoardSizes : value \in Seq(Int)

VARIABLES
  parent,      \* the parent of each node; empty if the game has no root node
  properties,  \* SgfcNode::properties of each node
  info,        \* the game info object of the client
  last,        \* the last call: what, if a write at which node, how it ended
  edits        \* changes that the client has made so far

vars == <<parent, properties, info, last, edits>>

Null == 0
Root == 1
Nodes == DOMAIN parent

-----------------------------------------------------------------------------
(* Values.                                                                 *)

(* GM and SZ have the numbers of their value: none, one, or those of a     *)
(* composed value.  NaN is a value that is not a number.                   *)
Go == 1
Chess == 3
NaN == -1000
BoardSizeNone == <<-1, -1>>
BoardSizeInvalid == <<-2, -2>>

IsValid(size, gameType) ==
  \A i \in {1, 2} : size[i] >= 1 /\ (gameType = Go => size[i] <= 52)

GetDefaultBoardSize(gameType) ==
  CASE gameType = Go -> <<19, 19>> [] gameType = Chess -> <<8, 8>> [] OTHER -> BoardSizeNone

(* Raw texts: none (NoneValueString, the empty text); one that             *)
(* ToPropertyValue forms; another text with the same meaning ("B+R" for    *)
(* "B+Resign"); one of a wrong form; one of the right form whose number    *)
(* cannot be converted ("B+.").                                            *)
None == "none"
Texts == {None, "canonical", "alias", "junk", "unconvertible"}
TextsOf(type) == IF type = "PB" THEN {None, "junk"} ELSE Texts

(* FromPropertyValue throws std::logic_error for the last one.             *)
Throws(text) == text = "unconvertible"
FromPropertyValue(text) == IF text \in {"canonical", "alias"} THEN "valid" ELSE "invalid"

(* Decomposed values: those that FromPropertyValue gives, and those that   *)
(* it does not give back for the text that ToPropertyValue forms.  It      *)
(* forms none ("refused": dates that cannot be written, or an invalid      *)
(* object with contents), one of a wrong form ("malformed": a negative     *)
(* score or rank), or one of another value ("altered": a score that is     *)
(* rounded, a fraction where the locale has another decimal point, a round *)
(* type with a parenthesis).                                               *)
OneWay == {"refused", "malformed", "altered"}
DecomposedValues == {"valid", "invalid"} \cup OneWay
DecomposedValuesOf(type) == IF type = "RE" THEN DecomposedValues ELSE DecomposedValues \ {"altered"}

ToPropertyValue(value) ==
  CASE value \in {"valid", "altered"} -> "canonical"
    [] value = "malformed" -> "junk"
    [] OTHER -> None

(* In a node a text property may also have a value that reads like none:   *)
(* an empty text, no value, a composed value or one of another value type. *)
(* Of several values the first one counts; here only a plain text has      *)
(* them.  A number property has the numbers of its values; <<>> if the     *)
(* first one is not a number.                                              *)
Empty == "empty"
Several == "several"
NumberTypes == {"HA", "TM"}
NumbersOf(gameType) == IF gameType = Go THEN NumberTypes ELSE {"TM"}

ValuesOf(type) ==
  CASE type \in {"GM", "SZ"} -> Seq(Int)
    [] type \in NumberTypes -> {<<>>, <<0>>, <<2>>, <<2, 0>>}
    [] type = "PB" -> {"junk", Empty, Several}
    [] OTHER -> (Texts \ {None}) \cup {Empty}

-----------------------------------------------------------------------------
(* Nodes.                                                                  *)

(* A node and its ancestors.                                               *)
Path(p, n) ==
  LET path[m \in 0 .. Len(p)] == IF m = Null THEN {} ELSE {m} \cup path[p[m]] IN path[n]

(* The trees of k nodes in the order of a visit.                           *)
Trees(k) ==
  {p \in [1 .. k -> 0 .. k] :
     \A n \in 1 .. k : p[n] < n /\ (IF n = Root THEN p[n] = Null ELSE p[n] \in Path(p, n - 1))}

GameInfoTypes == NumberTypes \cup TextTypes

HasGameInfo(n) == DOMAIN properties[n] \cap GameInfoTypes # {}

SetProperty(p, type, value) ==
  [t \in DOMAIN p \cup {type} |-> IF t = type THEN value ELSE p[t]]

RemovePropertyFromNodeIfExists(p, type) == Restrict(p, DOMAIN p \ {type})

(* SgfcNode::GetGameInfoNode.                                              *)
GetGameInfoNode(n) ==
  LET found == {m \in Path(parent, n) : HasGameInfo(m)}
  IN  IF found = {} THEN Null ELSE Max(found)

(* SgfcGame::GetGameInfoNodes: the visit leaves out what is below one.     *)
GetGameInfoNodes ==
  {n \in Nodes : HasGameInfo(n) /\ \A m \in Path(parent, n) \ {n} : ~HasGameInfo(m)}

(* SgfcGame::GetFirstGameInfoNode: the visit stops at the first one.       *)
GetFirstGameInfoNode ==
  LET found == {n \in Nodes : HasGameInfo(n)} IN IF found = {} THEN Null ELSE Min(found)

-----------------------------------------------------------------------------
(* Reading: the constructors of SgfcGameInfo and SgfcGoGameInfo.           *)

NoInfo == [gameType |-> NaN - 1]

(* SgfcPlusPlusFactory makes an SgfcGoGameInfo for Go.                     *)
IsGo(i) == i.gameType = Go

GetGameTypeAsNumber(p) ==
  IF "GM" \notin DOMAIN p \/ p["GM"] = <<>> THEN Go
  ELSE IF Len(p["GM"]) = 1 THEN p["GM"][1] ELSE NaN

(* Mutant: without the check of the size.                                  *)
GetAnyBoardSize(p) ==
  IF "SZ" \notin DOMAIN p \/ p["SZ"] = <<>> THEN GetDefaultBoardSize(GetGameTypeAsNumber(p))
  ELSE <<p["SZ"][1], p["SZ"][Len(p["SZ"])]>>

GetBoardSize(p) ==
  LET gameType == GetGameTypeAsNumber(p)
      size == <<p["SZ"][1], p["SZ"][Len(p["SZ"])]>>
  IN  IF "SZ" \notin DOMAIN p \/ p["SZ"] = <<>> THEN GetDefaultBoardSize(gameType)
      ELSE IF IsValid(size, gameType) THEN size ELSE BoardSizeInvalid

(* The types that an object for this game type decomposes.                 *)
Ranks == TextTypes \cap {"BR", "WR"}
PlainTypes == TextTypes \cap {"PB"}
Decomposed(gameType) == TextTypes \ (PlainTypes \cup IF gameType = Go THEN {} ELSE Ranks)

DefaultGameInfo ==
  [gameType |-> Go, boardSize |-> GetDefaultBoardSize(Go), text |-> [t \in TextTypes |-> None],
   value |-> [t \in TextTypes |-> "invalid"], number |-> [t \in NumberTypes |-> 0]]

ReadFromRootNode(p) ==
  [DefaultGameInfo EXCEPT !.gameType = GetGameTypeAsNumber(p), !.boardSize = GetBoardSize(p)]

GetSimpleTextPropertyValue(p, t) ==
  IF t \notin DOMAIN p \/ p[t] = Empty THEN None
  ELSE IF p[t] = Several THEN "junk" ELSE p[t]

GetNumberPropertyValue(p, t) == IF t \notin DOMAIN p \/ p[t] = <<>> THEN 0 ELSE p[t][1]

ReadThrows(root, p) ==
  \E t \in Decomposed(GetGameTypeAsNumber(root)) : Throws(GetSimpleTextPropertyValue(p, t))

(* Mutant: keeps the text of the decomposed value instead of the raw text. *)
ReadDecomposedText(i, p) ==
  [i EXCEPT !.text = [t \in TextTypes |->
                        ToPropertyValue(FromPropertyValue(GetSimpleTextPropertyValue(p, t)))]]

ReadFromGameInfoNode(i, p) ==
  [i EXCEPT
     !.text = [t \in TextTypes |-> GetSimpleTextPropertyValue(p, t)],
     !.value = [t \in TextTypes |->
                  IF t \in Decomposed(i.gameType)
                  THEN FromPropertyValue(GetSimpleTextPropertyValue(p, t)) ELSE "invalid"],
     !.number = [t \in NumberTypes |->
                   IF t \in NumbersOf(i.gameType) THEN GetNumberPropertyValue(p, t) ELSE 0]]

(* The object made from the root node and game info node n; if reading     *)
(* throws there is none.                                                   *)
CreateGameInfo(n) ==
  LET root == ReadFromRootNode(properties[Root])
  IN  IF n = Null THEN root
      ELSE IF ReadThrows(properties[Root], properties[n]) THEN NoInfo
      ELSE ReadFromGameInfoNode(root, properties[n])

(* SgfcGame::CreateGameInfo.                                               *)
GameInfoOfGame == IF parent = <<>> THEN DefaultGameInfo ELSE CreateGameInfo(GetFirstGameInfoNode)

(* SgfcNode::CreateGameInfo.                                               *)
GameInfoOfNode(n) == CreateGameInfo(GetGameInfoNode(n))

-----------------------------------------------------------------------------
(* Writing.                                                                *)

WriteToRootNode(p, i) ==
  LET size == i.boardSize
  IN  SetProperty(SetProperty(p, "GM", <<i.gameType>>),
                  "SZ", IF size[1] = size[2] THEN <<size[1]>> ELSE size)

WrittenTypes(i) == TextTypes \cup NumbersOf(i.gameType)

IsDefault(i, t) == IF t \in TextTypes THEN i.text[t] = None ELSE i.number[t] = 0

CreateProperty(i, t) == IF t \in TextTypes THEN i.text[t] ELSE <<i.number[t]>>

(* Mutant: a default value leaves the property alone.                      *)
WriteValuesIfAny(p, i) ==
  LET new == {t \in WrittenTypes(i) : ~IsDefault(i, t)}
  IN  [t \in DOMAIN p \cup new |-> IF t \in new THEN CreateProperty(i, t) ELSE p[t]]

WriteToGameInfoNode(p, i) ==
  LET new == {t \in WrittenTypes(i) : ~IsDefault(i, t)}
      kept == DOMAIN p \ WrittenTypes(i)
  IN  [t \in kept \cup new |-> IF t \in new THEN CreateProperty(i, t) ELSE p[t]]

(* Both nodes are written, the game info node last.                        *)
WriteGameInfo(p, n, i) ==
  LET withRoot == [p EXCEPT ![Root] = WriteToRootNode(@, i)]
  IN  [withRoot EXCEPT ![n] = WriteToGameInfoNode(@, i)]

-----------------------------------------------------------------------------
NoProperties == [t \in {} |-> None]

(* What a root node has: GM and SZ, one of them, or none.                  *)
RootProperties ==
  {p \in UNION {[types -> GameTypes \cup BoardSizes] : types \in SUBSET {"GM", "SZ"}} :
     /\ "GM" \in DOMAIN p => p["GM"] \in GameTypes
     /\ "SZ" \in DOMAIN p => p["SZ"] \in BoardSizes}

Init ==
  /\ \E k \in 0 .. MaxNode :
       /\ parent \in Trees(k)
       /\ \E p \in RootProperties :
            properties = [n \in 1 .. k |-> IF n = Root THEN p ELSE NoProperties]
  /\ info = NoInfo
  /\ last = [call |-> "edit", node |-> Null, result |-> "ok"]
  /\ edits = 0

(* A call with undefined behaviour ends the behaviour.                     *)
Finish(call, n, result) ==
  /\ last.result # "undefined"
  /\ last' = [call |-> call, node |-> n, result |-> result]

Edit == edits < MaxEdit /\ edits' = edits + 1

-----------------------------------------------------------------------------
(* The client edits a node: SgfcNode::SetProperty with a new property, and *)
(* SgfcNode::RemoveProperty.  Values that a write leaves there anyway are  *)
(* left out.                                                               *)
EditValues(t) ==
  IF t \in NumberTypes THEN ValuesOf(t) \ {<<2>>}
  ELSE ValuesOf(t) \ {IF t = "PB" THEN "junk" ELSE "canonical"}

EditGameInfoProperty(n, t) ==
  /\ Edit
  /\ \/ \E v \in EditValues(t) : properties' = [properties EXCEPT ![n] = SetProperty(@, t, v)]
     \/ /\ t \in DOMAIN properties[n]
        /\ properties' = [properties EXCEPT ![n] = RemovePropertyFromNodeIfExists(@, t)]
  /\ Finish("edit", Null, "ok")
  /\ UNCHANGED <<parent, info>>

-----------------------------------------------------------------------------
(* The client obtains a game info object.                                  *)

(* SgfcPlusPlusFactory::CreateGameInfo.                                    *)
NewGameInfo ==
  /\ info' = DefaultGameInfo
  /\ Finish("edit", Null, "ok")
  /\ UNCHANGED <<parent, properties, edits>>

Obtain(call, i) ==
  /\ info' = IF i = NoInfo THEN info ELSE i
  /\ Finish(call, Null, IF i = NoInfo THEN "logic_error" ELSE "ok")
  /\ UNCHANGED <<parent, properties, edits>>

GameCreateGameInfo == Obtain("read", GameInfoOfGame)

NodeCreateGameInfo(n) == Obtain("read node", GameInfoOfNode(n))

-----------------------------------------------------------------------------
(* The client changes its game info object.                                *)

(* Mutant: does not change the raw text.                                   *)
SetValueOnly(t, v) ==
  /\ Edit
  /\ info # NoInfo
  /\ t \in Decomposed(info.gameType) /\ v \in DecomposedValuesOf(t)
  /\ info' = [info EXCEPT !.value[t] = v]
  /\ Finish("edit", Null, "ok")
  /\ UNCHANGED <<parent, properties>>

(* SetGameResult, SetGoBlackPlayerRank, SetGoWhitePlayerRank.  The object  *)
(* keeps the value as it was given, whatever text is formed of it.         *)
SetDecomposed(t, v) ==
  /\ Edit
  /\ info # NoInfo
  /\ t \in Decomposed(info.gameType) /\ v \in DecomposedValuesOf(t)
  /\ info' = [info EXCEPT !.value[t] = v, !.text[t] = ToPropertyValue(v)]
  /\ Finish("edit", Null, "ok")
  /\ UNCHANGED <<parent, properties>>

(* SetBlackPlayerRank and SetWhitePlayerRank.  In a game info object for   *)
(* Go both then decompose the text, into the black player's rank.          *)
SetText(t, text) ==
  /\ Edit
  /\ info # NoInfo
  /\ t \in Ranks /\ text \in TextsOf(t)
  /\ LET changed == [info EXCEPT !.text[t] = text]
     IN  IF IsGo(info) /\ ~Throws(text)
         THEN info' = [changed EXCEPT !.value["BR"] = FromPropertyValue(text)]
         ELSE info' = changed
  /\ Finish("edit", Null, IF IsGo(info) /\ Throws(text) THEN "logic_error" ELSE "ok")
  /\ UNCHANGED <<parent, properties>>

(* The setters of the texts that no object decomposes.                     *)
SetPlainText(t, text) ==
  /\ Edit
  /\ info # NoInfo
  /\ t \in PlainTypes /\ text \in TextsOf(t)
  /\ info' = [info EXCEPT !.text[t] = text]
  /\ Finish("edit", Null, "ok")
  /\ UNCHANGED <<parent, properties>>

(* SetNumberOfHandicapStones and SetKomi; SetTimeLimitInSeconds.           *)
SetNumber(t, k) ==
  /\ Edit
  /\ info # NoInfo /\ t \in NumbersOf(info.gameType)
  /\ info' = [info EXCEPT !.number[t] = k]
  /\ Finish("edit", Null, "ok")
  /\ UNCHANGED <<parent, properties>>

-----------------------------------------------------------------------------
(* The client writes its game info object.                                 *)

(* Mutant: always writes to the root node.                                 *)
GameWriteToRootNode ==
  /\ info # NoInfo /\ parent # <<>>
  /\ properties' = WriteGameInfo(properties, Root, info)
  /\ Finish("write", Null, "ok")
  /\ UNCHANGED <<parent, info, edits>>

(* SgfcGame::WriteGameInfo.  A root node is made if there is none.  If     *)
(* there is no game info node, the root node has been written when         *)
(* WriteToGameInfoNode throws.                                             *)
GameWriteGameInfo ==
  /\ info # NoInfo
  /\ IF parent = <<>>
     THEN /\ parent' = <<Null>>
          /\ properties' = WriteGameInfo(<<NoProperties>>, Root, info)
          /\ Finish("write", Null, "ok")
     ELSE /\ parent' = parent
          /\ IF GetFirstGameInfoNode # Null
             THEN /\ properties' = WriteGameInfo(properties, GetFirstGameInfoNode, info)
                  /\ Finish("write", Null, "ok")
             ELSE /\ properties' = [properties EXCEPT ![Root] = WriteToRootNode(@, info)]
                  /\ Finish("write", Null, "invalid_argument")
  /\ UNCHANGED <<info, edits>>

(* SgfcNode::WriteGameInfo.                                                *)
NodeWriteGameInfo(n) ==
  /\ info # NoInfo
  /\ LET target == IF GetGameInfoNode(n) = Null THEN Root ELSE GetGameInfoNode(n)
     IN  properties' = WriteGameInfo(properties, target, info)
  /\ Finish("write", n, "ok")
  /\ UNCHANGED <<parent, info, edits>>

(* With a null pointer the game throws, and the node dereferences it.      *)
GameWriteNull ==
  /\ info = NoInfo
  /\ Finish("write", Null, "invalid_argument")
  /\ UNCHANGED <<parent, properties, info, edits>>

NodeWriteNull ==
  /\ info = NoInfo /\ parent # <<>>
  /\ Finish("write", Root, "undefined")
  /\ UNCHANGED <<parent, properties, info, edits>>

Next ==
  \/ \E n \in Nodes, t \in GameInfoTypes : EditGameInfoProperty(n, t)
  \/ NewGameInfo
  \/ GameCreateGameInfo
  \/ \E n \in Nodes : NodeCreateGameInfo(n)
  \/ \E t \in TextTypes, v \in DecomposedValues : SetDecomposed(t, v)
  \/ \E t \in TextTypes, text \in Texts : SetText(t, text) \/ SetPlainText(t, text)
  \/ \E t \in NumberTypes, k \in {0, 2} : SetNumber(t, k)
  \/ GameWriteGameInfo
  \/ \E n \in Nodes : NodeWriteGameInfo(n)
  \/ GameWriteNull
  \/ NodeWriteNull

Spec == Init /\ [][Next]_vars

-----------------------------------------------------------------------------
(* Properties.                                                             *)

(* The tree is one in the order of a visit, nodes and game info objects    *)
(* hold values of the kinds above, and undefined behaviour needs a null    *)
(* argument.                                                               *)
GameInfoObjects ==
  [gameType : Int, boardSize : Int \X Int, text : [TextTypes -> Texts],
   value : [TextTypes -> DecomposedValues], number : [NumberTypes -> {0, 2}]]

TypeOK ==
  /\ parent \in Trees(Len(parent)) /\ (Len(parent) <= MaxNode \/ Len(parent) = 1)
  /\ DOMAIN properties = Nodes
  /\ \A n \in Nodes :
       /\ DOMAIN properties[n] \subseteq GameInfoTypes \cup IF n = Root THEN {"GM", "SZ"} ELSE {}
       /\ \A t \in DOMAIN properties[n] : properties[n][t] \in ValuesOf(t)
  /\ \/ info = NoInfo
     \/ /\ info \in GameInfoObjects /\ \A t \in PlainTypes : info.text[t] \in TextsOf(t)
        /\ info.boardSize \in {BoardSizeNone, BoardSizeInvalid} \/ IsValid(info.boardSize, info.gameType)
  /\ last.result \in {"ok", "invalid_argument", "logic_error", "undefined"}
  /\ last.result = "undefined" => info = NoInfo
  /\ edits \in 0 .. MaxEdit

(* The decomposed value of t is that of the raw text, as far as the text   *)
(* can be converted at all; or else the text is the one that is formed of  *)
(* the value.                                                              *)
Agrees(i, t) ==
  \/ Throws(i.text[t])
  \/ IF i.value[t] \in OneWay THEN i.text[t] = ToPropertyValue(i.value[t])
     ELSE i.value[t] = FromPropertyValue(i.text[t])

(* The decomposed value and the raw text of a property agree in every game *)
(* info object (ISgfcGameInfo.h, ISgfcGoGameInfo.h: each setter changes    *)
(* what the other getter returns), whatever was read or set last, and kept *)
(* since.  Only the setter of the white player's rank as a text may leave  *)
(* ranks that do not, which then stay so until they are set again.         *)
ValuesFollowTexts ==
  [][ info' # NoInfo =>
        \A t \in Decomposed(info'.gameType) :
          \/ Agrees(info', t)
          \/ /\ t \in Ranks /\ info # NoInfo
             /\ \/ \E text \in Texts : SetText("WR", text)
                \/ info'.text[t] = info.text[t] /\ info'.value[t] = info.value[t] ]_vars

(* A call of SgfcGame (with Null) or of node n that succeeds.              *)
Succeeded(call, n) == last = [call |-> call, node |-> n, result |-> "ok"]

(* A property value that says what its absence says; and what counts of    *)
(* another one.                                                            *)
SaysNothing(t, v) == IF t \in TextTypes THEN v = Empty ELSE v = <<>> \/ v[1] = 0
FirstOf(t, v) ==
  IF t \in NumberTypes THEN <<v[1]>> ELSE IF v = Several THEN "junk" ELSE v

(* The game info node that the game writes to, and what info holds of it.  *)
IsRewritten(n, t) == n = GetFirstGameInfoNode /\ t \in WrittenTypes(info)

(* The game info properties of n that are left by writing them back.       *)
Left(n) ==
  {t \in DOMAIN properties[n] \cap GameInfoTypes :
     IsRewritten(n, t) => ~SaysNothing(t, properties[n][t])}

(* Taking a snapshot of a game and writing it back at once changes nothing *)
(* of what its game info properties say, not even of texts that cannot be  *)
(* decomposed: in the node that is written those are removed which say     *)
(* nothing - an empty text, the number 0, a value of another type - and of *)
(* several values the first is left.  No other node, and in games other    *)
(* than Go no number of Go, is touched at all.                             *)
WriteBackKeepsGameInfo ==
  [][ Succeeded("read", Null) /\ Succeeded("write", Null)' =>
        \A n \in Nodes :
          /\ DOMAIN properties'[n] \cap GameInfoTypes = Left(n)
          /\ \A t \in Left(n) :
               properties'[n][t] = IF IsRewritten(n, t) THEN FirstOf(t, properties[n][t])
                                   ELSE properties[n][t] ]_vars

(* What reading gives for an object that has been written.  The board size *)
(* "none" is written like a size, which is not a valid one; the decomposed *)
(* values come from the raw texts.                                         *)
Reread(i) ==
  IF \E t \in Decomposed(i.gameType) : Throws(i.text[t]) THEN NoInfo
  ELSE [i EXCEPT
          !.boardSize = IF @ = BoardSizeNone THEN BoardSizeInvalid ELSE @,
          !.value = [t \in TextTypes |->
                       IF t \in Decomposed(i.gameType) THEN FromPropertyValue(i.text[t]) ELSE "invalid"]]

(* A write of default values may leave its target without game info, so    *)
(* that a later read finds another node.                                   *)
TargetKeepsGameInfo(target) ==
  \E m \in {target} : HasGameInfo(m)' \/ \A n \in Nodes : ~HasGameInfo(n)'

(* After a write that succeeds, the same way of reading - through the game *)
(* or through the node - gives the values that were written, whatever the  *)
(* nodes held before, the type of the game included.                       *)
WriteThenRead ==
  [][ /\ Succeeded("write", Null)' /\ (parent = <<>> \/ TargetKeepsGameInfo(GetFirstGameInfoNode)) =>
           GameInfoOfGame' = Reread(info)
      /\ \A n \in Nodes :
           Succeeded("write", n)'
             /\ TargetKeepsGameInfo(IF GetGameInfoNode(n) = Null THEN Root ELSE GetGameInfoNode(n)) =>
             GameInfoOfNode(n)' = Reread(info) ]_vars

(* The SGF standard's rule that ISgfcGame.h cites for GetGameInfoNodes: on *)
(* a path there is at most one game info node, so that the visit, which    *)
(* leaves out what is below such a node, finds them all.                   *)
OneGameInfoNodePerPath == GetGameInfoNodes = {n \in Nodes : HasGameInfo(n)}

(* Writing game info breaks the rule in one case only, and always then:    *)
(* through a node without a game info node, if the root node has game info *)
(* afterwards and a node on another path had some before.                  *)
WritesKeepTheRule ==
  [][ (\E n \in Nodes \cup {Null} : Succeeded("write", n)') /\ OneGameInfoNodePerPath =>
        ( OneGameInfoNodePerPath' <=>
            ~ \E n \in Nodes : /\ Succeeded("write", n)' /\ GetGameInfoNode(n) = Null
                               /\ HasGameInfo(Root)' /\ \E m \in Nodes : HasGameInfo(m) ) ]_vars

-----------------------------------------------------------------------------
(* What the documentation says, and the code does not do.                  *)

(* ISgfcGoGameInfo.h: setting a player's rank as a text changes what the   *)
(* getter of that player's decomposed rank returns, so that they agree.    *)
ValueAgreesWithText ==
  info # NoInfo => \A t \in Decomposed(info.gameType) : Agrees(info, t)

(* ISgfcGame.h: if the game has no game info nodes, the game info values   *)
(* are written to the root node.                                           *)
WrittenWithoutGameInfoNode ==
  [][info # NoInfo /\ last'.call = "write" => last'.result = "ok"]_vars

(* SgfcGameResult.h, SgfcGoPlayerRank.h: a text that cannot be decomposed  *)
(* gives a value that is not valid, so that no text prevents reading.      *)
AnyTextCanBeRead == last.result # "logic_error"
=============================================================================
