--------------------------- MODULE GameInfoProofs ---------------------------
(***************************************************************************)
(* Proofs about GameInfo, for games of any size, any number of edits, any  *)
(* of the property types, and any values of the root properties.           *)
(***************************************************************************)
EXTENDS GameInfo, WellFoundedInduction, TLAPS

-----------------------------------------------------------------------------
(* Numbers.                                                                *)

LEMMA LeastNumber ==
  ASSUME NEW S, S \subseteq Nat, S # {}
  PROVE  \E i \in S : \A j \in S : i <= j
<1> DEFINE Less == {p \in Nat \X Nat : p[1] < p[2]}
<1>1. IsWellFoundedOn(Less, Nat)
  <2>1. Less = OpToRel(<, Nat)
    BY DEF OpToRel
  <2> QED BY <2>1, NatLessThanWellFounded
<1>2. PICK i \in S : \A j \in S : ~(<<j, i>> \in Less)
  <2> HIDE DEF Less
  <2> QED BY <1>1, WFMin
<1>3. ASSUME NEW j \in S PROVE i <= j
  <2>1. i \in Nat /\ j \in Nat
    OBVIOUS
  <2>2. ~(j < i)
    BY <1>2, <2>1
  <2> QED BY <2>1, <2>2
<1> QED BY <1>3

(* The first and the last node of a set are in it.                         *)
LEMMA MinMember ==
  ASSUME NEW S, S \subseteq Nat, S # {}
  PROVE  Min(S) \in S
BY LeastNumber DEF Min

LEMMA MaxMember ==
  ASSUME NEW k \in Nat, NEW S \in SUBSET (1 .. k), S # {}
  PROVE  Max(S) \in S
<1> DEFINE T == {j \in 0 .. k : k - j \in S}
<1>1. PICK s \in S : TRUE
  OBVIOUS
<1>2. k - s \in T
  OBVIOUS
<1>3. \E i \in T : \A j \in T : i <= j
  <2>1. T \subseteq Nat
    OBVIOUS
  <2> HIDE DEF T
  <2> QED BY <1>2, <2>1, LeastNumber
<1>4. PICK i \in T : \A j \in T : i <= j
  BY <1>3
<1>5. ASSUME NEW y \in S PROVE k - i >= y
  <2>1. k - y \in T
    OBVIOUS
  <2>2. i \in Nat /\ y \in Nat /\ k - y \in Nat
    OBVIOUS
  <2> HIDE DEF T
  <2>3. i <= k - y
    BY <1>4, <2>1
  <2> QED BY <2>2, <2>3
<1>6. \E x \in S : \A y \in S : x >= y
  BY <1>5
<1> QED BY <1>6 DEF Max

-----------------------------------------------------------------------------
(* Paths.                                                                  *)

(* The parents come first, which makes the recursion of Path one along the *)
(* numbers of the nodes: there is a function as Path describes it.         *)
LEMMA PathFunction ==
  ASSUME NEW k \in Nat, NEW p \in [1 .. k -> 0 .. k], \A n \in 1 .. k : p[n] < n
  PROVE  \E f : f = [m \in 0 .. k |-> IF m = Null THEN {} ELSE {m} \cup f[p[m]]]
<1> DEFINE Good(j) == \E f : f = [m \in 0 .. j |-> IF m = Null THEN {} ELSE {m} \cup f[p[m]]]
           Bad == {j \in 0 .. k : ~Good(j)}
<1>1. Good(0)
  <2> DEFINE f == [m \in 0 .. 0 |-> {}]
  <2>1. f = [m \in 0 .. 0 |-> IF m = Null THEN {} ELSE {m} \cup f[p[m]]]
    BY DEF Null
  <2> QED BY <2>1
<1>2. ASSUME NEW j \in 1 .. k, Good(j - 1) PROVE Good(j)
  <2>1. PICK f : f = [m \in 0 .. j - 1 |-> IF m = Null THEN {} ELSE {m} \cup f[p[m]]]
    BY <1>2
  <2> DEFINE g == [m \in 0 .. j |-> IF m = j THEN {j} \cup f[p[j]] ELSE f[m]]
  <2>2. ASSUME NEW m \in 0 .. j, m # Null PROVE p[m] \in 0 .. j - 1 /\ p[m] < m
    BY <2>2 DEF Null
  <2>3. ASSUME NEW m \in 0 .. j PROVE g[m] = IF m = Null THEN {} ELSE {m} \cup g[p[m]]
    <3>1. CASE m = j
      BY <2>2, <3>1 DEF Null
    <3>2. CASE m # j
      <4>1. m \in 0 .. j - 1 /\ g[m] = f[m]
        BY <3>2
      <4>2. f[m] = IF m = Null THEN {} ELSE {m} \cup f[p[m]]
        BY <2>1, <4>1
      <4>3. m # Null => g[p[m]] = f[p[m]]
        BY <2>2
      <4> QED BY <4>1, <4>2, <4>3
    <3> QED BY <3>1, <3>2
  <2>4. g = [m \in 0 .. j |-> IF m = Null THEN {} ELSE {m} \cup g[p[m]]]
    BY <2>3
  <2> HIDE DEF g
  <2> QED BY <2>4
<1> HIDE DEF Good
<1>3. Bad = {}
  <2> SUFFICES ASSUME Bad # {} PROVE FALSE
    OBVIOUS
  <2>1. PICK j \in Bad : \A i \in Bad : j <= i
    <3>1. Bad \subseteq Nat
      OBVIOUS
    <3> HIDE DEF Bad
    <3> QED BY <3>1, LeastNumber
  <2>2. j # 0
    BY <1>1
  <2>3. j \in 1 .. k /\ j - 1 \in 0 .. k /\ ~(j <= j - 1)
    BY <2>2
  <2>4. Good(j - 1)
    BY <2>1, <2>3
  <2> QED BY <1>2, <2>3, <2>4
<1>4. Good(k)
  BY <1>3
<1> QED BY <1>4 DEF Good

(* The trees of k nodes.                                                   *)
LEMMA TreeParents ==
  ASSUME NEW k \in Nat, NEW p \in Trees(k)
  PROVE  /\ p \in [1 .. k -> 0 .. k] /\ p \in Seq(Nat) /\ Len(p) = k /\ DOMAIN p = 1 .. k
         /\ \A n \in 1 .. k : p[n] < n
BY DEF Trees

(* The path of a node is the node itself, and the path of its parent.      *)
LEMMA PathStep ==
  ASSUME NEW k \in Nat, NEW p \in Trees(k)
  PROVE  /\ Path(p, Null) = {}
         /\ \A n \in 1 .. k : Path(p, n) = {n} \cup Path(p, p[n])
<1> DEFINE path == CHOOSE f : f = [m \in 0 .. Len(p) |-> IF m = Null THEN {} ELSE {m} \cup f[p[m]]]
<1>1. p \in [1 .. k -> 0 .. k] /\ Len(p) = k /\ \A n \in 1 .. k : p[n] < n
  BY TreeParents
<1>2. path = [m \in 0 .. k |-> IF m = Null THEN {} ELSE {m} \cup path[p[m]]]
  BY <1>1, PathFunction
<1>3. \A n : Path(p, n) = path[n]
  BY DEF Path
<1> HIDE DEF path
<1>4. Null \in 0 .. k /\ path[Null] = {}
  BY <1>2 DEF Null
<1>5. ASSUME NEW n \in 1 .. k PROVE path[n] = {n} \cup path[p[n]]
  <2>1. n \in 0 .. k /\ n # Null
    BY DEF Null
  <2> QED BY <1>2, <2>1, Zenon
<1> QED BY <1>3, <1>4, <1>5

(* A path leads from its node to the root.                                 *)
LEMMA PathNodes ==
  ASSUME NEW k \in Nat, NEW p \in Trees(k), NEW n \in 1 .. k
  PROVE  Path(p, n) \in SUBSET (1 .. k) /\ n \in Path(p, n) /\ Root \in Path(p, n)
<1> DEFINE Fine(j) == Path(p, j) \in SUBSET (1 .. k) /\ Root \in Path(p, j)
           Bad == {j \in 1 .. k : ~Fine(j)}
<1>1. /\ p \in [1 .. k -> 0 .. k] /\ \A m \in 1 .. k : p[m] < m
      /\ Path(p, Null) = {} /\ \A m \in 1 .. k : Path(p, m) = {m} \cup Path(p, p[m])
  BY TreeParents, PathStep
<1>2. \A m \in 1 .. k : m # Root => p[m] # Null
  <2> SUFFICES ASSUME NEW m \in 1 .. k, m # Root, p[m] = Null PROVE FALSE
    OBVIOUS
  <2>1. p[m] \in Path(p, m - 1) /\ m - 1 \in 1 .. k
    BY DEF Trees, Root
  <2> DEFINE Zero == {j \in 1 .. k : Null \in Path(p, j)}
  <2>2. Zero = {}
    <3> SUFFICES ASSUME Zero # {} PROVE FALSE
      OBVIOUS
    <3>1. PICK j \in Zero : \A i \in Zero : j <= i
      <4>1. Zero \subseteq Nat
        OBVIOUS
      <4> HIDE DEF Zero
      <4> QED BY <4>1, LeastNumber
    <3>2. j \in 1 .. k /\ Null \in Path(p, p[j])
      BY <1>1 DEF Null
    <3>3. p[j] \in 1 .. k /\ p[j] < j
      BY <1>1, <3>2 DEF Null
    <3>4. p[j] \in Zero
      BY <3>2, <3>3
    <3> HIDE DEF Zero
    <3> QED BY <3>1, <3>2, <3>3, <3>4
  <2> QED BY <2>1, <2>2
<1>3. Bad = {}
  <2> SUFFICES ASSUME Bad # {} PROVE FALSE
    OBVIOUS
  <2>1. PICK j \in Bad : \A i \in Bad : j <= i
    <3>1. Bad \subseteq Nat
      OBVIOUS
    <3> HIDE DEF Bad
    <3> QED BY <3>1, LeastNumber
  <2>2. CASE p[j] = Null
    <3>1. Path(p, j) = {j} /\ j = Root
      BY <1>1, <1>2, <2>2
    <3> QED BY <3>1
  <2>3. CASE p[j] # Null
    <3>1. p[j] \in 1 .. k /\ ~(j <= p[j])
      BY <1>1, <2>3 DEF Null
    <3>2. Fine(p[j])
      BY <2>1, <3>1
    <3>3. Path(p, j) = {j} \cup Path(p, p[j])
      BY <1>1
    <3> QED BY <3>2, <3>3
  <2> QED BY <2>2, <2>3
<1> QED BY <1>1, <1>3

-----------------------------------------------------------------------------
(* Types.                                                                  *)

(* The properties of node n are a function, and have their values.         *)
NodeOK(p, n) ==
  /\ p = [t \in DOMAIN p |-> p[t]]
  /\ DOMAIN p \subseteq GameInfoTypes \cup IF n = Root THEN {"GM", "SZ"} ELSE {}
  /\ \A t \in DOMAIN p : p[t] \in ValuesOf(t)

(* A game info object.  Only one for Go has the numbers of Go.             *)
InfoOK(i) ==
  /\ i \in GameInfoObjects
  /\ \A t \in PlainTypes : i.text[t] \in TextsOf(t)
  /\ i.boardSize \in {BoardSizeNone, BoardSizeInvalid} \/ IsValid(i.boardSize, i.gameType)
  /\ \A t \in NumberTypes \ NumbersOf(i.gameType) : i.number[t] = 0

GameOK(par, props) ==
  /\ par \in Trees(Len(par)) /\ Len(par) \in Nat /\ (Len(par) <= MaxNode \/ Len(par) = 1)
  /\ props = [n \in DOMAIN par |-> props[n]]
  /\ \A n \in DOMAIN par : NodeOK(props[n], n)

CallOK(l, i) ==
  /\ l.result \in {"ok", "invalid_argument", "logic_error", "undefined"}
  /\ l.result = "undefined" => i = NoInfo

Types ==
  /\ GameOK(parent, properties)
  /\ info = NoInfo \/ InfoOK(info)
  /\ CallOK(last, info)
  /\ edits \in 0 .. MaxEdit

LEMMA TypesTypeOK == Types => TypeOK
BY DEF Types, TypeOK, GameOK, InfoOK, NodeOK, CallOK, Nodes

LEMMA PropertyTypes ==
  /\ "GM" \notin GameInfoTypes /\ "SZ" \notin GameInfoTypes
  /\ TextTypes \subseteq GameInfoTypes /\ NumberTypes \subseteq GameInfoTypes
  /\ \A t \in TextTypes : t \notin {"GM", "SZ"} /\ t \notin NumberTypes
  /\ "GM" \notin NumberTypes /\ "SZ" \notin NumberTypes
  /\ \A g : NumbersOf(g) \subseteq NumberTypes
BY GameInfoAssumption DEF GameInfoTypes, NumberTypes, NumbersOf

(* The values of a property of the root node.                              *)
LEMMA RootValues == ValuesOf("GM") = Seq(Int) /\ ValuesOf("SZ") = Seq(Int)
BY DEF ValuesOf, NumberTypes

(* The values of a text property, and what is read of them.                *)
LEMMA TextValues ==
  ASSUME NEW t \in TextTypes
  PROVE  /\ TextsOf(t) \subseteq Texts /\ None \in TextsOf(t)
         /\ \A text \in TextsOf(t) : text # None => text \in ValuesOf(t)
         /\ \A v \in ValuesOf(t) : /\ v # None
                                   /\ v # Empty => (IF v = Several THEN "junk" ELSE v) \in TextsOf(t)
<1>1. t \notin {"GM", "SZ"} /\ t \notin NumberTypes
  BY PropertyTypes
<1>2. ValuesOf(t) = IF t = "PB" THEN {"junk", Empty, Several} ELSE (Texts \ {None}) \cup {Empty}
  BY <1>1 DEF ValuesOf
<1> QED BY <1>2 DEF TextsOf, Texts, None, Empty, Several

(* The values of a number property, and what is read of them.              *)
LEMMA NumberValues ==
  ASSUME NEW t \in NumberTypes
  PROVE  /\ <<2>> \in ValuesOf(t)
         /\ \A v \in ValuesOf(t) : v # <<>> => v[1] \in {0, 2}
<1>1. ValuesOf(t) = {<<>>, <<0>>, <<2>>, <<2, 0>>}
  BY DEF ValuesOf, NumberTypes
<1> QED BY <1>1

LEMMA DefaultOK == InfoOK(DefaultGameInfo) /\ IsGo(DefaultGameInfo)
<1> DEFINE d == DefaultGameInfo
<1>1. GetDefaultBoardSize(Go) = <<19, 19>>
  BY DEF GetDefaultBoardSize, Go, Chess
<1>2. /\ d.gameType = Go /\ d.boardSize = <<19, 19>> /\ d.text = [t \in TextTypes |-> None]
      /\ d.value = [t \in TextTypes |-> "invalid"] /\ d.number = [t \in NumberTypes |-> 0]
      /\ d \in GameInfoObjects
  BY <1>1 DEF DefaultGameInfo, GameInfoObjects, Texts, None, DecomposedValues, Go
<1> HIDE DEF d
<1>3. IsValid(d.boardSize, d.gameType)
  BY <1>2 DEF IsValid
<1>4. \A t \in PlainTypes : d.text[t] \in TextsOf(t)
  BY <1>2, TextValues DEF PlainTypes
<1> QED BY <1>2, <1>3, <1>4 DEF InfoOK, IsGo, d

(* What reading the root node gives.                                       *)
LEMMA ReadRootOK ==
  ASSUME NEW p, NodeOK(p, Root)
  PROVE  LET i == ReadFromRootNode(p)
         IN  /\ InfoOK(i)
             /\ i.gameType = GetGameTypeAsNumber(p) /\ i.boardSize = GetBoardSize(p)
             /\ i.text = [t \in TextTypes |-> None] /\ i.value = [t \in TextTypes |-> "invalid"]
             /\ i.number = [t \in NumberTypes |-> 0]
<1> DEFINE g == GetGameTypeAsNumber(p)
           b == GetBoardSize(p)
           i == ReadFromRootNode(p)
           d == DefaultGameInfo
<1>1. "GM" \in DOMAIN p => p["GM"] \in Seq(Int)
  BY RootValues DEF NodeOK
<1>2. "SZ" \in DOMAIN p => p["SZ"] \in Seq(Int)
  BY RootValues DEF NodeOK
<1>3. g \in Int
  BY <1>1 DEF GetGameTypeAsNumber, Go, NaN
<1> HIDE DEF g
<1>4. /\ GetDefaultBoardSize(g) \in Int \X Int
      /\ GetDefaultBoardSize(g) = BoardSizeNone \/ IsValid(GetDefaultBoardSize(g), g)
  <2>1. CASE g = Go
    <3>1. GetDefaultBoardSize(g) = <<19, 19>>
      BY <2>1 DEF GetDefaultBoardSize, Go, Chess
    <3> QED BY <3>1 DEF IsValid
  <2>2. CASE g = Chess
    <3>1. GetDefaultBoardSize(g) = <<8, 8>>
      BY <2>2 DEF GetDefaultBoardSize, Go, Chess
    <3> QED BY <3>1 DEF IsValid
  <2>3. CASE g # Go /\ g # Chess
    <3>1. GetDefaultBoardSize(g) = BoardSizeNone
      BY <2>3 DEF GetDefaultBoardSize
    <3> QED BY <3>1 DEF BoardSizeNone
  <2> QED BY <2>1, <2>2, <2>3
<1>5. b \in Int \X Int /\ (b \in {BoardSizeNone, BoardSizeInvalid} \/ IsValid(b, g))
  <2> DEFINE size == <<p["SZ"][1], p["SZ"][Len(p["SZ"])]>>
  <2>1. CASE "SZ" \notin DOMAIN p \/ p["SZ"] = <<>>
    <3>1. b = GetDefaultBoardSize(g)
      BY <2>1 DEF GetBoardSize, g
    <3> QED BY <1>4, <3>1
  <2>2. CASE ~("SZ" \notin DOMAIN p \/ p["SZ"] = <<>>)
    <3>1. b = IF IsValid(size, g) THEN size ELSE BoardSizeInvalid
      BY <2>2 DEF GetBoardSize, g
    <3>2. size \in Int \X Int
      BY <1>2, <2>2
    <3> HIDE DEF size
    <3> QED BY <3>1, <3>2 DEF BoardSizeInvalid
  <2> QED BY <2>1, <2>2
<1> HIDE DEF b
<1>6. d \in GameInfoObjects
  BY DefaultOK DEF InfoOK
<1>7. /\ d.text = [t \in TextTypes |-> None] /\ d.value = [t \in TextTypes |-> "invalid"]
      /\ d.number = [t \in NumberTypes |-> 0]
  BY DEF DefaultGameInfo
<1>8. i = [d EXCEPT !.gameType = g, !.boardSize = b]
  BY DEF ReadFromRootNode, g, b
<1> HIDE DEF i, d
<1>9. /\ i \in GameInfoObjects /\ i.gameType = g /\ i.boardSize = b
      /\ i.text = d.text /\ i.value = d.value /\ i.number = d.number
  BY <1>3, <1>5, <1>6, <1>7, <1>8 DEF GameInfoObjects
<1>10. \A t \in PlainTypes : i.text[t] \in TextsOf(t)
  BY <1>7, <1>9, TextValues DEF PlainTypes
<1> QED BY <1>5, <1>7, <1>9, <1>10 DEF InfoOK, i, g, b

(* What reading the game info node adds.                                   *)
ReadAs(i, p, r) == r = ReadFromGameInfoNode(i, p)

Snapshot(i, p, r) ==
  /\ InfoOK(r) /\ r.gameType = i.gameType /\ r.boardSize = i.boardSize
  /\ r.text = [t \in TextTypes |-> GetSimpleTextPropertyValue(p, t)]
  /\ r.value = [t \in TextTypes |->
                  IF t \in Decomposed(i.gameType)
                  THEN FromPropertyValue(GetSimpleTextPropertyValue(p, t)) ELSE "invalid"]
  /\ r.number = [t \in NumberTypes |->
                   IF t \in NumbersOf(i.gameType) THEN GetNumberPropertyValue(p, t) ELSE 0]

LEMMA ReadNodeOK ==
  ASSUME NEW n, NEW p, NodeOK(p, n), NEW i, InfoOK(i),
         NEW r, ReadAs(i, p, r)
  PROVE  Snapshot(i, p, r)
<1> DEFINE text == [t \in TextTypes |-> GetSimpleTextPropertyValue(p, t)]
           value == [t \in TextTypes |->
                       IF t \in Decomposed(i.gameType)
                       THEN FromPropertyValue(GetSimpleTextPropertyValue(p, t)) ELSE "invalid"]
           number == [t \in NumberTypes |->
                        IF t \in NumbersOf(i.gameType) THEN GetNumberPropertyValue(p, t) ELSE 0]
<1>1. ASSUME NEW t \in TextTypes PROVE GetSimpleTextPropertyValue(p, t) \in TextsOf(t)
  BY TextValues DEF GetSimpleTextPropertyValue, NodeOK
<1>2. text \in [TextTypes -> Texts] /\ \A t \in PlainTypes : text[t] \in TextsOf(t)
  BY <1>1, TextValues DEF PlainTypes
<1>3. value \in [TextTypes -> DecomposedValues]
  BY DEF FromPropertyValue, DecomposedValues
<1>4. number \in [NumberTypes -> {0, 2}]
  <2>1. ASSUME NEW t \in NumberTypes PROVE GetNumberPropertyValue(p, t) \in {0, 2}
    BY NumberValues DEF GetNumberPropertyValue, NodeOK
  <2> QED BY <2>1
<1>5. \A t \in NumberTypes \ NumbersOf(i.gameType) : number[t] = 0
  OBVIOUS
<1>6. r = [i EXCEPT !.text = text, !.value = value, !.number = number]
  BY DEF ReadAs, ReadFromGameInfoNode
<1> HIDE DEF text, value, number
<1>7. /\ r \in GameInfoObjects /\ r.gameType = i.gameType /\ r.boardSize = i.boardSize
      /\ r.text = text /\ r.value = value /\ r.number = number
  BY <1>2, <1>3, <1>4, <1>6 DEF InfoOK, GameInfoObjects
<1>8. InfoOK(r)
  BY <1>2, <1>5, <1>7 DEF InfoOK
<1> QED BY <1>7, <1>8 DEF Snapshot, text, value, number

-----------------------------------------------------------------------------
(* Writing.                                                                *)

(* What a write leaves of the root node's properties.                      *)
WrittenRoot(p, q, i) ==
  /\ q = [t \in DOMAIN q |-> q[t]]
  /\ DOMAIN q = DOMAIN p \cup {"GM", "SZ"}
  /\ q["GM"] = <<i.gameType>>
  /\ q["SZ"] = IF i.boardSize[1] = i.boardSize[2] THEN <<i.boardSize[1]>> ELSE i.boardSize
  /\ \A t \in DOMAIN p \ {"GM", "SZ"} : q[t] = p[t]

LEMMA WriteRootOK ==
  ASSUME NEW p, NEW i
  PROVE  WrittenRoot(p, WriteToRootNode(p, i), i)
BY DEF WrittenRoot, WriteToRootNode, SetProperty

(* What a write leaves of the game info node's properties.                 *)
WrittenNode(p, q, i) ==
  /\ q = [t \in DOMAIN q |-> q[t]]
  /\ DOMAIN q \subseteq DOMAIN p \cup WrittenTypes(i)
  /\ \A t \in DOMAIN p \ WrittenTypes(i) : t \in DOMAIN q /\ q[t] = p[t]
  /\ \A t \in WrittenTypes(i) : /\ t \in DOMAIN q <=> ~IsDefault(i, t)
                                /\ t \in DOMAIN q => q[t] = CreateProperty(i, t)

LEMMA WriteNodeOK ==
  ASSUME NEW p, NEW i
  PROVE  WrittenNode(p, WriteToGameInfoNode(p, i), i)
BY DEF WrittenNode, WriteToGameInfoNode

LEMMA TypesWritten ==
  ASSUME NEW i
  PROVE  /\ WrittenTypes(i) \subseteq GameInfoTypes
         /\ "GM" \notin WrittenTypes(i) /\ "SZ" \notin WrittenTypes(i)
         /\ \A t \in WrittenTypes(i) \ TextTypes : t \in NumberTypes /\ t \in NumbersOf(i.gameType)
BY PropertyTypes DEF WrittenTypes

LEMMA WrittenRootTypes ==
  ASSUME NEW p, NodeOK(p, Root), NEW i, InfoOK(i), NEW q, WrittenRoot(p, q, i)
  PROVE  NodeOK(q, Root)
<1>1. i.gameType \in Int /\ i.boardSize \in Int \X Int
  BY DEF InfoOK, GameInfoObjects
<1>2. ValuesOf("GM") = Seq(Int) /\ ValuesOf("SZ") = Seq(Int)
  BY RootValues
<1>3. q["GM"] \in Seq(Int)
  BY <1>1 DEF WrittenRoot
<1>4. q["SZ"] \in Seq(Int)
  <2>1. PICK a \in Int, b \in Int : i.boardSize = <<a, b>>
    BY <1>1
  <2>2. q["SZ"] = IF a = b THEN <<a>> ELSE <<a, b>>
    BY <2>1 DEF WrittenRoot
  <2> QED BY <2>2
<1>5. \A t \in DOMAIN q : q[t] \in ValuesOf(t)
  BY <1>2, <1>3, <1>4 DEF WrittenRoot, NodeOK
<1>6. DOMAIN q \subseteq GameInfoTypes \cup {"GM", "SZ"}
  BY DEF WrittenRoot, NodeOK
<1> QED BY <1>5, <1>6 DEF WrittenRoot, NodeOK

LEMMA WrittenNodeTypes ==
  ASSUME NEW n, NEW p, NodeOK(p, n), NEW i, InfoOK(i), NEW q, WrittenNode(p, q, i)
  PROVE  NodeOK(q, n)
<1>1. ASSUME NEW t \in DOMAIN q PROVE q[t] \in ValuesOf(t)
  <2>1. CASE t \in TextTypes
    <3>1. q[t] = i.text[t] /\ i.text[t] # None
      BY <2>1 DEF WrittenNode, WrittenTypes, IsDefault, CreateProperty
    <3>2. i.text[t] \in TextsOf(t)
      <4>1. CASE t \in PlainTypes
        BY <4>1 DEF InfoOK
      <4>2. CASE t \notin PlainTypes
        <5>1. i.text[t] \in Texts
          BY <2>1 DEF InfoOK, GameInfoObjects
        <5>2. TextsOf(t) = Texts
          BY <2>1, <4>2 DEF TextsOf, PlainTypes
        <5> QED BY <5>1, <5>2
      <4> QED BY <4>1, <4>2
    <3> QED BY <2>1, <3>1, <3>2, TextValues
  <2>2. CASE t \in WrittenTypes(i) \ TextTypes
    <3>1. t \in NumberTypes
      BY <2>2, TypesWritten
    <3>2. i.number[t] \in {0, 2}
      BY <3>1 DEF InfoOK, GameInfoObjects
    <3>3. q[t] = <<i.number[t]>> /\ i.number[t] # 0
      BY <2>2 DEF WrittenNode, IsDefault, CreateProperty
    <3> QED BY <3>1, <3>2, <3>3, NumberValues
  <2>3. CASE t \notin WrittenTypes(i)
    <3>1. t \in DOMAIN p /\ q[t] = p[t]
      BY <2>3 DEF WrittenNode
    <3> QED BY <3>1 DEF NodeOK
  <2> QED BY <2>1, <2>2, <2>3 DEF WrittenTypes
<1>2. DOMAIN q \subseteq GameInfoTypes \cup IF n = Root THEN {"GM", "SZ"} ELSE {}
  BY TypesWritten DEF WrittenNode, NodeOK
<1> QED BY <1>1, <1>2 DEF WrittenNode, NodeOK

(* The node before it is written as a game info node: the root node has    *)
(* been written as such.                                                   *)
Before(props, n, i) == IF n = Root THEN WriteToRootNode(props[Root], i) ELSE props[n]

(* Both nodes, which may be one.                                           *)
BothWritten(k, p, n, i, q) ==
  /\ q = [m \in 1 .. k |-> q[m]]
  /\ WrittenNode(Before(p, n, i), q[n], i)
  /\ n # Root => WrittenRoot(p[Root], q[Root], i)
  /\ \A m \in 1 .. k \ {Root, n} : q[m] = p[m]

LEMMA WriteGameInfoOK ==
  ASSUME NEW k \in Nat \ {0}, NEW p, p = [m \in 1 .. k |-> p[m]], NEW n \in 1 .. k, NEW i
  PROVE  BothWritten(k, p, n, i, WriteGameInfo(p, n, i))
<1> DEFINE r == WriteToRootNode(p[Root], i)
           withRoot == [p EXCEPT ![Root] = r]
           before == IF n = Root THEN r ELSE p[n]
           w == WriteToGameInfoNode(before, i)
           q == WriteGameInfo(p, n, i)
<1>1. Root \in 1 .. k
  BY DEF Root
<1>2. WrittenRoot(p[Root], r, i) /\ WrittenNode(before, w, i)
  BY WriteRootOK, WriteNodeOK
<1>3. q = [withRoot EXCEPT ![n] = WriteToGameInfoNode(@, i)]
  BY DEF WriteGameInfo
<1> HIDE DEF r, w, q
<1>4. withRoot = [m \in 1 .. k |-> IF m = Root THEN r ELSE p[m]]
  OBVIOUS
<1>5. withRoot[n] = before
  BY <1>4
<1> HIDE DEF before, withRoot
<1>6. q = [m \in 1 .. k |-> IF m = n THEN w ELSE withRoot[m]]
  BY <1>3, <1>4, <1>5 DEF w
<1>7. /\ q = [m \in 1 .. k |-> q[m]] /\ q[n] = w
      /\ n # Root => q[Root] = r
      /\ \A m \in 1 .. k \ {Root, n} : q[m] = p[m]
  BY <1>1, <1>4, <1>6
<1> QED BY <1>2, <1>7 DEF before, r, q, BothWritten, Before

LEMMA WriteTypes ==
  ASSUME NEW par, NEW props, GameOK(par, props), NEW n \in DOMAIN par, NEW i, InfoOK(i)
  PROVE  GameOK(par, WriteGameInfo(props, n, i))
<1> DEFINE k == Len(par)
           q == WriteGameInfo(props, n, i)
           r == WriteToRootNode(props[Root], i)
           before == Before(props, n, i)
<1>1. k \in Nat /\ DOMAIN par = 1 .. k
  BY TreeParents DEF GameOK
<1>2. k \in Nat \ {0} /\ n \in 1 .. k /\ Root \in 1 .. k
  BY <1>1 DEF Root
<1>3. props = [m \in 1 .. k |-> props[m]] /\ \A m \in 1 .. k : NodeOK(props[m], m)
  BY <1>1 DEF GameOK
<1>4. /\ q = [m \in 1 .. k |-> q[m]]
      /\ WrittenNode(before, q[n], i)
      /\ n # Root => WrittenRoot(props[Root], q[Root], i)
      /\ \A m \in 1 .. k \ {Root, n} : q[m] = props[m]
  <2> HIDE DEF k
  <2>1. BothWritten(k, props, n, i, q)
    BY <1>2, <1>3, WriteGameInfoOK
  <2> HIDE DEF q, before
  <2> QED BY <2>1 DEF BothWritten, before
<1>5. NodeOK(r, Root)
  BY <1>2, <1>3, WriteRootOK, WrittenRootTypes
<1> HIDE DEF q, r, k
<1>6. NodeOK(before, n)
  BY <1>2, <1>3, <1>5 DEF Before, r
<1> HIDE DEF before
<1>7. NodeOK(q[n], n)
  BY <1>4, <1>6, WrittenNodeTypes
<1>8. n # Root => NodeOK(q[Root], Root)
  BY <1>2, <1>3, <1>4, WrittenRootTypes
<1>9. \A m \in 1 .. k : NodeOK(q[m], m)
  BY <1>3, <1>4, <1>7, <1>8
<1> QED BY <1>1, <1>4, <1>9 DEF GameOK, q

-----------------------------------------------------------------------------
(* The values of a decomposed text that a game info object returns.        *)

AllAgree(i) == \A t \in Decomposed(i.gameType) : Agrees(i, t)

(* All of them but the ranks, of which one may not.                        *)
RanksAside(i) == \A t \in Decomposed(i.gameType) \ Ranks : Agrees(i, t)

(* What a step from object i to object j may do to them.                   *)
SetsWhiteRank == \E text \in Texts : SetText("WR", text)

Follows(i, j) ==
  j # NoInfo =>
    \A t \in Decomposed(j.gameType) :
      \/ Agrees(j, t)
      \/ /\ t \in Ranks /\ i # NoInfo
         /\ SetsWhiteRank \/ (j.text[t] = i.text[t] /\ j.value[t] = i.value[t])

LEMMA DecomposedTypes ==
  ASSUME NEW g
  PROVE  /\ Decomposed(g) \subseteq TextTypes /\ Decomposed(g) \cap PlainTypes = {}
         /\ "BR" \in Decomposed(g) => g = Go
BY DEF Decomposed, Ranks

(* A text that was read has the value that it is decomposed into.          *)
LEMMA ReadTextAgrees ==
  ASSUME NEW i, NEW t, i.value[t] = FromPropertyValue(i.text[t])
  PROVE  Agrees(i, t)
<1>1. FromPropertyValue(i.text[t]) \notin OneWay
  BY DEF FromPropertyValue, OneWay
<1> QED BY <1>1 DEF Agrees

LEMMA DefaultAgrees == AllAgree(DefaultGameInfo)
<1> DEFINE d == DefaultGameInfo
<1>1. d.text = [t \in TextTypes |-> None] /\ d.value = [t \in TextTypes |-> "invalid"]
  BY DEF DefaultGameInfo
<1> HIDE DEF d
<1>2. \A t \in Decomposed(d.gameType) : d.value[t] = FromPropertyValue(d.text[t])
  BY <1>1, DecomposedTypes DEF FromPropertyValue, None
<1> QED BY <1>2, ReadTextAgrees DEF AllAgree, d

(* An object in which the property t was set, or none.                     *)
LEMMA OneSetFollows ==
  ASSUME NEW i, i # NoInfo, NEW j, j.gameType = i.gameType, NEW t,
         \A s \in TextTypes : s # t => j.text[s] = i.text[s] /\ j.value[s] = i.value[s],
         t \in Decomposed(i.gameType) => Agrees(j, t),
         RanksAside(i)
  PROVE  Follows(i, j)
<1> SUFFICES ASSUME NEW s \in Decomposed(j.gameType), s # t
             PROVE  \/ Agrees(j, s)
                    \/ s \in Ranks /\ j.text[s] = i.text[s] /\ j.value[s] = i.value[s]
  BY DEF Follows
<1>1. j.text[s] = i.text[s] /\ j.value[s] = i.value[s]
  BY DecomposedTypes
<1>2. s \notin Ranks => Agrees(i, s)
  BY DEF RanksAside
<1> QED BY <1>1, <1>2 DEF Agrees

(* The nodes that the two searches find.                                   *)
LEMMA FoundNodes ==
  ASSUME GameOK(parent, properties)
  PROVE  /\ \/ GetFirstGameInfoNode = Null /\ \A n \in Nodes : ~HasGameInfo(n)
            \/ GetFirstGameInfoNode \in Nodes /\ HasGameInfo(GetFirstGameInfoNode)
         /\ \A n \in Nodes :
              \/ GetGameInfoNode(n) = Null /\ \A m \in Path(parent, n) : ~HasGameInfo(m)
              \/ /\ GetGameInfoNode(n) \in Path(parent, n) /\ GetGameInfoNode(n) \in Nodes
                 /\ HasGameInfo(GetGameInfoNode(n))
<1> DEFINE k == Len(parent)
           found == {n \in Nodes : HasGameInfo(n)}
<1>1. k \in Nat /\ Nodes = 1 .. k /\ parent \in Trees(k)
  BY TreeParents DEF GameOK, Nodes
<1>2. found # {} => Min(found) \in found
  <2>1. found \subseteq Nat
    BY <1>1
  <2> HIDE DEF found
  <2> QED BY <2>1, MinMember
<1>3. ASSUME NEW n \in Nodes
      PROVE  LET above == {m \in Path(parent, n) : HasGameInfo(m)}
             IN  /\ above \in SUBSET Nodes
                 /\ above # {} => Max(above) \in above
  <2> DEFINE above == {m \in Path(parent, n) : HasGameInfo(m)}
  <2> HIDE DEF k
  <2>1. above \in SUBSET (1 .. k)
    BY <1>1, PathNodes
  <2> HIDE DEF above
  <2>2. above # {} => Max(above) \in above
    BY <1>1, <2>1, MaxMember
  <2> QED BY <1>1, <2>1, <2>2 DEF above
<1>4. GetFirstGameInfoNode = IF found = {} THEN Null ELSE Min(found)
  BY DEF GetFirstGameInfoNode
<1> QED BY <1>2, <1>3, <1>4, Zenon DEF GetGameInfoNode

(* What a game info object made from the nodes is.                         *)
LEMMA CreateOK ==
  ASSUME GameOK(parent, properties), parent # <<>>, NEW n \in Nodes \cup {Null}
  PROVE  LET i == CreateGameInfo(n)
         IN  i = NoInfo \/ (InfoOK(i) /\ AllAgree(i))
<1> DEFINE root == ReadFromRootNode(properties[Root])
           node == ReadFromGameInfoNode(root, properties[n])
<1>1. Root \in Nodes /\ \A m \in Nodes : NodeOK(properties[m], m)
  BY TreeParents DEF GameOK, Nodes, Root
<1>2. InfoOK(root) /\ AllAgree(root)
  <2>1. /\ InfoOK(root)
        /\ root.text = [t \in TextTypes |-> None] /\ root.value = [t \in TextTypes |-> "invalid"]
    BY <1>1, ReadRootOK
  <2> HIDE DEF root
  <2>2. \A t \in Decomposed(root.gameType) : root.value[t] = FromPropertyValue(root.text[t])
    BY <2>1, DecomposedTypes DEF FromPropertyValue, None
  <2> QED BY <2>1, <2>2, ReadTextAgrees DEF AllAgree
<1>3. ASSUME n \in Nodes PROVE InfoOK(node) /\ AllAgree(node)
  <2> HIDE DEF root
  <2>0. NodeOK(properties[n], n)
    BY <1>1, <1>3
  <2>1. ReadAs(root, properties[n], node)
    BY DEF ReadAs
  <2> HIDE DEF node
  <2>2. /\ InfoOK(node) /\ node.gameType = root.gameType
        /\ node.text = [t \in TextTypes |-> GetSimpleTextPropertyValue(properties[n], t)]
        /\ node.value = [t \in TextTypes |->
                           IF t \in Decomposed(root.gameType)
                           THEN FromPropertyValue(GetSimpleTextPropertyValue(properties[n], t))
                           ELSE "invalid"]
    <3>1. Snapshot(root, properties[n], node)
      BY <1>2, <2>0, <2>1, ReadNodeOK
    <3> QED BY <3>1 DEF Snapshot
  <2>3. \A t \in Decomposed(node.gameType) : node.value[t] = FromPropertyValue(node.text[t])
    BY <2>2, DecomposedTypes, Zenon
  <2> QED BY <2>2, <2>3, ReadTextAgrees DEF AllAgree
<1> HIDE DEF root, node
<1>4. CreateGameInfo(n) \in {root, node, NoInfo} /\ (n = Null => CreateGameInfo(n) = root)
  BY DEF CreateGameInfo, root, node
<1> QED BY <1>2, <1>3, <1>4

LEMMA ObtainedOK ==
  ASSUME GameOK(parent, properties)
  PROVE  /\ GameInfoOfGame = NoInfo \/ (InfoOK(GameInfoOfGame) /\ AllAgree(GameInfoOfGame))
         /\ \A n \in Nodes :
              GameInfoOfNode(n) = NoInfo \/ (InfoOK(GameInfoOfNode(n)) /\ AllAgree(GameInfoOfNode(n)))
<1>1. GetFirstGameInfoNode \in Nodes \cup {Null}
  BY FoundNodes
<1>2. \A n \in Nodes : GetGameInfoNode(n) \in Nodes \cup {Null}
  BY FoundNodes
<1>3. parent = <<>> => Nodes = {}
  BY DEF Nodes
<1>4. CASE parent = <<>>
  BY <1>3, <1>4, DefaultOK, DefaultAgrees DEF GameInfoOfGame
<1>5. CASE parent # <<>>
  BY <1>1, <1>2, <1>5, CreateOK, Zenon DEF GameInfoOfGame, GameInfoOfNode
<1> QED BY <1>4, <1>5

-----------------------------------------------------------------------------
(* Every step keeps the types.                                             *)

LEMMA InitTypes == Init => Types
<1> SUFFICES ASSUME Init PROVE Types
  OBVIOUS
<1>1. PICK k \in 0 .. MaxNode :
        /\ parent \in Trees(k)
        /\ \E p \in RootProperties :
             properties = [n \in 1 .. k |-> IF n = Root THEN p ELSE NoProperties]
  BY DEF Init
<1>2. PICK p \in RootProperties :
        properties = [n \in 1 .. k |-> IF n = Root THEN p ELSE NoProperties]
  BY <1>1
<1>3. k \in Nat /\ Len(parent) = k /\ DOMAIN parent = 1 .. k /\ k <= MaxNode
  BY <1>1, TreeParents, GameInfoAssumption
<1>4. NodeOK(p, Root)
  <2>1. /\ p = [t \in DOMAIN p |-> p[t]] /\ DOMAIN p \subseteq {"GM", "SZ"}
        /\ "GM" \in DOMAIN p => p["GM"] \in GameTypes
        /\ "SZ" \in DOMAIN p => p["SZ"] \in BoardSizes
    BY DEF RootProperties
  <2>2. \A t \in DOMAIN p : p[t] \in Seq(Int)
    BY <2>1, GameInfoAssumption
  <2> QED BY <2>1, <2>2, RootValues DEF NodeOK
<1>5. ASSUME NEW n \in 1 .. k PROVE NodeOK(properties[n], n)
  <2>1. CASE n = Root
    BY <1>2, <1>4, <2>1
  <2>2. CASE n # Root
    BY <1>2, <2>2 DEF NoProperties, NodeOK
  <2> QED BY <2>1, <2>2
<1>6. GameOK(parent, properties)
  BY <1>1, <1>2, <1>3, <1>5 DEF GameOK
<1>7. CallOK(last, info) /\ info = NoInfo /\ edits \in 0 .. MaxEdit
  BY GameInfoAssumption DEF Init, CallOK
<1> QED BY <1>6, <1>7 DEF Types

(* The client edits one property.                                          *)
LEMMA EditTypes ==
  ASSUME GameOK(parent, properties), NEW n \in Nodes, NEW t \in GameInfoTypes,
         EditGameInfoProperty(n, t)
  PROVE  GameOK(parent, properties')
<1> DEFINE p == properties[n]
<1>1. properties = [m \in Nodes |-> properties[m]] /\ \A m \in Nodes : NodeOK(properties[m], m)
  BY DEF GameOK, Nodes
<1>2. ASSUME NEW q, NodeOK(q, n), properties' = [properties EXCEPT ![n] = q]
      PROVE  GameOK(parent, properties')
  <2>1. properties' = [m \in Nodes |-> IF m = n THEN q ELSE properties[m]]
    BY <1>1, <1>2
  <2> QED BY <1>1, <1>2, <2>1 DEF GameOK, Nodes
<1>3. NodeOK(p, n)
  BY <1>1
<1>4. \A v \in ValuesOf(t) : NodeOK(SetProperty(p, t, v), n)
  BY <1>3 DEF NodeOK, SetProperty
<1>5. NodeOK(RemovePropertyFromNodeIfExists(p, t), n)
  BY <1>3 DEF NodeOK, RemovePropertyFromNodeIfExists, Restrict
<1>6. CASE \E v \in EditValues(t) : properties' = [properties EXCEPT ![n] = SetProperty(@, t, v)]
  <2>1. PICK v \in EditValues(t) : properties' = [properties EXCEPT ![n] = SetProperty(p, t, v)]
    BY <1>6
  <2>2. v \in ValuesOf(t)
    BY DEF EditValues
  <2> QED BY <1>2, <1>4, <2>1, <2>2
<1>7. CASE properties' = [properties EXCEPT ![n] = RemovePropertyFromNodeIfExists(@, t)]
  <2>1. properties' = [properties EXCEPT ![n] = RemovePropertyFromNodeIfExists(p, t)]
    BY <1>7
  <2> QED BY <1>2, <1>5, <2>1
<1> QED BY <1>6, <1>7 DEF EditGameInfoProperty

(* The game without a root node is given one.                              *)
LEMMA NewRootOK == GameOK(<<Null>>, <<NoProperties>>)
<1>1. <<Null>> \in Trees(1) /\ Len(<<Null>>) = 1 /\ DOMAIN <<Null>> = 1 .. 1
  BY DEF Trees, Null, Root
<1>2. \A n \in 1 .. 1 : NodeOK(<<NoProperties>>[n], n)
  BY DEF NodeOK, NoProperties
<1>3. <<NoProperties>> = [n \in 1 .. 1 |-> <<NoProperties>>[n]]
  OBVIOUS
<1> QED BY <1>1, <1>2, <1>3 DEF GameOK

(* The client changes its object i, which becomes j.                       *)
Becomes(i, j, text, value, number) ==
  j = [i EXCEPT !.text = text, !.value = value, !.number = number]

LEMMA ChangedInfo ==
  ASSUME NEW i, InfoOK(i), NEW text, text \in [TextTypes -> Texts],
         \A t \in PlainTypes : text[t] \in TextsOf(t),
         NEW value, value \in [TextTypes -> DecomposedValues],
         NEW number, number \in [NumberTypes -> {0, 2}],
         \A t \in NumberTypes \ NumbersOf(i.gameType) : number[t] = 0,
         NEW j, Becomes(i, j, text, value, number)
  PROVE  /\ InfoOK(j) /\ j.gameType = i.gameType /\ j.text = text /\ j.value = value
<1>1. /\ j \in GameInfoObjects /\ j.gameType = i.gameType /\ j.boardSize = i.boardSize
      /\ j.text = text /\ j.value = value /\ j.number = number
  BY DEF Becomes, InfoOK, GameInfoObjects
<1> QED BY <1>1 DEF InfoOK

LEMMA InfoFields ==
  ASSUME NEW i, InfoOK(i)
  PROVE  /\ i.text \in [TextTypes -> Texts] /\ \A t \in PlainTypes : i.text[t] \in TextsOf(t)
         /\ i.value \in [TextTypes -> DecomposedValues]
         /\ i.number \in [NumberTypes -> {0, 2}]
         /\ \A t \in NumberTypes \ NumbersOf(i.gameType) : i.number[t] = 0
         /\ i.gameType \in Int /\ i.boardSize \in Int \X Int
         /\ i = [gameType |-> i.gameType, boardSize |-> i.boardSize, text |-> i.text,
                 value |-> i.value, number |-> i.number]
BY DEF InfoOK, GameInfoObjects

LEMMA SetDecomposedOK ==
  ASSUME InfoOK(info), NEW t \in TextTypes, NEW v \in DecomposedValues, SetDecomposed(t, v)
  PROVE  InfoOK(info') /\ (RanksAside(info) => Follows(info, info'))
<1> DEFINE text == [info.text EXCEPT ![t] = ToPropertyValue(v)]
           value == [info.value EXCEPT ![t] = v]
<1>1. t \in Decomposed(info.gameType) /\ t \notin PlainTypes /\ info # NoInfo
  BY DecomposedTypes DEF SetDecomposed
<1>2. info' = [info EXCEPT !.value[t] = v, !.text[t] = ToPropertyValue(v)]
  BY DEF SetDecomposed
<1>3. Becomes(info, info', text, value, info.number)
  BY <1>2, InfoFields DEF Becomes
<1>4. ToPropertyValue(v) \in Texts
  BY DEF ToPropertyValue, Texts, DecomposedValues, OneWay
<1>5. text \in [TextTypes -> Texts] /\ \A s \in PlainTypes : text[s] \in TextsOf(s)
  BY <1>1, <1>4, InfoFields
<1>6. value \in [TextTypes -> DecomposedValues]
  BY InfoFields
<1>7. /\ InfoOK(info') /\ info'.gameType = info.gameType
      /\ info'.text = text /\ info'.value = value
  <2> HIDE DEF text, value
  <2> QED BY <1>3, <1>5, <1>6, InfoFields, ChangedInfo
<1>8. text[t] = ToPropertyValue(v) /\ value[t] = v
  BY InfoFields
<1>9. v \in OneWay \/ v = FromPropertyValue(ToPropertyValue(v))
  BY DEF FromPropertyValue, ToPropertyValue, DecomposedValues, OneWay, None
<1>10. \A s \in TextTypes : s # t => text[s] = info.text[s] /\ value[s] = info.value[s]
  BY InfoFields
<1> HIDE DEF text, value
<1>11. Agrees(info', t)
  BY <1>7, <1>8, <1>9 DEF Agrees
<1> QED BY <1>1, <1>7, <1>10, <1>11, OneSetFollows

(* The text of the black player's rank sets that player's value, the one   *)
(* of the white player's as well.                                          *)
LEMMA SetTextOK ==
  ASSUME InfoOK(info), NEW t \in TextTypes, NEW text \in Texts, SetText(t, text)
  PROVE  InfoOK(info') /\ (RanksAside(info) => Follows(info, info'))
<1> DEFINE texts == [info.text EXCEPT ![t] = text]
           changed == [info EXCEPT !.text[t] = text]
           converts == IsGo(info) /\ ~Throws(text)
           value == IF converts THEN [info.value EXCEPT !["BR"] = FromPropertyValue(text)] ELSE info.value
<1>1. t \in {"BR", "WR"} /\ t \in Ranks /\ text \in TextsOf(t) /\ t \notin PlainTypes /\ info # NoInfo
  BY DEF SetText, Ranks, PlainTypes
<1>2. info' = IF converts THEN [changed EXCEPT !.value["BR"] = FromPropertyValue(text)] ELSE changed
  BY DEF SetText
<1>3. Becomes(info, info', texts, value, info.number)
  <2>1. CASE converts
    BY <1>2, <2>1, InfoFields DEF Becomes
  <2>2. CASE ~converts
    BY <1>2, <2>2, InfoFields DEF Becomes
  <2> QED BY <2>1, <2>2
<1>4. texts \in [TextTypes -> Texts] /\ \A s \in PlainTypes : texts[s] \in TextsOf(s)
  BY <1>1, InfoFields
<1>5. value \in [TextTypes -> DecomposedValues]
  BY InfoFields DEF FromPropertyValue, DecomposedValues
<1>6. /\ InfoOK(info') /\ info'.gameType = info.gameType
      /\ info'.text = texts /\ info'.value = value
  <2> HIDE DEF texts, value
  <2> QED BY <1>3, <1>4, <1>5, InfoFields, ChangedInfo
<1>7. CASE t = "BR"
  <2>1. \A s \in TextTypes : s # t => texts[s] = info.text[s] /\ value[s] = info.value[s]
    BY <1>7, InfoFields
  <2>2. texts[t] = text /\ (converts => value[t] = FromPropertyValue(text))
    BY <1>7, InfoFields
  <2>3. t \in Decomposed(info.gameType) => IsGo(info)
    BY <1>7, DecomposedTypes DEF IsGo
  <2> HIDE DEF texts, value
  <2>4. t \in Decomposed(info.gameType) => Agrees(info', t)
    <3>1. CASE Throws(text)
      BY <1>6, <2>2, <3>1 DEF Agrees
    <3>2. CASE ~Throws(text)
      BY <1>6, <2>2, <2>3, <3>2, ReadTextAgrees
    <3> QED BY <3>1, <3>2
  <2> QED BY <1>1, <1>6, <2>1, <2>4, OneSetFollows
<1>8. CASE t = "WR"
  <2>1. SetsWhiteRank
    BY <1>8 DEF SetsWhiteRank
  <2>2. \A s \in TextTypes \ Ranks : texts[s] = info.text[s] /\ value[s] = info.value[s]
    BY <1>1, InfoFields DEF Ranks
  <2> HIDE DEF texts, value
  <2>3. ASSUME RanksAside(info), NEW s \in Decomposed(info.gameType), s \notin Ranks
        PROVE  Agrees(info', s)
    <3>1. Agrees(info, s) /\ s \in TextTypes
      BY <2>3, DecomposedTypes DEF RanksAside
    <3> QED BY <1>6, <2>2, <2>3, <3>1 DEF Agrees
  <2> QED BY <1>1, <1>6, <2>1, <2>3 DEF Follows
<1> QED BY <1>1, <1>7, <1>8

LEMMA SetPlainTextOK ==
  ASSUME InfoOK(info), NEW t \in TextTypes, NEW text \in Texts, SetPlainText(t, text)
  PROVE  InfoOK(info') /\ (RanksAside(info) => Follows(info, info'))
<1> DEFINE texts == [info.text EXCEPT ![t] = text]
<1>1. t \in PlainTypes /\ text \in TextsOf(t) /\ info # NoInfo
  BY DEF SetPlainText
<1>2. info' = [info EXCEPT !.text[t] = text]
  BY DEF SetPlainText
<1>3. Becomes(info, info', texts, info.value, info.number)
  BY <1>2, InfoFields DEF Becomes
<1>4. texts \in [TextTypes -> Texts] /\ \A s \in PlainTypes : texts[s] \in TextsOf(s)
  BY <1>1, InfoFields
<1>5. \A s \in TextTypes : s # t => texts[s] = info.text[s]
  BY InfoFields
<1>6. t \notin Decomposed(info.gameType)
  BY <1>1, DecomposedTypes
<1> HIDE DEF texts
<1>7. /\ InfoOK(info') /\ info'.gameType = info.gameType
      /\ info'.text = texts /\ info'.value = info.value
  BY <1>3, <1>4, InfoFields, ChangedInfo
<1> QED BY <1>1, <1>5, <1>6, <1>7, OneSetFollows

LEMMA SetNumberOK ==
  ASSUME InfoOK(info), NEW t \in NumberTypes, NEW k \in {0, 2}, SetNumber(t, k)
  PROVE  InfoOK(info') /\ (RanksAside(info) => Follows(info, info'))
<1> DEFINE number == [info.number EXCEPT ![t] = k]
<1>1. info' = [info EXCEPT !.number[t] = k] /\ t \in NumbersOf(info.gameType) /\ info # NoInfo
  BY DEF SetNumber
<1>2. Becomes(info, info', info.text, info.value, number)
  BY <1>1, InfoFields DEF Becomes
<1>3. /\ number \in [NumberTypes -> {0, 2}]
      /\ \A s \in NumberTypes \ NumbersOf(info.gameType) : number[s] = 0
  BY <1>1, InfoFields
<1> HIDE DEF number
<1>4. /\ InfoOK(info') /\ info'.gameType = info.gameType
      /\ info'.text = info.text /\ info'.value = info.value
  BY <1>2, <1>3, InfoFields, ChangedInfo
<1>5. t \notin Decomposed(info.gameType)
  BY PropertyTypes, DecomposedTypes
<1> QED BY <1>1, <1>4, <1>5, OneSetFollows

(* What the client's object is: none, or one of those above.               *)
ObjectOK(i) == i = NoInfo \/ InfoOK(i)
ObjectAgrees(i) == i = NoInfo \/ RanksAside(i)

LEMMA FollowsAgrees ==
  ASSUME NEW i, NEW j, Follows(i, j)
  PROVE  ObjectAgrees(j)
BY DEF Follows, ObjectAgrees, RanksAside

LEMMA AllAgreeFollows ==
  ASSUME NEW i, NEW j, AllAgree(j)
  PROVE  Follows(i, j)
BY DEF AllAgree, Follows

LEMMA SameFollows ==
  ASSUME NEW i, ObjectAgrees(i)
  PROVE  Follows(i, i)
BY DEF Follows, ObjectAgrees, RanksAside

LEMMA NextTypes ==
  ASSUME Types, [Next]_vars
  PROVE  /\ Types'
         /\ ObjectAgrees(info) => Follows(info, info')
<1> USE DEF ObjectOK
<1> DEFINE Goal == /\ GameOK(parent', properties') /\ ObjectOK(info') /\ CallOK(last', info')
                   /\ edits' \in 0 .. MaxEdit
                   /\ ObjectAgrees(info) => Follows(info, info')
<1>1. /\ GameOK(parent, properties) /\ ObjectOK(info) /\ CallOK(last, info)
      /\ edits \in 0 .. MaxEdit /\ MaxEdit \in Nat
  BY GameInfoAssumption DEF Types
<1>2. ASSUME Edit PROVE edits' \in 0 .. MaxEdit
  BY <1>1, <1>2 DEF Edit
<1>3. ASSUME NEW call, NEW n, NEW r \in {"ok", "invalid_argument", "logic_error"}, Finish(call, n, r)
      PROVE  CallOK(last', info')
  BY <1>3 DEF Finish, CallOK
<1>4. ASSUME NEW n \in Nodes, NEW t \in GameInfoTypes, EditGameInfoProperty(n, t) PROVE Goal
  <2>1. GameOK(parent, properties') /\ parent' = parent /\ info' = info
    BY <1>1, <1>4, EditTypes DEF EditGameInfoProperty
  <2>2. Edit /\ Finish("edit", Null, "ok")
    BY <1>4 DEF EditGameInfoProperty
  <2>3. edits' \in 0 .. MaxEdit /\ CallOK(last', info')
    BY <1>2, <1>3, <2>2
  <2> QED BY <1>1, <2>1, <2>3, SameFollows
<1>5. ASSUME NewGameInfo PROVE Goal
  <2>1. InfoOK(info') /\ Follows(info, info')
    BY <1>5, DefaultOK, DefaultAgrees, AllAgreeFollows DEF NewGameInfo
  <2>2. CallOK(last', info')
    BY <1>3, <1>5 DEF NewGameInfo
  <2>3. UNCHANGED <<parent, properties, edits>>
    BY <1>5 DEF NewGameInfo
  <2> QED BY <1>1, <2>1, <2>2, <2>3
<1>6. ASSUME NEW n, NEW i, Obtain(n, i), i = NoInfo \/ (InfoOK(i) /\ AllAgree(i)) PROVE Goal
  <2>1. info' = IF i = NoInfo THEN info ELSE i
    BY <1>6 DEF Obtain
  <2>2. CallOK(last', info')
    BY <1>3, <1>6 DEF Obtain
  <2>3. UNCHANGED <<parent, properties, edits>>
    BY <1>6 DEF Obtain
  <2>4. ObjectAgrees(info) => Follows(info, info')
    BY <1>6, <2>1, SameFollows, AllAgreeFollows
  <2> QED BY <1>1, <1>6, <2>1, <2>2, <2>3, <2>4
<1>7. ASSUME GameCreateGameInfo PROVE Goal
  BY <1>1, <1>6, <1>7, ObtainedOK DEF GameCreateGameInfo
<1>8. ASSUME NEW n \in Nodes, NodeCreateGameInfo(n) PROVE Goal
  BY <1>1, <1>6, <1>8, ObtainedOK DEF NodeCreateGameInfo
<1>9. ASSUME NEW t \in TextTypes, NEW v \in DecomposedValues, SetDecomposed(t, v) PROVE Goal
  <2>1. info # NoInfo /\ Edit /\ Finish("edit", Null, "ok") /\ UNCHANGED <<parent, properties>>
    BY <1>9 DEF SetDecomposed
  <2>2. InfoOK(info') /\ (RanksAside(info) => Follows(info, info'))
    BY <1>1, <1>9, <2>1, SetDecomposedOK
  <2>3. edits' \in 0 .. MaxEdit /\ CallOK(last', info')
    BY <1>2, <1>3, <2>1
  <2> QED BY <1>1, <2>1, <2>2, <2>3 DEF ObjectAgrees
<1>10. ASSUME NEW t \in TextTypes, NEW text \in Texts, SetText(t, text) PROVE Goal
  <2>1. /\ info # NoInfo /\ Edit /\ UNCHANGED <<parent, properties>>
        /\ Finish("edit", Null, "ok") \/ Finish("edit", Null, "logic_error")
    BY <1>10 DEF SetText
  <2>2. InfoOK(info') /\ (RanksAside(info) => Follows(info, info'))
    BY <1>1, <1>10, <2>1, SetTextOK
  <2>3. edits' \in 0 .. MaxEdit /\ CallOK(last', info')
    BY <1>2, <1>3, <2>1
  <2> QED BY <1>1, <2>1, <2>2, <2>3 DEF ObjectAgrees
<1>11. ASSUME NEW t \in TextTypes, NEW text \in Texts, SetPlainText(t, text) PROVE Goal
  <2>1. info # NoInfo /\ Edit /\ Finish("edit", Null, "ok") /\ UNCHANGED <<parent, properties>>
    BY <1>11 DEF SetPlainText
  <2>2. InfoOK(info') /\ (RanksAside(info) => Follows(info, info'))
    BY <1>1, <1>11, <2>1, SetPlainTextOK
  <2>3. edits' \in 0 .. MaxEdit /\ CallOK(last', info')
    BY <1>2, <1>3, <2>1
  <2> QED BY <1>1, <2>1, <2>2, <2>3 DEF ObjectAgrees
<1>12. ASSUME NEW t \in NumberTypes, NEW k \in {0, 2}, SetNumber(t, k) PROVE Goal
  <2>1. info # NoInfo /\ Edit /\ Finish("edit", Null, "ok") /\ UNCHANGED <<parent, properties>>
    BY <1>12 DEF SetNumber
  <2>2. InfoOK(info') /\ (RanksAside(info) => Follows(info, info'))
    BY <1>1, <1>12, <2>1, SetNumberOK
  <2>3. edits' \in 0 .. MaxEdit /\ CallOK(last', info')
    BY <1>2, <1>3, <2>1
  <2> QED BY <1>1, <2>1, <2>2, <2>3 DEF ObjectAgrees
<1>13. ASSUME GameWriteGameInfo PROVE Goal
  <2>1. info # NoInfo /\ UNCHANGED <<info, edits>>
    BY <1>13 DEF GameWriteGameInfo
  <2>2. InfoOK(info)
    BY <1>1, <2>1
  <2>3. CASE parent = <<>>
    <3>1. /\ parent' = <<Null>> /\ properties' = WriteGameInfo(<<NoProperties>>, Root, info)
          /\ Finish("write", Null, "ok")
      BY <1>13, <2>3 DEF GameWriteGameInfo
    <3>2. Root \in DOMAIN <<Null>>
      BY DEF Root
    <3>3. GameOK(parent', properties')
      BY <2>2, <3>1, <3>2, NewRootOK, WriteTypes
    <3> QED BY <1>1, <1>3, <2>1, <3>1, <3>3, SameFollows
  <2>4. CASE parent # <<>> /\ GetFirstGameInfoNode # Null
    <3>1. /\ parent' = parent /\ properties' = WriteGameInfo(properties, GetFirstGameInfoNode, info)
          /\ Finish("write", Null, "ok")
      BY <1>13, <2>4 DEF GameWriteGameInfo
    <3>2. GetFirstGameInfoNode \in DOMAIN parent
      BY <1>1, <2>4, FoundNodes DEF Nodes
    <3>3. GameOK(parent', properties')
      BY <1>1, <2>2, <3>1, <3>2, WriteTypes
    <3> QED BY <1>1, <1>3, <2>1, <3>1, <3>3, SameFollows
  <2>5. CASE parent # <<>> /\ GetFirstGameInfoNode = Null
    <3> DEFINE r == WriteToRootNode(properties[Root], info)
    <3>1. /\ parent' = parent /\ properties' = [properties EXCEPT ![Root] = r]
          /\ Finish("write", Null, "invalid_argument")
      BY <1>13, <2>5 DEF GameWriteGameInfo
    <3>2. Root \in DOMAIN parent
      BY <1>1, <2>5, TreeParents DEF GameOK, Root
    <3>3. NodeOK(r, Root)
      BY <1>1, <2>2, <3>2, WriteRootOK, WrittenRootTypes DEF GameOK
    <3> HIDE DEF r
    <3>4. GameOK(parent', properties')
      BY <1>1, <3>1, <3>2, <3>3 DEF GameOK
    <3> QED BY <1>1, <1>3, <2>1, <3>1, <3>4, SameFollows
  <2> QED BY <2>3, <2>4, <2>5
<1>14. ASSUME NEW n \in Nodes, NodeWriteGameInfo(n) PROVE Goal
  <2> DEFINE target == IF GetGameInfoNode(n) = Null THEN Root ELSE GetGameInfoNode(n)
  <2>1. /\ info # NoInfo /\ Finish("write", n, "ok") /\ UNCHANGED <<parent, info, edits>>
        /\ properties' = WriteGameInfo(properties, target, info)
    BY <1>14 DEF NodeWriteGameInfo
  <2>2. target \in DOMAIN parent
    <3>1. Root \in Nodes
      BY <1>1, TreeParents DEF GameOK, Nodes, Root
    <3> QED BY <1>1, <3>1, FoundNodes DEF Nodes
  <2> HIDE DEF target
  <2>3. InfoOK(info)
    BY <1>1, <2>1
  <2>4. GameOK(parent', properties')
    BY <1>1, <2>1, <2>2, <2>3, WriteTypes
  <2> QED BY <1>1, <1>3, <2>1, <2>4, SameFollows
<1>15. ASSUME GameWriteNull PROVE Goal
  <2>1. Finish("write", Null, "invalid_argument") /\ UNCHANGED <<parent, properties, info, edits>>
    BY <1>15 DEF GameWriteNull
  <2> QED BY <1>1, <1>3, <2>1, SameFollows
<1>16. ASSUME NodeWriteNull PROVE Goal
  <2>1. info = NoInfo /\ Finish("write", Root, "undefined") /\ UNCHANGED <<parent, properties, info, edits>>
    BY <1>16 DEF NodeWriteNull
  <2>2. CallOK(last', info')
    BY <2>1 DEF Finish, CallOK
  <2> QED BY <1>1, <2>1, <2>2, SameFollows
<1>17. ASSUME UNCHANGED vars PROVE Goal
  BY <1>1, <1>17, SameFollows DEF vars
<1>18. Goal
  <2> HIDE DEF Goal
  <2> QED BY <1>4, <1>5, <1>7, <1>8, <1>9, <1>10, <1>11, <1>12, <1>13, <1>14, <1>15, <1>16, <1>17 DEF Next
<1> QED BY <1>18 DEF Types

(* The nodes hold values of their properties' kinds and the object those   *)
(* of its own, in every state, with any number of nodes and edits.         *)
THEOREM GameInfoTypesHold == Spec => []TypeOK
<1>1. Init => Types
  BY InitTypes
<1>2. Types /\ [Next]_vars => Types'
  BY NextTypes
<1>3. Types => TypeOK
  BY TypesTypeOK
<1> QED BY <1>1, <1>2, <1>3, PTL DEF Spec

(* The decomposed value and the raw text of a property agree in every game *)
(* info object, whatever the client read or set last: every step leaves    *)
(* each of them agreeing, but for the ranks after the setter of the white  *)
(* player's rank as a text, and later as long as they are left alone.      *)
THEOREM ValuesAgreeWithTexts == Spec => ValuesFollowTexts
<1> DEFINE Inv == Types /\ ObjectAgrees(info)
           Action ==
             info' # NoInfo =>
               \A t \in Decomposed(info'.gameType) :
                 \/ Agrees(info', t)
                 \/ /\ t \in Ranks /\ info # NoInfo
                    /\ \/ \E text \in Texts : SetText("WR", text)
                       \/ info'.text[t] = info.text[t] /\ info'.value[t] = info.value[t]
<1>1. Init => Inv
  BY InitTypes DEF Init, ObjectAgrees
<1>2. Inv /\ [Next]_vars => Inv'
  BY NextTypes, FollowsAgrees
<1>3. Inv /\ [Next]_vars => [Action]_vars
  BY NextTypes DEF Follows, SetsWhiteRank
<1> QED BY <1>1, <1>2, <1>3, PTL DEF Spec, ValuesFollowTexts

-----------------------------------------------------------------------------
(* What a write changes of the game.                                       *)

(* Game info properties that are the same.                                 *)
SameGameInfo(p, q) ==
  /\ DOMAIN q \cap GameInfoTypes = DOMAIN p \cap GameInfoTypes
  /\ \A t \in DOMAIN p \cap GameInfoTypes : q[t] = p[t]

(* The root node, and the game info node, hold the values of the object.   *)
RootHolds(q, i) ==
  /\ {"GM", "SZ"} \subseteq DOMAIN q
  /\ q["GM"] = <<i.gameType>>
  /\ q["SZ"] = IF i.boardSize[1] = i.boardSize[2] THEN <<i.boardSize[1]>> ELSE i.boardSize

NodeHolds(q, i) ==
  \A t \in WrittenTypes(i) : /\ t \in DOMAIN q <=> ~IsDefault(i, t)
                             /\ t \in DOMAIN q => q[t] = CreateProperty(i, t)

LEMMA RootWritten ==
  ASSUME NEW p, NEW q, NEW i, WrittenRoot(p, q, i)
  PROVE  RootHolds(q, i) /\ SameGameInfo(p, q)
BY PropertyTypes DEF WrittenRoot, RootHolds, SameGameInfo

LEMMA NodeWritten ==
  ASSUME NEW p, NEW q, NEW i, WrittenNode(p, q, i)
  PROVE  NodeHolds(q, i) /\ (RootHolds(p, i) => RootHolds(q, i))
<1>1. NodeHolds(q, i)
  BY DEF WrittenNode, NodeHolds
<1>2. \A t \in {"GM", "SZ"} : t \in DOMAIN p => t \in DOMAIN q /\ q[t] = p[t]
  BY TypesWritten DEF WrittenNode
<1> QED BY <1>1, <1>2 DEF RootHolds

LEMMA GameWritten ==
  ASSUME NEW par, NEW props, GameOK(par, props), NEW n \in DOMAIN par, NEW i, InfoOK(i),
         NEW new, new = WriteGameInfo(props, n, i)
  PROVE  /\ Root \in DOMAIN par /\ GameOK(par, new)
         /\ RootHolds(new[Root], i) /\ NodeHolds(new[n], i)
         /\ SameGameInfo(props[n], Before(props, n, i)) /\ WrittenNode(Before(props, n, i), new[n], i)
         /\ \A m \in DOMAIN par \ {n} : SameGameInfo(props[m], new[m])
<1> DEFINE k == Len(par)
           before == Before(props, n, i)
<1>1. k \in Nat /\ DOMAIN par = 1 .. k
  BY TreeParents DEF GameOK
<1>2. k \in Nat \ {0} /\ n \in 1 .. k /\ Root \in 1 .. k
  BY <1>1 DEF Root
<1>3. props = [m \in 1 .. k |-> props[m]]
  BY <1>1 DEF GameOK
<1>4. /\ WrittenNode(before, new[n], i)
      /\ n # Root => WrittenRoot(props[Root], new[Root], i)
      /\ \A m \in 1 .. k \ {Root, n} : new[m] = props[m]
  <2> HIDE DEF k
  <2>1. BothWritten(k, props, n, i, new)
    BY <1>2, <1>3, WriteGameInfoOK
  <2> HIDE DEF before
  <2> QED BY <2>1 DEF BothWritten, before
<1>5. WrittenRoot(props[Root], WriteToRootNode(props[Root], i), i)
  BY WriteRootOK
<1>6. SameGameInfo(props[n], before) /\ (n = Root => RootHolds(before, i))
  <2>1. CASE n = Root
    BY <1>5, <2>1, RootWritten DEF Before
  <2>2. CASE n # Root
    BY <2>2 DEF Before, SameGameInfo
  <2> QED BY <2>1, <2>2
<1> HIDE DEF k, before
<1>7. NodeHolds(new[n], i) /\ (n = Root => RootHolds(new[n], i))
  BY <1>4, <1>6, NodeWritten
<1>8. n # Root => RootHolds(new[Root], i) /\ SameGameInfo(props[Root], new[Root])
  BY <1>4, RootWritten
<1>9. \A m \in 1 .. k \ {n} : SameGameInfo(props[m], new[m])
  BY <1>4, <1>8 DEF SameGameInfo
<1>10. GameOK(par, new)
  BY WriteTypes
<1> QED BY <1>1, <1>2, <1>4, <1>6, <1>7, <1>8, <1>9, <1>10 DEF before

(* The calls that write.                                                   *)
LEMMA OnlyWritesWrite ==
  ASSUME Types, Next
  PROVE  /\ Succeeded("write", Null)' => GameWriteGameInfo
         /\ \A n \in Nodes : Succeeded("write", n)' => NodeWriteGameInfo(n)
<1>1. Nodes = 1 .. Len(parent) /\ Len(parent) \in Nat
  BY TreeParents DEF Types, GameOK, Nodes
<1>2. Null \notin Nodes
  BY <1>1 DEF Null
<1>3. ASSUME NEW n \in Nodes, NEW t \in GameInfoTypes, EditGameInfoProperty(n, t) PROVE last'.call # "write"
  BY <1>3 DEF EditGameInfoProperty, Finish
<1>4. ASSUME NEW t \in TextTypes, NEW v \in DecomposedValues, SetDecomposed(t, v) PROVE last'.call # "write"
  BY <1>4 DEF SetDecomposed, Finish
<1>5. ASSUME NEW t \in TextTypes, NEW text \in Texts, SetText(t, text) \/ SetPlainText(t, text)
      PROVE  last'.call # "write"
  BY <1>5 DEF SetText, SetPlainText, Finish
<1>6. ASSUME NEW t \in NumberTypes, NEW k \in {0, 2}, SetNumber(t, k) PROVE last'.call # "write"
  BY <1>6 DEF SetNumber, Finish
<1>7. ASSUME NewGameInfo \/ GameCreateGameInfo \/ \E n \in Nodes : NodeCreateGameInfo(n)
      PROVE  last'.call # "write"
  <2>1. ASSUME NEW call \in {"read", "read node"}, NEW i, Obtain(call, i) PROVE last'.call # "write"
    BY <2>1 DEF Obtain, Finish
  <2>2. NewGameInfo => last'.call # "write"
    BY DEF NewGameInfo, Finish
  <2> QED BY <1>7, <2>1, <2>2 DEF GameCreateGameInfo, NodeCreateGameInfo
<1>8. ASSUME GameWriteNull \/ NodeWriteNull PROVE last'.result # "ok"
  BY <1>8 DEF GameWriteNull, NodeWriteNull, Finish
<1>9. GameWriteGameInfo => last'.node = Null
  BY DEF GameWriteGameInfo, Finish
<1>10. \A m \in Nodes : NodeWriteGameInfo(m) => last'.node = m
  BY DEF NodeWriteGameInfo, Finish
<1>11. ASSUME NEW n, Succeeded("write", n)'
       PROVE  GameWriteGameInfo \/ \E m \in Nodes : NodeWriteGameInfo(m)
  <2>1. last'.call = "write" /\ last'.result = "ok"
    BY <1>11 DEF Succeeded
  <2> QED BY <1>3, <1>4, <1>5, <1>6, <1>7, <1>8, <2>1 DEF Next
<1>12. \A n : Succeeded("write", n)' => last'.node = n
  BY DEF Succeeded
<1> QED BY <1>2, <1>9, <1>10, <1>11, <1>12

(* What they do if they succeed: the node that was found is written, or    *)
(* else the root node.                                                     *)
LEMMA GameWrites ==
  ASSUME Types, GameWriteGameInfo, Succeeded("write", Null)'
  PROVE  /\ InfoOK(info) /\ info' = info
         /\ \/ /\ parent = <<>> /\ parent' = <<Null>>
               /\ properties' = WriteGameInfo(<<NoProperties>>, Root, info)
            \/ /\ parent # <<>> /\ parent' = parent /\ GetFirstGameInfoNode \in Nodes
               /\ HasGameInfo(GetFirstGameInfoNode)
               /\ properties' = WriteGameInfo(properties, GetFirstGameInfoNode, info)
<1>1. info # NoInfo /\ info' = info
  BY DEF GameWriteGameInfo
<1>2. GetFirstGameInfoNode # Null => GetFirstGameInfoNode \in Nodes /\ HasGameInfo(GetFirstGameInfoNode)
  BY FoundNodes DEF Types
<1>3. parent # <<>> => GetFirstGameInfoNode # Null
  BY DEF GameWriteGameInfo, Finish, Succeeded
<1> QED BY <1>1, <1>2, <1>3 DEF GameWriteGameInfo, Types

LEMMA NodeWrites ==
  ASSUME Types, NEW n \in Nodes, NodeWriteGameInfo(n)
  PROVE  LET found == GetGameInfoNode(n)
             target == IF found = Null THEN Root ELSE found
         IN  /\ InfoOK(info) /\ info' = info /\ parent' = parent
             /\ target \in Nodes /\ target \in Path(parent, n)
             /\ found # Null => HasGameInfo(target)
             /\ properties' = WriteGameInfo(properties, target, info)
<1> DEFINE found == GetGameInfoNode(n)
           target == IF found = Null THEN Root ELSE found
<1>1. info # NoInfo /\ info' = info /\ parent' = parent /\ properties' = WriteGameInfo(properties, target, info)
  BY DEF NodeWriteGameInfo
<1>2. found = Null \/ (found \in Path(parent, n) /\ found \in Nodes /\ HasGameInfo(found))
  BY FoundNodes DEF Types
<1>3. Root \in Nodes /\ Root \in Path(parent, n)
  <2>1. /\ parent \in Trees(Len(parent)) /\ Len(parent) \in Nat /\ n \in 1 .. Len(parent)
        /\ Nodes = 1 .. Len(parent)
    BY TreeParents DEF Types, GameOK, Nodes
  <2> QED BY <2>1, PathNodes DEF Root
<1>4. InfoOK(info)
  BY <1>1 DEF Types
<1> HIDE DEF found
<1> QED BY <1>1, <1>2, <1>3, <1>4 DEF found

-----------------------------------------------------------------------------
(* The rule of one game info node per path.                                *)

LEMMA RuleOnPaths ==
  OneGameInfoNodePerPath <=>
    \A n \in Nodes : HasGameInfo(n) => \A m \in Path(parent, n) \ {n} : ~HasGameInfo(m)
BY DEF OneGameInfoNodePerPath, GetGameInfoNodes

(* A write to a game info node makes no other node one.                    *)
LEMMA WriteKeepsRule ==
  ASSUME Types, InfoOK(info), NEW target \in Nodes, HasGameInfo(target), parent' = parent,
         properties' = WriteGameInfo(properties, target, info), OneGameInfoNodePerPath
  PROVE  OneGameInfoNodePerPath'
<1>1. \A m \in Nodes \ {target} : SameGameInfo(properties[m], properties'[m])
  BY GameWritten DEF Types, Nodes
<1>2. \A m \in Nodes \ {target} : HasGameInfo(m)' => HasGameInfo(m)
  BY <1>1 DEF SameGameInfo, HasGameInfo
<1>3. \A m \in Nodes : HasGameInfo(m)' => HasGameInfo(m)
  BY <1>2
<1>4. \A n \in Nodes : HasGameInfo(n) => \A m \in Path(parent, n) \ {n} : ~HasGameInfo(m)
  BY RuleOnPaths
<1>5. \A n \in Nodes : Path(parent, n) \subseteq Nodes
  <2>1. parent \in Trees(Len(parent)) /\ Len(parent) \in Nat /\ Nodes = 1 .. Len(parent)
    BY TreeParents DEF Types, GameOK, Nodes
  <2> QED BY <2>1, PathNodes
<1>6. \A n \in Nodes' : HasGameInfo(n)' => \A m \in Path(parent, n)' \ {n} : ~HasGameInfo(m)'
  <2>1. Nodes' = Nodes /\ \A n : Path(parent, n)' = Path(parent, n)
    BY DEF Nodes
  <2> QED BY <1>3, <1>4, <1>5, <2>1
<1> QED BY <1>6 DEF OneGameInfoNodePerPath, GetGameInfoNodes

LEMMA NewRootKeepsRule ==
  ASSUME parent' = <<Null>>
  PROVE  OneGameInfoNodePerPath'
<1>1. <<Null>> \in Trees(1) /\ Nodes' = {Root}
  BY DEF Nodes, Trees, Null, Root
<1>2. Path(<<Null>>, Root) = {Root}
  <2>1. <<Null>>[Root] = Null /\ Root \in 1 .. 1
    BY DEF Root
  <2> QED BY <1>1, <2>1, PathStep
<1>3. \A n \in Nodes' : Path(parent', n) \ {n} = {}
  BY <1>1, <1>2
<1> QED BY <1>3 DEF OneGameInfoNodePerPath, GetGameInfoNodes

(* A write to the root node, through a node without a game info node.      *)
LEMMA WriteToRootRule ==
  ASSUME Types, InfoOK(info), NEW n \in Nodes, GetGameInfoNode(n) = Null, parent' = parent,
         properties' = WriteGameInfo(properties, Root, info), OneGameInfoNodePerPath
  PROVE  OneGameInfoNodePerPath' <=> ~(HasGameInfo(Root)' /\ \E m \in Nodes : HasGameInfo(m))
<1>1. /\ parent \in Trees(Len(parent)) /\ Len(parent) \in Nat /\ Nodes = 1 .. Len(parent)
      /\ Root \in Nodes
  BY TreeParents DEF Types, GameOK, Nodes, Root
<1>2. \A m \in Nodes : Path(parent, m) \subseteq Nodes /\ Root \in Path(parent, m)
  BY <1>1, PathNodes
<1>3. ~HasGameInfo(Root)
  <2>1. Null \notin Nodes
    BY <1>1 DEF Null
  <2>2. \A m \in Path(parent, n) : ~HasGameInfo(m)
    BY <2>1, FoundNodes DEF Types
  <2> QED BY <1>2, <2>2
<1>4. \A m \in Nodes \ {Root} : HasGameInfo(m)' <=> HasGameInfo(m)
  <2>1. \A m \in Nodes \ {Root} : SameGameInfo(properties[m], properties'[m])
    BY <1>1, GameWritten DEF Types, Nodes
  <2> QED BY <2>1 DEF SameGameInfo, HasGameInfo
<1>5. Path(parent, Root) = {Root}
  <2>1. parent[Root] \in 0 .. Len(parent) /\ parent[Root] < Root
    BY <1>1, TreeParents
  <2>2. parent[Root] = Null
    BY <1>1, <2>1 DEF Root, Null
  <2>3. Path(parent, Root) = {Root} \cup Path(parent, parent[Root]) /\ Path(parent, Null) = {}
    BY <1>1, PathStep
  <2> QED BY <2>2, <2>3
<1>6. \A k \in Nodes : HasGameInfo(k) => \A m \in Path(parent, k) \ {k} : ~HasGameInfo(m)
  BY RuleOnPaths
<1>7. OneGameInfoNodePerPath' <=>
        \A k \in Nodes : HasGameInfo(k)' => \A m \in Path(parent, k) \ {k} : ~HasGameInfo(m)'
  <2>1. Nodes' = Nodes /\ \A k : Path(parent, k)' = Path(parent, k)
    BY DEF Nodes
  <2> QED BY <2>1 DEF OneGameInfoNodePerPath, GetGameInfoNodes
<1>8. CASE ~HasGameInfo(Root)'
  <2>1. \A m \in Nodes : HasGameInfo(m)' <=> HasGameInfo(m)
    BY <1>3, <1>4, <1>8
  <2> QED BY <1>2, <1>6, <1>7, <1>8, <2>1
<1>9. CASE HasGameInfo(Root)' /\ \A m \in Nodes : ~HasGameInfo(m)
  <2>1. \A k \in Nodes : HasGameInfo(k)' => k = Root
    BY <1>4, <1>9
  <2> QED BY <1>5, <1>7, <1>9, <2>1
<1>10. CASE HasGameInfo(Root)' /\ \E m \in Nodes : HasGameInfo(m)
  <2>1. PICK m \in Nodes : HasGameInfo(m)
    BY <1>10
  <2>2. m # Root /\ Root \in Path(parent, m) \ {m} /\ HasGameInfo(m)'
    BY <1>2, <1>3, <1>4, <2>1
  <2>3. ~OneGameInfoNodePerPath'
    BY <1>7, <1>10, <2>2
  <2> QED BY <1>10, <2>3
<1> QED BY <1>8, <1>9, <1>10

(* Writing game info breaks the rule in one case only, and always then:    *)
(* through a node without a game info node, if the root node has game info *)
(* afterwards and a node on another path had some before.                  *)
THEOREM WritingKeepsTheRule == Spec => WritesKeepTheRule
<1> DEFINE Action ==
      (\E n \in Nodes \cup {Null} : Succeeded("write", n)') /\ OneGameInfoNodePerPath =>
        ( OneGameInfoNodePerPath' <=>
            ~ \E n \in Nodes : /\ Succeeded("write", n)' /\ GetGameInfoNode(n) = Null
                               /\ HasGameInfo(Root)' /\ \E m \in Nodes : HasGameInfo(m) )
<1>1. Init => Types
  BY InitTypes
<1>2. Types /\ [Next]_vars => Types'
  BY NextTypes
<1>3. ASSUME Types, Next PROVE Action
  <2> DEFINE Breaks(n) == /\ Succeeded("write", n)' /\ GetGameInfoNode(n) = Null
                          /\ HasGameInfo(Root)' /\ \E m \in Nodes : HasGameInfo(m)
  <2>1. SUFFICES ASSUME OneGameInfoNodePerPath, NEW n \in Nodes \cup {Null}, Succeeded("write", n)'
                 PROVE  OneGameInfoNodePerPath' <=> ~\E m \in Nodes : Breaks(m)
    OBVIOUS
  <2>2. \A m \in Nodes : Breaks(m) => m = n
    BY <2>1 DEF Succeeded
  <2>3. Null \notin Nodes
    BY <1>3, TreeParents DEF Types, GameOK, Nodes, Null
  <2>4. CASE n = Null
    <3>1. GameWriteGameInfo
      BY <1>3, <2>1, <2>4, OnlyWritesWrite
    <3>2. CASE parent' = <<Null>>
      BY <2>2, <2>3, <2>4, <3>2, NewRootKeepsRule
    <3>3. CASE parent' # <<Null>>
      <4>1. OneGameInfoNodePerPath'
        BY <1>3, <2>1, <2>4, <3>1, <3>3, GameWrites, WriteKeepsRule
      <4> QED BY <2>2, <2>3, <2>4, <4>1
    <3> QED BY <3>2, <3>3
  <2>5. CASE n \in Nodes /\ GetGameInfoNode(n) # Null
    <3>1. NodeWriteGameInfo(n)
      BY <1>3, <2>1, <2>5, OnlyWritesWrite
    <3>2. OneGameInfoNodePerPath'
      BY <1>3, <2>1, <2>5, <3>1, NodeWrites, WriteKeepsRule
    <3>3. ~\E m \in Nodes : Breaks(m)
      BY <2>2, <2>5
    <3> QED BY <3>2, <3>3
  <2>6. CASE n \in Nodes /\ GetGameInfoNode(n) = Null
    <3>1. NodeWriteGameInfo(n)
      BY <1>3, <2>1, <2>6, OnlyWritesWrite
    <3>2. /\ InfoOK(info) /\ parent' = parent
          /\ properties' = WriteGameInfo(properties, Root, info)
      BY <1>3, <2>6, <3>1, NodeWrites
    <3>3. OneGameInfoNodePerPath' <=> ~(HasGameInfo(Root)' /\ \E m \in Nodes : HasGameInfo(m))
      BY <1>3, <2>1, <2>6, <3>2, WriteToRootRule
    <3>4. (\E m \in Nodes : Breaks(m)) <=> HasGameInfo(Root)' /\ \E m \in Nodes : HasGameInfo(m)
      BY <2>1, <2>2, <2>6
    <3> QED BY <3>3, <3>4
  <2> QED BY <2>1, <2>4, <2>5, <2>6
<1>4. Types /\ [Next]_vars => [Action]_vars
  BY <1>3
<1> QED BY <1>1, <1>2, <1>4, PTL DEF Spec, WritesKeepTheRule

-----------------------------------------------------------------------------
(* Writing back what was read.                                             *)

(* The client's object is the one that the game gives, if it has just been *)
(* read.                                                                   *)
Current == Succeeded("read", Null) => info = GameInfoOfGame

LEMMA NextCurrent ==
  ASSUME Types, Current, [Next]_vars
  PROVE  Current'
<1>1. ASSUME UNCHANGED <<parent, properties>> PROVE GameInfoOfGame' = GameInfoOfGame
  BY <1>1 DEF GameInfoOfGame, CreateGameInfo, GetFirstGameInfoNode, HasGameInfo, Nodes
<1>2. Null \notin Nodes
  BY TreeParents DEF Types, GameOK, Nodes, Null
<1>3. CASE UNCHANGED vars
  <2>1. UNCHANGED <<parent, properties, info, last>>
    BY <1>3 DEF vars
  <2> QED BY <1>1, <2>1 DEF Current, Succeeded
<1>4. CASE GameCreateGameInfo
  <2>1. UNCHANGED <<parent, properties>>
    BY <1>4 DEF GameCreateGameInfo, Obtain
  <2>2. Succeeded("read", Null)' => info' = GameInfoOfGame
    BY <1>4 DEF GameCreateGameInfo, Obtain, Finish, Succeeded
  <2> QED BY <1>1, <2>1, <2>2 DEF Current
<1>5. ASSUME NEW n \in Nodes, NodeCreateGameInfo(n) PROVE ~Succeeded("read", Null)'
  BY <1>2, <1>5 DEF NodeCreateGameInfo, Obtain, Finish, Succeeded
<1>6. ASSUME NEW n \in Nodes, NEW t \in GameInfoTypes, EditGameInfoProperty(n, t)
      PROVE  ~Succeeded("read", Null)'
  BY <1>6 DEF EditGameInfoProperty, Finish, Succeeded
<1>7. ASSUME NEW t \in TextTypes, NEW v \in DecomposedValues, SetDecomposed(t, v)
      PROVE  ~Succeeded("read", Null)'
  BY <1>7 DEF SetDecomposed, Finish, Succeeded
<1>8. ASSUME NEW t \in TextTypes, NEW text \in Texts, SetText(t, text) \/ SetPlainText(t, text)
      PROVE  ~Succeeded("read", Null)'
  BY <1>8 DEF SetText, SetPlainText, Finish, Succeeded
<1>9. ASSUME NEW t \in NumberTypes, NEW k \in {0, 2}, SetNumber(t, k) PROVE ~Succeeded("read", Null)'
  BY <1>9 DEF SetNumber, Finish, Succeeded
<1>10. ASSUME NewGameInfo \/ GameWriteNull \/ NodeWriteNull PROVE ~Succeeded("read", Null)'
  BY <1>10 DEF NewGameInfo, GameWriteNull, NodeWriteNull, Finish, Succeeded
<1>11. ASSUME GameWriteGameInfo \/ \E n \in Nodes : NodeWriteGameInfo(n) PROVE ~Succeeded("read", Null)'
  BY <1>11 DEF GameWriteGameInfo, NodeWriteGameInfo, Finish, Succeeded
<1>12. ~Succeeded("read", Null)' => Current'
  BY DEF Current
<1> QED BY <1>3, <1>4, <1>5, <1>6, <1>7, <1>8, <1>9, <1>10, <1>11, <1>12 DEF Next

(* One node that is read and written back.                                 *)
LEMMA RewriteOK ==
  ASSUME NEW n, NEW p, NodeOK(p, n), NEW before, SameGameInfo(p, before),
         NEW root, InfoOK(root), NEW i, ReadAs(root, p, i),
         NEW q, WrittenNode(before, q, i)
  PROVE  LET kept == {t \in DOMAIN p \cap GameInfoTypes :
                        t \in WrittenTypes(i) => ~SaysNothing(t, p[t])}
         IN  /\ DOMAIN q \cap GameInfoTypes = kept
             /\ \A t \in kept : q[t] = IF t \in WrittenTypes(i) THEN FirstOf(t, p[t]) ELSE p[t]
<1>1. /\ InfoOK(i) /\ i.gameType = root.gameType
      /\ i.text = [t \in TextTypes |-> GetSimpleTextPropertyValue(p, t)]
      /\ i.number = [t \in NumberTypes |->
                       IF t \in NumbersOf(root.gameType) THEN GetNumberPropertyValue(p, t) ELSE 0]
  <2>1. Snapshot(root, p, i)
    BY ReadNodeOK
  <2> QED BY <2>1 DEF Snapshot
<1>2. ASSUME NEW t \in TextTypes
      PROVE  /\ t \in DOMAIN q <=> t \in DOMAIN p /\ ~SaysNothing(t, p[t])
             /\ t \in DOMAIN q => q[t] = FirstOf(t, p[t])
  <2>1. i.text[t] = IF t \notin DOMAIN p \/ p[t] = Empty THEN None
                    ELSE IF p[t] = Several THEN "junk" ELSE p[t]
    BY <1>1 DEF GetSimpleTextPropertyValue
  <2>2. t \in DOMAIN p => p[t] # None
    BY TextValues DEF NodeOK
  <2>3. /\ t \in DOMAIN q <=> i.text[t] # None
        /\ t \in DOMAIN q => q[t] = i.text[t]
    BY DEF WrittenNode, WrittenTypes, IsDefault, CreateProperty
  <2>4. t \notin NumberTypes
    BY PropertyTypes
  <2> QED BY <2>1, <2>2, <2>3, <2>4 DEF SaysNothing, FirstOf, None
<1>3. ASSUME NEW t \in WrittenTypes(i) \ TextTypes
      PROVE  /\ t \in DOMAIN q <=> t \in DOMAIN p /\ ~SaysNothing(t, p[t])
             /\ t \in DOMAIN q => q[t] = FirstOf(t, p[t])
  <2>1. t \in NumberTypes /\ t \in NumbersOf(i.gameType)
    BY <1>3, TypesWritten
  <2>2. i.number[t] = IF t \notin DOMAIN p \/ p[t] = <<>> THEN 0 ELSE p[t][1]
    BY <1>1, <2>1 DEF GetNumberPropertyValue
  <2>3. /\ t \in DOMAIN q <=> i.number[t] # 0
        /\ t \in DOMAIN q => q[t] = <<i.number[t]>>
    BY <1>3 DEF WrittenNode, IsDefault, CreateProperty
  <2> QED BY <1>3, <2>1, <2>2, <2>3 DEF SaysNothing, FirstOf
<1>4. ASSUME NEW t \in GameInfoTypes \ WrittenTypes(i)
      PROVE  /\ t \in DOMAIN q <=> t \in DOMAIN p
             /\ t \in DOMAIN q => q[t] = p[t]
  BY DEF SameGameInfo, WrittenNode
<1>5. TextTypes \subseteq WrittenTypes(i) /\ WrittenTypes(i) \subseteq GameInfoTypes
  BY TypesWritten DEF WrittenTypes
<1> QED BY <1>2, <1>3, <1>4, <1>5

(* The object that the client has just taken of the game's first game info *)
(* node.                                                                   *)
LEMMA CurrentObject ==
  ASSUME Types, parent # <<>>, GetFirstGameInfoNode \in Nodes, info = GameInfoOfGame, InfoOK(info)
  PROVE  \E root : /\ InfoOK(root)
                   /\ ReadAs(root, properties[GetFirstGameInfoNode], info)
<1> DEFINE f == GetFirstGameInfoNode
           root == ReadFromRootNode(properties[Root])
<1>1. Nodes = 1 .. Len(parent) /\ Len(parent) \in Nat
  BY TreeParents DEF Types, GameOK, Nodes
<1>2. f # Null /\ Root \in Nodes
  BY <1>1 DEF Null, Root
<1>3. NodeOK(properties[Root], Root)
  BY <1>2 DEF Types, GameOK, Nodes
<1>4. InfoOK(root)
  BY <1>3, ReadRootOK
<1>5. info # NoInfo
  <2>1. "text" \in DOMAIN info
    BY DEF InfoOK, GameInfoObjects
  <2>2. "text" \notin DOMAIN NoInfo
    BY DEF NoInfo
  <2> QED BY <2>1, <2>2
<1> HIDE DEF f, root
<1>6. GameInfoOfGame = IF ReadThrows(properties[Root], properties[f]) THEN NoInfo
                       ELSE ReadFromGameInfoNode(root, properties[f])
  BY <1>2 DEF GameInfoOfGame, CreateGameInfo, f, root
<1> QED BY <1>4, <1>5, <1>6 DEF f, ReadAs

(* Taking a snapshot of a game and writing it back at once removes from    *)
(* the node that is written what says nothing, leaves the first of several *)
(* values, and touches no other game info property.                        *)
THEOREM WritingBackKeepsGameInfo == Spec => WriteBackKeepsGameInfo
<1> DEFINE Inv == Types /\ Current
           Action ==
             Succeeded("read", Null) /\ Succeeded("write", Null)' =>
               \A n \in Nodes :
                 /\ DOMAIN properties'[n] \cap GameInfoTypes = Left(n)
                 /\ \A t \in Left(n) :
                      properties'[n][t] = IF IsRewritten(n, t) THEN FirstOf(t, properties[n][t])
                                          ELSE properties[n][t]
<1>1. Init => Inv
  BY InitTypes DEF Init, Current, Succeeded
<1>2. Inv /\ [Next]_vars => Inv'
  BY NextTypes, NextCurrent
<1>3. ASSUME Types, Current, Next PROVE Action
  <2> SUFFICES ASSUME Succeeded("read", Null), Succeeded("write", Null)', NEW n \in Nodes
               PROVE  /\ DOMAIN properties'[n] \cap GameInfoTypes = Left(n)
                      /\ \A t \in Left(n) :
                           properties'[n][t] = IF IsRewritten(n, t) THEN FirstOf(t, properties[n][t])
                                               ELSE properties[n][t]
    OBVIOUS
  <2> DEFINE f == GetFirstGameInfoNode
             q == properties'
  <2>1. info = GameInfoOfGame
    BY <1>3 DEF Current
  <2>2. GameWriteGameInfo
    BY <1>3, OnlyWritesWrite
  <2>3. parent # <<>>
    BY DEF Nodes
  <2>4. /\ InfoOK(info) /\ f \in Nodes /\ q = WriteGameInfo(properties, f, info)
    BY <1>3, <2>2, <2>3, GameWrites
  <2>5. PICK root : /\ InfoOK(root)
                    /\ ReadAs(root, properties[f], info)
    BY <1>3, <2>1, <2>3, <2>4, CurrentObject
  <2> DEFINE before == Before(properties, f, info)
  <2>6. GameOK(parent, properties) /\ f \in DOMAIN parent
    BY <1>3, <2>4 DEF Types, Nodes
  <2> HIDE DEF f, q
  <2>7. /\ SameGameInfo(properties[f], before) /\ WrittenNode(before, q[f], info)
        /\ \A m \in DOMAIN parent \ {f} : SameGameInfo(properties[m], q[m])
    BY <2>4, <2>6, GameWritten
  <2> HIDE DEF before
  <2>8. /\ \A t : IsRewritten(n, t) <=> n = f /\ t \in WrittenTypes(info)
        /\ Left(n) = {t \in DOMAIN properties[n] \cap GameInfoTypes :
                        IsRewritten(n, t) => ~SaysNothing(t, properties[n][t])}
    BY DEF Left, IsRewritten, f
  <2>9. CASE n = f
    <3> DEFINE kept == {t \in DOMAIN properties[f] \cap GameInfoTypes :
                          t \in WrittenTypes(info) => ~SaysNothing(t, properties[f][t])}
    <3>1. NodeOK(properties[f], f)
      BY <2>6 DEF GameOK
    <3>2. /\ DOMAIN q[f] \cap GameInfoTypes = kept
          /\ \A t \in kept :
               q[f][t] = IF t \in WrittenTypes(info) THEN FirstOf(t, properties[f][t])
                         ELSE properties[f][t]
      BY <2>5, <2>7, <3>1, RewriteOK
    <3>3. Left(n) = kept
      BY <2>8, <2>9
    <3> HIDE DEF kept
    <3> QED BY <2>8, <2>9, <3>2, <3>3 DEF q
  <2>10. CASE n # f
    <3>1. SameGameInfo(properties[n], q[n])
      BY <2>7, <2>10 DEF Nodes
    <3>2. Left(n) = DOMAIN properties[n] \cap GameInfoTypes /\ \A t : ~IsRewritten(n, t)
      BY <2>8, <2>10
    <3> QED BY <3>1, <3>2 DEF SameGameInfo, q
  <2> QED BY <2>9, <2>10
<1>4. Inv /\ [Next]_vars => [Action]_vars
  BY <1>3
<1> QED BY <1>1, <1>2, <1>4, PTL DEF Spec, WriteBackKeepsGameInfo

-----------------------------------------------------------------------------
(* Reading what was written.                                               *)

(* The board size and the decomposed values that reading gives for i.      *)
RereadSize(i) == IF i.boardSize = BoardSizeNone THEN BoardSizeInvalid ELSE i.boardSize

RereadValues(i) ==
  [t \in TextTypes |->
     IF t \in Decomposed(i.gameType) THEN FromPropertyValue(i.text[t]) ELSE "invalid"]

LEMMA RereadRecord ==
  ASSUME NEW i, InfoOK(i)
  PROVE  Reread(i) = IF \E t \in Decomposed(i.gameType) : Throws(i.text[t]) THEN NoInfo
                     ELSE [gameType |-> i.gameType, boardSize |-> RereadSize(i), text |-> i.text,
                           value |-> RereadValues(i), number |-> i.number]
<1> DEFINE j == [i EXCEPT !.boardSize = IF @ = BoardSizeNone THEN BoardSizeInvalid ELSE @,
                          !.value = RereadValues(i)]
<1>1. j = [gameType |-> i.gameType, boardSize |-> RereadSize(i), text |-> i.text,
           value |-> RereadValues(i), number |-> i.number]
  <2> DEFINE size == RereadSize(i)
             values == RereadValues(i)
  <2>1. j = [i EXCEPT !.boardSize = size, !.value = values]
    BY DEF RereadSize
  <2> HIDE DEF j, size, values
  <2>2. j = [gameType |-> i.gameType, boardSize |-> size, text |-> i.text,
             value |-> values, number |-> i.number]
    BY <2>1 DEF InfoOK, GameInfoObjects
  <2> QED BY <2>2 DEF size, values
<1>2. Reread(i) = IF \E t \in Decomposed(i.gameType) : Throws(i.text[t]) THEN NoInfo ELSE j
  BY DEF Reread, RereadValues
<1> HIDE DEF j
<1> QED BY <1>1, <1>2

LEMMA InfoRecord ==
  ASSUME NEW r, InfoOK(r)
  PROVE  r = [gameType |-> r.gameType, boardSize |-> r.boardSize, text |-> r.text,
              value |-> r.value, number |-> r.number]
BY InfoFields

(* The root node gives the type of the game and the board size.            *)
LEMMA RereadRoot ==
  ASSUME NEW i, InfoOK(i), NEW q, NodeOK(q, Root), RootHolds(q, i)
  PROVE  GetGameTypeAsNumber(q) = i.gameType /\ GetBoardSize(q) = RereadSize(i)
<1> DEFINE size == <<q["SZ"][1], q["SZ"][Len(q["SZ"])]>>
<1>1. q["GM"] = <<i.gameType>> /\ "GM" \in DOMAIN q /\ "SZ" \in DOMAIN q
  BY DEF RootHolds
<1>2. GetGameTypeAsNumber(q) = i.gameType
  BY <1>1 DEF GetGameTypeAsNumber
<1>3. PICK a \in Int, b \in Int : i.boardSize = <<a, b>>
  BY DEF InfoOK, GameInfoObjects
<1>4. q["SZ"] = IF a = b THEN <<a>> ELSE <<a, b>>
  BY <1>3 DEF RootHolds
<1>5. q["SZ"] # <<>> /\ size = i.boardSize
  <2>1. CASE a = b
    BY <1>3, <1>4, <2>1
  <2>2. CASE a # b
    BY <1>3, <1>4, <2>2
  <2> QED BY <2>1, <2>2
<1> HIDE DEF size
<1>6. GetBoardSize(q) = IF IsValid(size, i.gameType) THEN size ELSE BoardSizeInvalid
  BY <1>1, <1>2, <1>5 DEF GetBoardSize, size
<1>7. ~IsValid(BoardSizeNone, i.gameType) /\ ~IsValid(BoardSizeInvalid, i.gameType)
  BY DEF IsValid, BoardSizeNone, BoardSizeInvalid
<1>8. i.boardSize \in {BoardSizeNone, BoardSizeInvalid} \/ IsValid(i.boardSize, i.gameType)
  BY DEF InfoOK
<1> QED BY <1>2, <1>5, <1>6, <1>7, <1>8 DEF RereadSize

(* The written game info node gives the rest ...                           *)
LEMMA RereadNode ==
  ASSUME NEW i, InfoOK(i), NEW q, NodeOK(q, Root), RootHolds(q, i),
         NEW n, NEW p, NodeOK(p, n), NodeHolds(p, i)
  PROVE  Reread(i) = IF ReadThrows(q, p) THEN NoInfo
                     ELSE ReadFromGameInfoNode(ReadFromRootNode(q), p)
<1> DEFINE root == ReadFromRootNode(q)
           r == ReadFromGameInfoNode(root, p)
<1>1. InfoOK(root) /\ root.gameType = i.gameType /\ root.boardSize = RereadSize(i)
  <2>1. InfoOK(root) /\ root.gameType = GetGameTypeAsNumber(q) /\ root.boardSize = GetBoardSize(q)
    BY ReadRootOK
  <2> HIDE DEF root
  <2> QED BY <2>1, RereadRoot
<1> HIDE DEF root
<1>2. ReadAs(root, p, r)
  BY DEF ReadAs
<1> HIDE DEF r
<1>3. Snapshot(root, p, r)
  BY <1>1, <1>2, ReadNodeOK
<1>4. ASSUME NEW t \in TextTypes PROVE GetSimpleTextPropertyValue(p, t) = i.text[t]
  <2>1. /\ t \in DOMAIN p <=> i.text[t] # None
        /\ t \in DOMAIN p => p[t] = i.text[t]
    BY DEF NodeHolds, WrittenTypes, IsDefault, CreateProperty
  <2>2. i.text[t] \in Texts
    BY InfoFields
  <2>3. i.text[t] # Empty /\ i.text[t] # Several
    BY <2>2 DEF Texts, None, Empty, Several
  <2> QED BY <2>1, <2>3 DEF GetSimpleTextPropertyValue
<1>5. r.text = i.text
  <2>1. r.text = [t \in TextTypes |-> GetSimpleTextPropertyValue(p, t)]
    BY <1>3 DEF Snapshot
  <2>2. i.text = [t \in TextTypes |-> i.text[t]]
    BY InfoFields
  <2> QED BY <1>4, <2>1, <2>2
<1>6. r.value = RereadValues(i)
  <2>1. r.value = [t \in TextTypes |->
                     IF t \in Decomposed(root.gameType)
                     THEN FromPropertyValue(GetSimpleTextPropertyValue(p, t)) ELSE "invalid"]
    BY <1>3 DEF Snapshot
  <2> QED BY <1>1, <1>4, <2>1 DEF RereadValues
<1>7. r.number = i.number
  <2>1. r.number = [t \in NumberTypes |->
                      IF t \in NumbersOf(i.gameType) THEN GetNumberPropertyValue(p, t) ELSE 0]
    BY <1>1, <1>3 DEF Snapshot
  <2>2. ASSUME NEW t \in NumbersOf(i.gameType) PROVE GetNumberPropertyValue(p, t) = i.number[t]
    <3>1. t \in WrittenTypes(i) /\ t \notin TextTypes
      BY PropertyTypes DEF WrittenTypes
    <3>2. /\ t \in DOMAIN p <=> i.number[t] # 0
          /\ t \in DOMAIN p => p[t] = <<i.number[t]>>
      BY <3>1 DEF NodeHolds, IsDefault, CreateProperty
    <3> QED BY <3>2 DEF GetNumberPropertyValue
  <2>3. \A t \in NumberTypes \ NumbersOf(i.gameType) : i.number[t] = 0
    BY InfoFields
  <2>4. i.number = [t \in NumberTypes |-> i.number[t]]
    BY InfoFields
  <2> QED BY <2>1, <2>2, <2>3, <2>4
<1>8. InfoOK(r) /\ r.gameType = i.gameType /\ r.boardSize = RereadSize(i)
  BY <1>1, <1>3 DEF Snapshot
<1>9. r = [gameType |-> i.gameType, boardSize |-> RereadSize(i), text |-> i.text,
           value |-> RereadValues(i), number |-> i.number]
  BY <1>5, <1>6, <1>7, <1>8, InfoRecord, Zenon
<1>10. ReadThrows(q, p) <=> \E t \in Decomposed(i.gameType) : Throws(i.text[t])
  BY <1>4, DecomposedTypes, RereadRoot DEF ReadThrows
<1> QED BY <1>9, <1>10, RereadRecord DEF r, root

(* ... or nothing, if the object has no game info.                         *)
LEMMA RereadNothing ==
  ASSUME NEW i, InfoOK(i), NEW q, NodeOK(q, Root), RootHolds(q, i),
         NEW p, NodeHolds(p, i), DOMAIN p \cap GameInfoTypes = {}
  PROVE  Reread(i) = ReadFromRootNode(q)
<1> DEFINE r == ReadFromRootNode(q)
<1>0. \A t \in WrittenTypes(i) : IsDefault(i, t)
  BY TypesWritten DEF NodeHolds
<1>1. \A t \in TextTypes : i.text[t] = None
  BY <1>0 DEF WrittenTypes, IsDefault
<1>2. i.number = [t \in NumberTypes |-> 0]
  <2>1. \A t \in NumbersOf(i.gameType) : i.number[t] = 0
    BY <1>0, PropertyTypes DEF WrittenTypes, IsDefault
  <2> QED BY <2>1, InfoFields
<1>3. /\ InfoOK(r) /\ r.gameType = GetGameTypeAsNumber(q) /\ r.boardSize = GetBoardSize(q)
      /\ r.text = [t \in TextTypes |-> None] /\ r.value = [t \in TextTypes |-> "invalid"]
      /\ r.number = [t \in NumberTypes |-> 0]
  BY ReadRootOK
<1> HIDE DEF r
<1>4. r.gameType = i.gameType /\ r.boardSize = RereadSize(i)
  BY <1>3, RereadRoot
<1>5. r.text = i.text
  BY <1>1, <1>3, InfoFields
<1>6. r.value = RereadValues(i)
  BY <1>1, <1>3, DecomposedTypes DEF RereadValues, FromPropertyValue, None
<1>7. r = [gameType |-> i.gameType, boardSize |-> RereadSize(i), text |-> i.text,
           value |-> RereadValues(i), number |-> i.number]
  BY <1>2, <1>3, <1>4, <1>5, <1>6, InfoRecord, Zenon
<1>8. ~\E t \in Decomposed(i.gameType) : Throws(i.text[t])
  BY <1>1, DecomposedTypes DEF Throws, None
<1> QED BY <1>7, <1>8, RereadRecord DEF r

(* What CreateGameInfo makes from nodes with these properties.             *)
Created(props, n) ==
  LET root == ReadFromRootNode(props[Root])
  IN  IF n = Null THEN root
      ELSE IF ReadThrows(props[Root], props[n]) THEN NoInfo
      ELSE ReadFromGameInfoNode(root, props[n])

Has(props, n) == DOMAIN props[n] \cap GameInfoTypes # {}

(* It is what was written, if it is made from the node that was written,   *)
(* or from none because that node has no game info now.                    *)
LEMMA ReadBack ==
  ASSUME NEW par, NEW props, GameOK(par, props), NEW target \in DOMAIN par, Root \in DOMAIN par,
         NEW i, InfoOK(i), RootHolds(props[Root], i), NodeHolds(props[target], i)
  PROVE  Created(props, IF Has(props, target) THEN target ELSE Null) = Reread(i)
<1>1. NodeOK(props[Root], Root) /\ NodeOK(props[target], target)
  BY DEF GameOK
<1>2. target # Null
  BY TreeParents DEF GameOK, Null
<1>3. CASE Has(props, target)
  <2>1. Reread(i) = IF ReadThrows(props[Root], props[target]) THEN NoInfo
                    ELSE ReadFromGameInfoNode(ReadFromRootNode(props[Root]), props[target])
    BY <1>1, RereadNode
  <2> QED BY <1>2, <1>3, <2>1 DEF Created
<1>4. CASE ~Has(props, target)
  <2>1. Reread(i) = ReadFromRootNode(props[Root])
    BY <1>1, <1>4, RereadNothing DEF Has
  <2> QED BY <1>4, <2>1 DEF Created
<1> QED BY <1>3, <1>4

LEMMA ObtainedAfter ==
  /\ parent' # <<>> => GameInfoOfGame' = Created(properties', GetFirstGameInfoNode')
  /\ \A n : GameInfoOfNode(n)' = Created(properties', GetGameInfoNode(n)')
BY DEF GameInfoOfGame, GameInfoOfNode, CreateGameInfo, Created

(* The game that had no root node.                                         *)
LEMMA NewRootReadBack ==
  ASSUME InfoOK(info), parent' = <<Null>>,
         properties' = WriteGameInfo(<<NoProperties>>, Root, info)
  PROVE  GameInfoOfGame' = Reread(info)
<1>1. DOMAIN <<Null>> = {Root} /\ Nodes' = {Root}
  BY DEF Nodes, Root
<1>2. /\ GameOK(parent', properties')
      /\ RootHolds(properties'[Root], info) /\ NodeHolds(properties'[Root], info)
  BY <1>1, NewRootOK, GameWritten
<1>3. GetFirstGameInfoNode' = IF Has(properties', Root) THEN Root ELSE Null
  <2> DEFINE found == {n \in Nodes : HasGameInfo(n)}'
  <2>1. found = IF Has(properties', Root) THEN {Root} ELSE {}
    BY <1>1 DEF HasGameInfo, Has
  <2>2. Min({Root}) = Root
    <3>1. Min({Root}) \in {Root}
      <4>1. {Root} \subseteq Nat /\ {Root} # {}
        BY DEF Root
      <4> QED BY <4>1, MinMember
    <3> QED BY <3>1
  <2>3. GetFirstGameInfoNode' = IF found = {} THEN Null ELSE Min(found)
    BY DEF GetFirstGameInfoNode
  <2> HIDE DEF found
  <2> QED BY <2>1, <2>2, <2>3
<1>4. Created(properties', GetFirstGameInfoNode') = Reread(info)
  BY <1>1, <1>2, <1>3, ReadBack
<1> QED BY <1>4, ObtainedAfter

(* The nodes that have game info after a write to the target.              *)
LEMMA HasAfter ==
  ASSUME GameOK(parent, properties), InfoOK(info), NEW target \in Nodes,
         properties' = WriteGameInfo(properties, target, info), parent' = parent
  PROVE  /\ Nodes' = Nodes /\ Root \in Nodes /\ GameOK(parent', properties')
         /\ RootHolds(properties'[Root], info) /\ NodeHolds(properties'[target], info)
         /\ \A m \in Nodes \ {target} : HasGameInfo(m)' = HasGameInfo(m)
<1>1. /\ Root \in Nodes /\ GameOK(parent, properties')
      /\ RootHolds(properties'[Root], info) /\ NodeHolds(properties'[target], info)
      /\ \A m \in Nodes \ {target} : SameGameInfo(properties[m], properties'[m])
  BY GameWritten DEF Nodes
<1>2. \A m \in Nodes \ {target} : HasGameInfo(m)' = HasGameInfo(m)
  BY <1>1 DEF SameGameInfo, HasGameInfo
<1> QED BY <1>1, <1>2 DEF Nodes

LEMMA GameReadBack ==
  ASSUME GameOK(parent, properties), InfoOK(info), GetFirstGameInfoNode \in Nodes,
         HasGameInfo(GetFirstGameInfoNode), parent # <<>>, parent' = parent,
         properties' = WriteGameInfo(properties, GetFirstGameInfoNode, info),
         TargetKeepsGameInfo(GetFirstGameInfoNode)
  PROVE  GameInfoOfGame' = Reread(info)
<1> DEFINE f == GetFirstGameInfoNode
           found == {n \in Nodes : HasGameInfo(n)}
<1>1. /\ Nodes' = Nodes /\ Root \in Nodes /\ GameOK(parent', properties')
      /\ RootHolds(properties'[Root], info) /\ NodeHolds(properties'[f], info)
      /\ \A m \in Nodes \ {f} : HasGameInfo(m)' = HasGameInfo(m)
  BY HasAfter
<1>2. f = IF found = {} THEN Null ELSE Min(found)
  BY DEF GetFirstGameInfoNode
<1>3. f \in found
  OBVIOUS
<1>4. GetFirstGameInfoNode' = IF found' = {} THEN Null ELSE Min(found')
  BY DEF GetFirstGameInfoNode
<1>5. GetFirstGameInfoNode' = IF Has(properties', f) THEN f ELSE Null
  <2>1. CASE \E n \in {f} : HasGameInfo(n)'
    <3>1. Has(properties', f)
      BY <2>1 DEF Has, HasGameInfo
    <3>2. found' = found
      BY <1>1, <1>3, <2>1
    <3> HIDE DEF found, f
    <3> QED BY <1>2, <1>3, <1>4, <3>1, <3>2
  <2>2. CASE \A n \in Nodes : ~HasGameInfo(n)'
    <3>1. ~Has(properties', f)
      BY <2>2 DEF Has, HasGameInfo
    <3>2. found' = {}
      BY <1>1, <2>2
    <3> HIDE DEF found, f
    <3> QED BY <1>4, <3>1, <3>2
  <2> QED BY <2>1, <2>2 DEF TargetKeepsGameInfo
<1>6. f \in Nodes
  OBVIOUS
<1> HIDE DEF f
<1>7. Created(properties', GetFirstGameInfoNode') = Reread(info)
  BY <1>1, <1>5, <1>6, ReadBack DEF Nodes
<1> QED BY <1>7, ObtainedAfter

LEMMA NodeReadBack ==
  ASSUME Types, NEW n \in Nodes, NodeWriteGameInfo(n),
         TargetKeepsGameInfo(IF GetGameInfoNode(n) = Null THEN Root ELSE GetGameInfoNode(n))
  PROVE  GameInfoOfNode(n)' = Reread(info)
<1> DEFINE f == GetGameInfoNode(n)
           target == IF f = Null THEN Root ELSE f
           found == {m \in Path(parent, n) : HasGameInfo(m)}
<1>1. /\ InfoOK(info) /\ parent' = parent /\ target \in Nodes /\ target \in Path(parent, n)
      /\ f # Null => HasGameInfo(target)
      /\ properties' = WriteGameInfo(properties, target, info)
  BY NodeWrites
<1>2. TargetKeepsGameInfo(target)
  OBVIOUS
<1>3. f = IF found = {} THEN Null ELSE Max(found)
  BY DEF GetGameInfoNode
<1>4. f = Null => found = {}
  <2>1. f = Null => \A m \in Path(parent, n) : ~HasGameInfo(m)
    <3>1. \/ f = Null /\ \A m \in Path(parent, n) : ~HasGameInfo(m)
          \/ f \in Path(parent, n) /\ f \in Nodes /\ HasGameInfo(f)
      BY FoundNodes DEF Types
    <3>2. Null \notin Nodes
      BY TreeParents DEF Types, GameOK, Nodes, Null
    <3> QED BY <3>1, <3>2
  <2> QED BY <2>1
<1>5. f # Null => target = f
  OBVIOUS
<1>6. f = Null => target = Root
  OBVIOUS
<1>7. f' = IF found' = {} THEN Null ELSE Max(found')
  BY DEF GetGameInfoNode
<1>8. found' = {m \in Path(parent, n) : HasGameInfo(m)'}
  BY <1>1
<1>9. Path(parent, n) \in SUBSET (1 .. Len(parent)) /\ Len(parent) \in Nat /\ Nodes = 1 .. Len(parent)
  <2>1. parent \in Trees(Len(parent)) /\ Len(parent) \in Nat /\ Nodes = 1 .. Len(parent)
    BY TreeParents DEF Types, GameOK, Nodes
  <2> QED BY <2>1, PathNodes
<1>10. found = {m \in Path(parent, n) : HasGameInfo(m)}
  OBVIOUS
<1> DEFINE after == found'
           next == f'
<1> HIDE DEF target, found, f, after, next
<1>11. /\ Nodes' = Nodes /\ Root \in Nodes /\ GameOK(parent', properties')
       /\ RootHolds(properties'[Root], info) /\ NodeHolds(properties'[target], info)
       /\ \A m \in Nodes \ {target} : HasGameInfo(m)' = HasGameInfo(m)
  BY <1>1, HasAfter DEF Types
<1>12. next = IF Has(properties', target) THEN target ELSE Null
  <2>1. CASE \E m \in {target} : HasGameInfo(m)'
    <3>1. Has(properties', target)
      BY <2>1 DEF Has, HasGameInfo
    <3>2. after = found \cup {target}
      BY <1>1, <1>8, <1>9, <1>10, <1>11, <2>1 DEF after
    <3>3. Max(after) = target
      <4>1. CASE f = Null
        <5>1. after = {target}
          BY <1>4, <3>2, <4>1
        <5>2. Max(after) \in after
          BY <1>1, <1>9, <5>1, MaxMember
        <5> QED BY <5>1, <5>2
      <4>2. CASE f # Null
        <5>1. target \in found
          BY <1>1, <1>10, <4>2
        <5>2. after = found
          BY <3>2, <5>1
        <5> QED BY <1>3, <1>5, <4>2, <5>1, <5>2
      <4> QED BY <4>1, <4>2
    <3>4. after # {}
      BY <3>2
    <3> QED BY <1>7, <3>1, <3>3, <3>4 DEF after, next
  <2>2. CASE \A m \in Nodes : ~HasGameInfo(m)'
    <3>1. ~Has(properties', target)
      BY <1>1, <2>2 DEF Has, HasGameInfo
    <3>2. after = {}
      BY <1>8, <1>9, <2>2 DEF after
    <3> QED BY <1>7, <3>1, <3>2 DEF after, next
  <2> QED BY <1>2, <2>1, <2>2 DEF TargetKeepsGameInfo
<1>13. Created(properties', next) = Reread(info)
  BY <1>1, <1>11, <1>12, ReadBack DEF Nodes
<1>14. GameInfoOfNode(n)' = Created(properties', next)
  BY ObtainedAfter DEF next, f
<1> QED BY <1>13, <1>14

(* After a write the same way of reading gives the values that were        *)
(* written, unless the write left its target without game info and another *)
(* node is found instead.                                                  *)
THEOREM WritingThenReading == Spec => WriteThenRead
<1> DEFINE Action ==
      /\ Succeeded("write", Null)' /\ (parent = <<>> \/ TargetKeepsGameInfo(GetFirstGameInfoNode)) =>
           GameInfoOfGame' = Reread(info)
      /\ \A n \in Nodes :
           Succeeded("write", n)'
             /\ TargetKeepsGameInfo(IF GetGameInfoNode(n) = Null THEN Root ELSE GetGameInfoNode(n)) =>
             GameInfoOfNode(n)' = Reread(info)
<1>1. Init => Types
  BY InitTypes
<1>2. Types /\ [Next]_vars => Types'
  BY NextTypes
<1>3. ASSUME Types, Next PROVE Action
  <2>1. ASSUME Succeeded("write", Null)', parent = <<>> \/ TargetKeepsGameInfo(GetFirstGameInfoNode)
        PROVE  GameInfoOfGame' = Reread(info)
    <3>1. GameWriteGameInfo
      BY <1>3, <2>1, OnlyWritesWrite
    <3>2. /\ InfoOK(info)
          /\ \/ /\ parent = <<>> /\ parent' = <<Null>>
                /\ properties' = WriteGameInfo(<<NoProperties>>, Root, info)
             \/ /\ parent # <<>> /\ parent' = parent /\ GetFirstGameInfoNode \in Nodes
                /\ HasGameInfo(GetFirstGameInfoNode)
                /\ properties' = WriteGameInfo(properties, GetFirstGameInfoNode, info)
      BY <1>3, <2>1, <3>1, GameWrites
    <3>3. GameOK(parent, properties)
      BY <1>3 DEF Types
    <3> QED BY <2>1, <3>2, <3>3, NewRootReadBack, GameReadBack
  <2>2. ASSUME NEW n \in Nodes, Succeeded("write", n)',
               TargetKeepsGameInfo(IF GetGameInfoNode(n) = Null THEN Root ELSE GetGameInfoNode(n))
        PROVE  GameInfoOfNode(n)' = Reread(info)
    <3>1. NodeWriteGameInfo(n)
      BY <1>3, <2>2, OnlyWritesWrite
    <3> QED BY <1>3, <2>2, <3>1, NodeReadBack
  <2> QED BY <2>1, <2>2
<1>4. Types /\ [Next]_vars => [Action]_vars
  BY <1>3
<1> QED BY <1>1, <1>2, <1>4, PTL DEF Spec, WriteThenRead
=============================================================================
