------------------------ MODULE NodePropertiesProofs ------------------------
(***************************************************************************)
(* Proofs about NodeProperties, for any tree of nodes, any set of property *)
(* objects, and any choice of their names: a node never has two properties *)
(* of one name or type, and is a map from names to properties; and what it *)
(* inherits of a name is what its nearest ancestor with that name has.     *)
(*                                                                         *)
(* The walk to the root and the loops over properties are folds, and folds *)
(* are shown to be sequences of steps, whose elements are then reached by  *)
(* induction over their number (UpTo).  That each node has a path to the   *)
(* root is shown from the trees having no cycle (EachHasPath).             *)
(*                                                                         *)
(* Last, proofs about RootProperties, for any values and any number of     *)
(* them: the decoder decodes the nodes of a game for the type and size     *)
(* that the game has afterwards, and that it had before it was written.    *)
(***************************************************************************)
EXTENDS NodeProperties, RootProperties, SequenceTheorems, FiniteSetTheorems,
        NaturalsInduction, WellFoundedInduction, TLAPS

-----------------------------------------------------------------------------
(* Sequences.                                                              *)

(* What is left when an element is removed.                                *)
LEMMA RemoveAtIsShift ==
  ASSUME NEW S, NEW s \in Seq(S), NEW i \in 1..Len(s)
  PROVE  /\ RemoveAt(s, i) \in Seq(S)
         /\ Len(RemoveAt(s, i)) = Len(s) - 1
         /\ \A j \in 1..(Len(s) - 1) :
              RemoveAt(s, i)[j] = IF j < i THEN s[j] ELSE s[j + 1]
<1> DEFINE left == SubSeq(s, 1, i - 1)
           right == SubSeq(s, i + 1, Len(s))
<1>1. Len(s) \in Nat /\ i \in 1..Len(s)
  OBVIOUS
<1>2. left \in Seq(S) /\ Len(left) = i - 1 /\ \A j \in 1..(i - 1) : left[j] = s[j]
  BY <1>1
<1>3. /\ right \in Seq(S) /\ Len(right) = Len(s) - i
      /\ \A j \in 1..(Len(s) - i) : right[j] = s[i + j]
  BY <1>1
<1>4. RemoveAt(s, i) = left \o right
  BY DEF RemoveAt
<1> HIDE DEF left, right
<1>5. left \o right \in Seq(S) /\ Len(left \o right) = Len(s) - 1
  <2>1. left \o right \in Seq(S) /\ Len(left \o right) = Len(left) + Len(right)
    BY <1>2, <1>3, ConcatProperties
  <2>2. Len(left) + Len(right) = Len(s) - 1
    BY <1>1, <1>2, <1>3
  <2> QED BY <2>1, <2>2
<1>6. ASSUME NEW j \in 1..(Len(s) - 1)
      PROVE  (left \o right)[j] = IF j < i THEN s[j] ELSE s[j + 1]
  <2>1. CASE j < i
    BY <1>1, <1>2, <1>3, <2>1
  <2>2. CASE ~(j < i)
    <3>1. (left \o right)[j] = right[j - (i - 1)]
      BY <1>1, <1>2, <1>3, <2>2
    <3>2. right[j - (i - 1)] = s[i + (j - (i - 1))] /\ i + (j - (i - 1)) = j + 1
      BY <1>1, <1>3, <2>2
    <3> QED BY <2>2, <3>1, <3>2
  <2> QED BY <2>1, <2>2
<1> QED BY <1>4, <1>5, <1>6

(* Of a single index there is a smallest.                                  *)
LEMMA MinOfOne == ASSUME NEW i \in Nat PROVE Min({i}) = i
BY DEF Min

-----------------------------------------------------------------------------
(* Valid sequences of properties.                                          *)

Valid(s) == s \in Seq(Properties) /\ ValidateProperties(s)

(* No two of a valid sequence have the same name.                          *)
LEMMA ValidNames ==
  ASSUME NEW s, Valid(s), NEW i \in 1..Len(s), NEW j \in 1..Len(s),
         propertyName[s[i]] = propertyName[s[j]]
  PROVE  i = j
BY DEF Valid, ValidateProperties

(* A type other than the unknown one is that of one name.                  *)
LEMMA TypeTellsName ==
  ASSUME NEW p, NEW q, PropertyType(p) # UnknownType, PropertyType(p) = PropertyType(q)
  PROVE  propertyName[p] = propertyName[q]
BY DEF PropertyType, MapPropertyNameToPropertyType

(* What a valid sequence is when an element is removed: it is valid, and   *)
(* has the other elements.                                                 *)
LEMMA RemoveAtValid ==
  ASSUME NEW s, Valid(s), NEW i \in 1..Len(s)
  PROVE  /\ Valid(RemoveAt(s, i))
         /\ Range(RemoveAt(s, i)) = Range(s) \ {s[i]}
<1> DEFINE r == RemoveAt(s, i)
<1>1. s \in Seq(Properties) /\ Len(s) \in Nat /\ DOMAIN s = 1..Len(s)
  BY DEF Valid
<1>2. /\ r \in Seq(Properties) /\ Len(r) = Len(s) - 1
      /\ \A j \in 1..(Len(s) - 1) : r[j] = IF j < i THEN s[j] ELSE s[j + 1]
  BY <1>1, RemoveAtIsShift
<1> HIDE DEF r
<1>3. DOMAIN r = 1..(Len(s) - 1)
  BY <1>1, <1>2
<1>4. ASSUME NEW j \in DOMAIN r
      PROVE  \E k \in DOMAIN s : r[j] = s[k] /\ k = IF j < i THEN j ELSE j + 1
  BY <1>1, <1>2, <1>3
<1>5. ValidateProperties(r)
  <2>1. ASSUME NEW j \in DOMAIN r PROVE r[j] # NoProperty
    BY <1>4 DEF Valid, ValidateProperties
  <2>2. ASSUME NEW j \in DOMAIN r, NEW k \in DOMAIN r, j # k
        PROVE  /\ PropertyType(r[j]) # UnknownType => PropertyType(r[j]) # PropertyType(r[k])
               /\ propertyName[r[j]] # propertyName[r[k]]
    <3>1. PICK a \in DOMAIN s : r[j] = s[a] /\ a = IF j < i THEN j ELSE j + 1
      BY <1>4
    <3>2. PICK b \in DOMAIN s : r[k] = s[b] /\ b = IF k < i THEN k ELSE k + 1
      BY <1>4
    <3>3. a # b
      BY <1>1, <1>3, <2>2, <3>1, <3>2
    <3> QED BY <3>1, <3>2, <3>3 DEF Valid, ValidateProperties
  <2> QED BY <2>1, <2>2 DEF ValidateProperties
<1>6. Range(r) = Range(s) \ {s[i]}
  <2>1. ASSUME NEW j \in DOMAIN r PROVE r[j] \in Range(s) \ {s[i]}
    <3>1. PICK k \in DOMAIN s : r[j] = s[k] /\ k = IF j < i THEN j ELSE j + 1
      BY <1>4
    <3>2. k # i
      BY <1>1, <1>3, <3>1
    <3> QED BY <1>1, <3>1, <3>2, ValidNames DEF Range
  <2>2. ASSUME NEW k \in DOMAIN s, s[k] # s[i] PROVE s[k] \in Range(r)
    <3>1. CASE k < i
      <4>1. k \in DOMAIN r /\ r[k] = s[k]
        BY <1>1, <1>2, <1>3, <3>1
      <4> QED BY <4>1 DEF Range
    <3>2. CASE k > i
      <4>1. k - 1 \in DOMAIN r /\ r[k - 1] = s[k]
        BY <1>1, <1>2, <1>3, <3>2
      <4> QED BY <4>1 DEF Range
    <3> QED BY <1>1, <2>2, <3>1, <3>2
  <2> QED BY <2>1, <2>2 DEF Range
<1> QED BY <1>2, <1>5, <1>6 DEF Valid, r

(* A valid sequence is one of valid names, with a new name appended.       *)
LEMMA AppendValid ==
  ASSUME NEW s, Valid(s), NEW p \in Properties,
         \A i \in DOMAIN s : propertyName[s[i]] # propertyName[p]
  PROVE  /\ Valid(Append(s, p))
         /\ Range(Append(s, p)) = Range(s) \cup {p}
<1> DEFINE a == Append(s, p)
<1>1. s \in Seq(Properties) /\ Len(s) \in Nat /\ DOMAIN s = 1..Len(s)
  BY DEF Valid
<1>2. /\ a \in Seq(Properties) /\ DOMAIN a = 1..(Len(s) + 1)
      /\ a[Len(s) + 1] = p /\ \A i \in DOMAIN s : a[i] = s[i]
  BY <1>1
<1> HIDE DEF a
<1>3. \A i \in DOMAIN a : i \in DOMAIN s \/ i = Len(s) + 1
  BY <1>1, <1>2
<1>4. \A i \in DOMAIN s : PropertyType(p) # UnknownType => PropertyType(s[i]) # PropertyType(p)
  BY TypeTellsName
<1>5. ValidateProperties(a)
  <2>1. ASSUME NEW i \in DOMAIN a PROVE a[i] # NoProperty
    BY <1>2, <1>3, NoPropertyAssumption DEF Valid, ValidateProperties
  <2>2. ASSUME NEW i \in DOMAIN a, NEW j \in DOMAIN a, i # j
        PROVE  /\ PropertyType(a[i]) # UnknownType => PropertyType(a[i]) # PropertyType(a[j])
               /\ propertyName[a[i]] # propertyName[a[j]]
    <3>1. CASE i \in DOMAIN s /\ j \in DOMAIN s
      BY <1>2, <2>2, <3>1 DEF Valid, ValidateProperties
    <3>2. CASE i \in DOMAIN s /\ j = Len(s) + 1
      BY <1>2, <1>4, <3>2
    <3>3. CASE i = Len(s) + 1 /\ j \in DOMAIN s
      BY <1>2, <1>4, <3>3
    <3> QED BY <1>3, <2>2, <3>1, <3>2, <3>3
  <2> QED BY <2>1, <2>2 DEF ValidateProperties
<1>6. Range(a) = Range(s) \cup {p}
  <2>1. Len(s) + 1 \in DOMAIN a /\ DOMAIN s \subseteq DOMAIN a
    BY <1>1, <1>2
  <2> QED BY <1>2, <1>3, <2>1 DEF Range
<1> QED BY <1>2, <1>5, <1>6 DEF Valid, a

-----------------------------------------------------------------------------
(* The operations on a valid sequence.                                     *)

(* What RemoveProperty leaves.                                             *)
LEMMA RemoveFirstValid ==
  ASSUME NEW s, Valid(s), NEW p \in Range(s)
  PROVE  /\ Valid(RemoveFirst(s, p))
         /\ Range(RemoveFirst(s, p)) = Range(s) \ {p}
<1>1. s \in Seq(Properties) /\ Len(s) \in Nat /\ DOMAIN s = 1..Len(s)
  BY DEF Valid
<1>2. PICK i \in 1..Len(s) : s[i] = p
  BY <1>1 DEF Range
<1>3. {j \in 1..Len(s) : s[j] = p} = {i}
  BY <1>2, ValidNames
<1>4. SelectInSeq(s, LAMBDA v : v = p) = i
  BY <1>1, <1>2, <1>3, MinOfOne DEF SelectInSeq
<1>5. RemoveFirst(s, p) = RemoveAt(s, i)
  BY <1>2, <1>4 DEF RemoveFirst
<1> QED BY <1>2, <1>5, RemoveAtValid

(* What SetProperty leaves when it has erased a name ...                   *)
LEMMA EraseNameValid ==
  ASSUME NEW s, Valid(s), NEW name
  PROVE  /\ Valid(EraseName(s, name))
         /\ Range(EraseName(s, name)) = {p \in Range(s) : propertyName[p] # name}
<1>1. s \in Seq(Properties) /\ Len(s) \in Nat /\ DOMAIN s = 1..Len(s)
  BY DEF Valid
<1>2. CASE \E i \in 1..Len(s) : propertyName[s[i]] = name
  <2>1. PICK i \in 1..Len(s) : propertyName[s[i]] = name
    BY <1>2
  <2>2. {j \in 1..Len(s) : propertyName[s[j]] = name} = {i}
    BY <2>1, ValidNames
  <2>3. SelectInSeq(s, LAMBDA property : propertyName[property] = name) = i
    BY <1>1, <2>1, <2>2, MinOfOne DEF SelectInSeq
  <2>4. EraseName(s, name) = RemoveAt(s, i)
    BY <2>1, <2>3 DEF EraseName, RemoveFirstMatch
  <2>5. {p \in Range(s) : propertyName[p] # name} = Range(s) \ {s[i]}
    BY <1>1, <2>1, ValidNames DEF Range
  <2> QED BY <2>1, <2>4, <2>5, RemoveAtValid
<1>3. CASE ~\E i \in 1..Len(s) : propertyName[s[i]] = name
  <2>1. EraseName(s, name) = s
    BY <1>3 DEF EraseName, RemoveFirstMatch
  <2>2. \A p \in Range(s) : propertyName[p] # name
    BY <1>1, <1>3 DEF Range
  <2> QED BY <2>1, <2>2
<1> QED BY <1>2, <1>3

(* ... which leaves nothing for it to erase by type.                       *)
LEMMA EraseTypeIdle ==
  ASSUME NEW s \in Seq(Properties), NEW p, \A q \in Range(s) : propertyName[q] # propertyName[p]
  PROVE  EraseType(s, PropertyType(p)) = s
<1>1. ASSUME PropertyType(p) # UnknownType, NEW i \in 1..Len(s)
      PROVE  PropertyType(s[i]) # PropertyType(p)
  <2>1. s[i] \in Range(s)
    BY DEF Range
  <2> QED BY <1>1, <2>1, TypeTellsName
<1> QED BY <1>1 DEF EraseType, RemoveFirstMatch

(* What SetProperty makes of a sequence.                                   *)
LEMMA SetValid ==
  ASSUME NEW s, Valid(s), NEW p \in Properties
  PROVE  LET new == Append(EraseType(EraseName(s, propertyName[p]), PropertyType(p)), p)
         IN  /\ Valid(new)
             /\ Range(new) = {q \in Range(s) : propertyName[q] # propertyName[p]} \cup {p}
<1> DEFINE e == EraseName(s, propertyName[p])
<1>1. Valid(e) /\ Range(e) = {q \in Range(s) : propertyName[q] # propertyName[p]}
  BY EraseNameValid
<1> HIDE DEF e
<1>2. EraseType(e, PropertyType(p)) = e
  BY <1>1, EraseTypeIdle DEF Valid
<1>3. \A i \in DOMAIN e : propertyName[e[i]] # propertyName[p]
  BY <1>1 DEF Range
<1>4. Valid(Append(e, p)) /\ Range(Append(e, p)) = Range(e) \cup {p}
  BY <1>1, <1>3, AppendValid
<1> QED BY <1>1, <1>2, <1>4 DEF e

(* What SetProperties accepts is valid.                                    *)
LEMMA AcceptedIsValid ==
  ASSUME NEW s \in PropertySequences, ValidateProperties(s)
  PROVE  Valid(s)
<1>1. PICK n \in 0..MaxArguments : s \in [1..n -> Properties \cup {NoProperty}]
  BY DEF PropertySequences
<1>2. \A i \in 1..n : s[i] \in Properties
  BY <1>1 DEF ValidateProperties
<1>3. n \in Nat
  BY <1>1
<1>4. s \in [1..n -> Properties]
  BY <1>1, <1>2
<1> QED BY <1>3, <1>4 DEF Valid

-----------------------------------------------------------------------------
(* The invariant: the sequence of each node is one that ValidateProperties *)
(* accepts, whether that has been asked or not.                            *)

AllValid == \A node \in Nodes : ValidateProperties(nodeProperties[node])
PropertiesInv == TypeOK /\ AllValid

LEMMA InvGivesValid ==
  ASSUME PropertiesInv, NEW node \in Nodes
  PROVE  Valid(nodeProperties[node])
BY DEF PropertiesInv, TypeOK, AllValid, Valid

LEMMA InitSound == NodePropertiesInit => PropertiesInv
BY DEF NodePropertiesInit, PropertiesInv, TypeOK, AllValid, ValidateProperties

Operations == {"SetProperties", "SetProperty", "AppendProperty", "RemoveProperty", "RemoveAllProperties"}

(* A call that gives a node a valid sequence keeps the invariant ...       *)
LEMMA AssignSound ==
  ASSUME PropertiesInv, NEW node \in Nodes, NEW operation \in Operations,
         NEW s, Valid(s), Assign(operation, node, s)
  PROVE  PropertiesInv'
<1>1. TypeOK'
  BY DEF PropertiesInv, TypeOK, Assign, Operations, Valid
<1>2. AllValid'
  <2>1. ASSUME NEW other \in Nodes PROVE ValidateProperties(nodeProperties'[other])
    BY DEF PropertiesInv, TypeOK, AllValid, Assign, Valid
  <2> QED BY <2>1 DEF AllValid, ValidateProperties, PropertyType, Assign
<1> QED BY <1>1, <1>2 DEF PropertiesInv

(* ... and so does one that throws.                                        *)
LEMMA ThrowSound ==
  ASSUME PropertiesInv, NEW operation \in Operations, Throw(operation)
  PROVE  PropertiesInv'
<1>1. TypeOK'
  BY DEF PropertiesInv, TypeOK, Throw, Operations
<1>2. AllValid'
  BY DEF PropertiesInv, AllValid, Throw, ValidateProperties, PropertyType
<1> QED BY <1>1, <1>2 DEF PropertiesInv

(* What each operation does to a node whose sequence is valid: it refuses, *)
(* or it leaves a valid sequence.                                          *)
LEMMA SetPropertiesEffect ==
  ASSUME NEW node \in Nodes, NEW properties \in PropertySequences, SetProperties(node, properties)
  PROVE  \/ Throw("SetProperties")
         \/ Valid(properties) /\ Assign("SetProperties", node, properties)
BY AcceptedIsValid DEF SetProperties

LEMMA SetPropertyEffect ==
  ASSUME PropertiesInv, NEW node \in Nodes, NEW p \in Properties \cup {NoProperty}, SetProperty(node, p)
  PROVE  \/ Throw("SetProperty")
         \/ /\ p \in Properties
            /\ \E s : /\ Valid(s) /\ Assign("SetProperty", node, s)
                      /\ Range(s) = {q \in Range(nodeProperties[node]) :
                                       propertyName[q] # propertyName[p]} \cup {p}
<1>1. CASE p = NoProperty
  BY <1>1 DEF SetProperty
<1>2. CASE p # NoProperty
  <2>1. p \in Properties /\ Valid(nodeProperties[node])
    BY <1>2, InvGivesValid
  <2> DEFINE new == Append(EraseType(EraseName(nodeProperties[node], propertyName[p]), PropertyType(p)), p)
  <2>2. Assign("SetProperty", node, new)
    BY <1>2 DEF SetProperty
  <2>3. /\ Valid(new)
        /\ Range(new) = {q \in Range(nodeProperties[node]) : propertyName[q] # propertyName[p]} \cup {p}
    BY <2>1, SetValid
  <2> QED BY <2>1, <2>2, <2>3
<1> QED BY <1>1, <1>2

LEMMA AppendPropertyEffect ==
  ASSUME PropertiesInv, NEW node \in Nodes, NEW p \in Properties \cup {NoProperty}, AppendProperty(node, p)
  PROVE  \/ Throw("AppendProperty")
         \/ /\ p \in Properties
            /\ \A q \in Range(nodeProperties[node]) : propertyName[q] # propertyName[p]
            /\ \E s : /\ Valid(s) /\ Assign("AppendProperty", node, s)
                      /\ Range(s) = Range(nodeProperties[node]) \cup {p}
<1> DEFINE old == nodeProperties[node]
           new == Append(old, p)
<1>1. CASE Throw("AppendProperty")
  BY <1>1
<1>2. CASE ~Throw("AppendProperty")
  <2>1. p \in Properties /\ ValidateProperties(new) /\ Assign("AppendProperty", node, new)
    BY <1>2 DEF AppendProperty
  <2>2. Valid(old) /\ old \in Seq(Properties) /\ Len(old) \in Nat /\ DOMAIN old = 1..Len(old)
    BY InvGivesValid DEF Valid
  <2> HIDE DEF old
  <2>3. ASSUME NEW i \in DOMAIN old PROVE propertyName[old[i]] # propertyName[p]
    <3>1. /\ i \in DOMAIN new /\ Len(old) + 1 \in DOMAIN new /\ i # Len(old) + 1
          /\ new[i] = old[i] /\ new[Len(old) + 1] = p
      BY <2>1, <2>2
    <3> HIDE DEF new
    <3> QED BY <2>1, <3>1 DEF ValidateProperties
  <2>4. Valid(new) /\ Range(new) = Range(old) \cup {p}
    BY <2>1, <2>2, <2>3, AppendValid
  <2>5. \A q \in Range(old) : propertyName[q] # propertyName[p]
    BY <2>3 DEF Range
  <2> QED BY <2>1, <2>4, <2>5 DEF old
<1> QED BY <1>1, <1>2

LEMMA RemovePropertyEffect ==
  ASSUME PropertiesInv, NEW node \in Nodes, NEW p \in Properties \cup {NoProperty}, RemoveProperty(node, p)
  PROVE  \/ Throw("RemoveProperty")
         \/ /\ p \in Range(nodeProperties[node])
            /\ \E s : /\ Valid(s) /\ Assign("RemoveProperty", node, s)
                      /\ Range(s) = Range(nodeProperties[node]) \ {p}
<1>1. CASE p \notin Range(nodeProperties[node])
  BY <1>1 DEF RemoveProperty
<1>2. CASE p \in Range(nodeProperties[node])
  <2> DEFINE new == RemoveFirst(nodeProperties[node], p)
  <2>1. Assign("RemoveProperty", node, new)
    BY <1>2 DEF RemoveProperty
  <2>2. Valid(new) /\ Range(new) = Range(nodeProperties[node]) \ {p}
    BY <1>2, InvGivesValid, RemoveFirstValid
  <2> QED BY <1>2, <2>1, <2>2
<1> QED BY <1>1, <1>2

LEMMA RemoveAllPropertiesEffect ==
  ASSUME NEW node \in Nodes, RemoveAllProperties(node)
  PROVE  Valid(<<>>) /\ Assign("RemoveAllProperties", node, <<>>) /\ Range(<<>>) = {}
BY DEF RemoveAllProperties, Valid, ValidateProperties, Range

LEMMA StepSound == PropertiesInv /\ [NodePropertiesNext]_nodePropertyVars => PropertiesInv'
<1> SUFFICES ASSUME PropertiesInv, [NodePropertiesNext]_nodePropertyVars PROVE PropertiesInv'
  OBVIOUS
<1>1. CASE UNCHANGED nodePropertyVars
  BY <1>1 DEF nodePropertyVars, PropertiesInv, TypeOK, AllValid, ValidateProperties, PropertyType
<1>2. CASE NodePropertiesNext
  <2>1. PICK node \in Nodes :
          \/ \E properties \in PropertySequences : SetProperties(node, properties)
          \/ \E p \in Properties \cup {NoProperty} : SetProperty(node, p)
          \/ \E p \in Properties \cup {NoProperty} : AppendProperty(node, p)
          \/ \E p \in Properties \cup {NoProperty} : RemoveProperty(node, p)
          \/ RemoveAllProperties(node)
    BY <1>2 DEF NodePropertiesNext
  <2>2. ASSUME NEW properties \in PropertySequences, SetProperties(node, properties) PROVE PropertiesInv'
    BY <2>2, SetPropertiesEffect, AssignSound, ThrowSound DEF Operations
  <2>3. ASSUME NEW p \in Properties \cup {NoProperty}, SetProperty(node, p) PROVE PropertiesInv'
    BY <2>3, SetPropertyEffect, AssignSound, ThrowSound DEF Operations
  <2>4. ASSUME NEW p \in Properties \cup {NoProperty}, AppendProperty(node, p) PROVE PropertiesInv'
    BY <2>4, AppendPropertyEffect, AssignSound, ThrowSound DEF Operations
  <2>5. ASSUME NEW p \in Properties \cup {NoProperty}, RemoveProperty(node, p) PROVE PropertiesInv'
    BY <2>5, RemovePropertyEffect, AssignSound, ThrowSound DEF Operations
  <2>6. ASSUME RemoveAllProperties(node) PROVE PropertiesInv'
    BY <2>6, RemoveAllPropertiesEffect, AssignSound DEF Operations
  <2> QED BY <2>1, <2>2, <2>3, <2>4, <2>5, <2>6
<1> QED BY <1>1, <1>2

LEMMA AlwaysSound == NodePropertiesSpec => []PropertiesInv
BY InitSound, StepSound, PTL DEF NodePropertiesSpec

(* Only one of each property per node, however the client edits it, for    *)
(* any number of nodes and properties and any names.                       *)
THEOREM AlwaysUnique == NodePropertiesSpec => []UniqueProperties
<1>1. PropertiesInv => UniqueProperties
  BY DEF PropertiesInv, AllValid, ValidateProperties, UniqueProperties
<1> QED BY <1>1, AlwaysSound, PTL

-----------------------------------------------------------------------------
(* The abstract map.                                                       *)

(* The abstract value of a node, and of a call that assigns to it.         *)
Content == [node \in Nodes |-> Range(nodeProperties[node])]

LEMMA AssignIsAccept ==
  ASSUME PropertiesInv, NEW node \in Nodes, NEW operation, NEW s, Assign(operation, node, s)
  PROVE  Map!Accept(operation, node, Range(s))
<1>1. Content' = [Content EXCEPT ![node] = Range(s)]
  BY DEF PropertiesInv, TypeOK, Assign, Content
<1> QED BY <1>1 DEF Assign, Map!Accept, Content

LEMMA ThrowIsRefuse ==
  ASSUME NEW operation \in Operations \ {"RemoveAllProperties"}, Throw(operation)
  PROVE  Map!Refuse
BY DEF Throw, Map!Refuse, Operations

(* A property object is one that the map knows, and those of a node have   *)
(* different names.                                                        *)
LEMMA PropertiesAreKnown == PropertiesInv => DOMAIN propertyName = Properties
BY NamingsAssumption DEF PropertiesInv, TypeOK

LEMMA ValidIsMap ==
  ASSUME NEW s, Valid(s)
  PROVE  Range(s) \subseteq Properties /\ Map!UniqueNames(Range(s))
<1>1. s \in Seq(Properties) /\ DOMAIN s = 1..Len(s)
  BY DEF Valid
<1> QED BY <1>1, ValidNames DEF Range, Map!UniqueNames, Map!SameName

LEMMA StepImplements ==
  PropertiesInv /\ [NodePropertiesNext]_nodePropertyVars => [Map!Next]_Map!mapVars
<1> SUFFICES ASSUME PropertiesInv, [NodePropertiesNext]_nodePropertyVars
             PROVE  Map!Next \/ UNCHANGED Map!mapVars
  OBVIOUS
<1>1. CASE UNCHANGED nodePropertyVars
  BY <1>1 DEF nodePropertyVars, Map!mapVars
<1>2. CASE NodePropertiesNext
  <2>1. PICK node \in Nodes :
          \/ \E properties \in PropertySequences : SetProperties(node, properties)
          \/ \E p \in Properties \cup {NoProperty} : SetProperty(node, p)
          \/ \E p \in Properties \cup {NoProperty} : AppendProperty(node, p)
          \/ \E p \in Properties \cup {NoProperty} : RemoveProperty(node, p)
          \/ RemoveAllProperties(node)
    BY <1>2 DEF NodePropertiesNext
  <2>2. DOMAIN propertyName = Properties
    BY PropertiesAreKnown
  <2>3. Content[node] = Range(nodeProperties[node])
    BY DEF Content
  <2>4. ASSUME NEW properties \in PropertySequences, SetProperties(node, properties) PROVE Map!Next
    <3>1. CASE Throw("SetProperties")
      BY <3>1, ThrowIsRefuse DEF Operations, Map!Next
    <3>2. CASE Valid(properties) /\ Assign("SetProperties", node, properties)
      <4>1. Map!Replace(node, Range(properties))
        BY <3>2, AssignIsAccept, ValidIsMap DEF Map!Replace
      <4>2. Range(properties) \in SUBSET DOMAIN propertyName
        BY <2>2, <3>2, ValidIsMap
      <4> QED BY <4>1, <4>2 DEF Map!Next
    <3> QED BY <2>4, <3>1, <3>2, SetPropertiesEffect
  <2>5. ASSUME NEW p \in Properties \cup {NoProperty}, SetProperty(node, p) PROVE Map!Next
    <3>1. CASE Throw("SetProperty")
      BY <3>1, ThrowIsRefuse DEF Operations, Map!Next
    <3>2. ASSUME p \in Properties, NEW s, Assign("SetProperty", node, s),
                 Range(s) = {q \in Range(nodeProperties[node]) : propertyName[q] # propertyName[p]} \cup {p}
          PROVE  Map!Next
      <4>1. Map!Accept("SetProperty", node, Range(s))
        BY <3>2, AssignIsAccept
      <4>2. Map!Put(node, p)
        BY <2>3, <3>2, <4>1 DEF Map!Put, Map!SameName, Content
      <4> QED BY <2>2, <3>2, <4>2 DEF Map!Next
    <3> QED BY <2>5, <3>1, <3>2, SetPropertyEffect
  <2>6. ASSUME NEW p \in Properties \cup {NoProperty}, AppendProperty(node, p) PROVE Map!Next
    <3>1. CASE Throw("AppendProperty")
      BY <3>1, ThrowIsRefuse DEF Operations, Map!Next
    <3>2. ASSUME p \in Properties, NEW s, Assign("AppendProperty", node, s),
                 \A q \in Range(nodeProperties[node]) : propertyName[q] # propertyName[p],
                 Range(s) = Range(nodeProperties[node]) \cup {p}
          PROVE  Map!Next
      <4>1. Map!Accept("AppendProperty", node, Range(s))
        BY <3>2, AssignIsAccept
      <4>2. Map!Add(node, p)
        BY <2>3, <3>2, <4>1 DEF Map!Add, Map!SameName, Content
      <4> QED BY <2>2, <3>2, <4>2 DEF Map!Next
    <3> QED BY <2>6, <3>1, <3>2, AppendPropertyEffect
  <2>7. ASSUME NEW p \in Properties \cup {NoProperty}, RemoveProperty(node, p) PROVE Map!Next
    <3>1. CASE Throw("RemoveProperty")
      BY <3>1, ThrowIsRefuse DEF Operations, Map!Next
    <3>2. ASSUME p \in Range(nodeProperties[node]), NEW s, Assign("RemoveProperty", node, s),
                 Range(s) = Range(nodeProperties[node]) \ {p}
          PROVE  Map!Next
      <4>1. Map!Accept("RemoveProperty", node, Range(s))
        BY <3>2, AssignIsAccept
      <4>2. Map!Remove(node, p)
        BY <2>3, <3>2, <4>1 DEF Map!Remove, Content
      <4>3. p \in Properties
        BY <3>2, InvGivesValid, ValidIsMap
      <4> QED BY <2>2, <4>2, <4>3 DEF Map!Next
    <3> QED BY <2>7, <3>1, <3>2, RemovePropertyEffect
  <2>8. ASSUME RemoveAllProperties(node) PROVE Map!Next
    <3>1. Map!RemoveAll(node)
      BY <2>8, RemoveAllPropertiesEffect, AssignIsAccept DEF Map!RemoveAll
    <3> QED BY <3>1 DEF Map!Next
  <2> QED BY <2>1, <2>4, <2>5, <2>6, <2>7, <2>8
<1> QED BY <1>1, <1>2

(* Each operation on the sequence of a node is the operation of that name  *)
(* on its map from names to properties, and a call that throws changes     *)
(* nothing.                                                                *)
THEOREM SequencesImplementMap == NodePropertiesSpec => ImplementsPropertyMap
<1>1. NodePropertiesInit => Map!Init
  BY DEF NodePropertiesInit, Map!Init, Range
<1> QED BY <1>1, AlwaysSound, StepImplements, PTL
        DEF NodePropertiesSpec, ImplementsPropertyMap, Map!Spec

-----------------------------------------------------------------------------
(* Folds.                                                                  *)

(* A nonempty set of numbers has a least element.                          *)
LEMMA LeastNumber ==
  ASSUME NEW S, S \subseteq Nat, S # {}
  PROVE  \E i \in S : \A j \in S : i <= j
<1> DEFINE Less == {p \in Nat \X Nat : p[1] < p[2]}
<1>1. IsWellFoundedOn(Less, Nat)
  <2>1. Less = OpToRel(<, Nat)
    BY DEF OpToRel
  <2> QED BY <2>1, NatLessThanWellFounded
<1>2. PICK i \in S : \A j \in S : ~(<<j, i>> \in Less)
  <2> HIDE DEF Less
  <2> QED BY <1>1, WFMin
<1>3. ASSUME NEW j \in S PROVE i <= j
  <2>1. i \in Nat /\ j \in Nat
    OBVIOUS
  <2>2. ~(j < i)
    BY <1>2, <2>1
  <2> QED BY <2>1, <2>2
<1> QED BY <1>3

(* What FoldLeft applies to a sequence of n elements: a function on sets   *)
(* of indices, which takes the greatest index last.                        *)
Folds(f, op, base, seq, n) ==
  \A s \in SUBSET (1..n) :
    f[s] = IF s = {} THEN base ELSE op[<<f[s \ {Max(s)}], seq[Max(s)]>>]

(* The greatest index of a set that has the last one.                      *)
LEMMA GreatestIs ==
  ASSUME NEW n \in Nat, NEW s \in SUBSET (1..n), n \in s
  PROVE  Max(s) = n
<1>1. \A x \in s : x \in Int /\ x <= n
  OBVIOUS
<1>2. \A m \in s : (\A y \in s : m >= y) => m = n
  BY <1>1
<1>3. n \in s /\ \A y \in s : n >= y
  BY <1>1
<1> QED BY <1>2, <1>3 DEF Max

(* A nonempty set of indices has a greatest.                               *)
LEMMA GreatestElement ==
  ASSUME NEW n \in Nat, NEW s \in SUBSET (1..n), s # {}
  PROVE  Max(s) \in s
<1> DEFINE Gaps == {n - x : x \in s}
<1>1. \A x \in s : x \in 1..n
  OBVIOUS
<1>2. Gaps \subseteq Nat /\ Gaps # {}
  <2>1. \A x \in s : n - x \in Nat
    BY <1>1
  <2> QED BY <2>1
<1>3. PICK i \in Gaps : \A j \in Gaps : i <= j
  <2> HIDE DEF Gaps
  <2> QED BY <1>2, LeastNumber
<1>4. PICK m \in s : i = n - m
  BY <1>3
<1>5. \A y \in s : m >= y
  <2> SUFFICES ASSUME NEW y \in s PROVE m >= y
    OBVIOUS
  <2>1. n - y \in Gaps /\ n - m <= n - y
    BY <1>3, <1>4
  <2> QED BY <1>1, <2>1
<1> QED BY <1>5 DEF Max

(* Such a function exists for every operation on values and elements.      *)
LEMMA FoldExists ==
  ASSUME NEW Value, NEW Element, NEW base \in Value, NEW op \in [Value \X Element -> Value],
         NEW seq \in Seq(Element), NEW n \in 0..Len(seq)
  PROVE  \E f \in [SUBSET (1..n) -> Value] : Folds(f, op, base, seq, n)
<1> DEFINE Exists(k) == \E f \in [SUBSET (1..k) -> Value] : Folds(f, op, base, seq, k)
           Bad == {k \in 0..Len(seq) : ~Exists(k)}
<1>1. Len(seq) \in Nat
  OBVIOUS
<1>2. Exists(0)
  <2> DEFINE f == [s \in SUBSET (1..0) |-> base]
  <2>1. \A s \in SUBSET (1..0) : s = {}
    OBVIOUS
  <2>2. f \in [SUBSET (1..0) -> Value] /\ \A s \in SUBSET (1..0) : f[s] = base
    OBVIOUS
  <2> QED BY <2>1, <2>2 DEF Folds
<1>3. ASSUME NEW k \in 1..Len(seq), Exists(k - 1) PROVE Exists(k)
  <2>1. PICK g \in [SUBSET (1..(k - 1)) -> Value] : Folds(g, op, base, seq, k - 1)
    BY <1>3
  <2> DEFINE f == [s \in SUBSET (1..k) |-> IF k \in s THEN op[<<g[s \ {k}], seq[k]>>] ELSE g[s]]
  <2>2. ASSUME NEW s \in SUBSET (1..k) PROVE s \ {k} \in SUBSET (1..(k - 1))
    BY <1>1
  <2>3. f \in [SUBSET (1..k) -> Value]
    <3>1. ASSUME NEW s \in SUBSET (1..k) PROVE f[s] \in Value
      <4>1. CASE k \in s
        <5>1. g[s \ {k}] \in Value /\ seq[k] \in Element
          BY <2>2
        <5> QED BY <4>1, <5>1
      <4>2. CASE k \notin s
        <5>1. s \ {k} = s
          BY <4>2
        <5> QED BY <2>2, <4>2, <5>1
      <4> QED BY <4>1, <4>2
    <3> QED BY <3>1
  <2>4. ASSUME NEW s \in SUBSET (1..k)
        PROVE  f[s] = IF s = {} THEN base ELSE op[<<f[s \ {Max(s)}], seq[Max(s)]>>]
    <3>1. CASE k \in s
      <4>1. Max(s) = k
        BY <1>1, <3>1, GreatestIs
      <4>2. s \ {k} \in SUBSET (1..k) /\ k \notin s \ {k} /\ s # {}
        BY <3>1
      <4>3. f[s \ {k}] = g[s \ {k}]
        BY <4>2
      <4> QED BY <3>1, <4>1, <4>2, <4>3
    <3>2. CASE k \notin s
      <4>1. s \in SUBSET (1..(k - 1))
        BY <1>1, <3>2
      <4>2. CASE s = {}
        BY <2>1, <3>2, <4>1, <4>2 DEF Folds
      <4>3. CASE s # {}
        <5>1. s \ {Max(s)} \in SUBSET (1..k) /\ k \notin s \ {Max(s)}
          BY <3>2
        <5>2. f[s \ {Max(s)}] = g[s \ {Max(s)}]
          BY <5>1
        <5>3. g[s] = op[<<g[s \ {Max(s)}], seq[Max(s)]>>]
          BY <2>1, <4>1, <4>3 DEF Folds
        <5> QED BY <3>2, <4>3, <5>2, <5>3
      <4> QED BY <4>2, <4>3
    <3> QED BY <3>1, <3>2
  <2> HIDE DEF f
  <2> QED BY <2>3, <2>4 DEF Folds
<1> HIDE DEF Exists
<1>4. Bad = {}
  <2> SUFFICES ASSUME Bad # {} PROVE FALSE
    OBVIOUS
  <2>1. PICK k \in Bad : \A j \in Bad : k <= j
    <3>1. Bad \subseteq Nat
      OBVIOUS
    <3> HIDE DEF Bad
    <3> QED BY <3>1, LeastNumber
  <2>2. k \in 0..Len(seq) /\ k # 0
    BY <1>2, <2>1
  <2>3. k \in 1..Len(seq) /\ k - 1 \in 0..Len(seq) /\ ~(k <= k - 1)
    BY <1>1, <2>2
  <2> QED BY <1>3, <2>1, <2>3
<1>5. Exists(n)
  BY <1>4
<1> QED BY <1>5 DEF Exists

(* The values a fold takes on, one for each element.                       *)
Steps(after, op, base, seq) ==
  /\ after[0] = base
  /\ \A k \in 1..Len(seq) : after[k] = op[<<after[k - 1], seq[k]>>]

(* f applies op, as long as what it has so far is a value.                 *)
Folding(f, Value, op, base, seq) ==
  /\ f[{}] = base
  /\ \A s \in SUBSET (1..Len(seq)) :
       s # {} /\ f[s \ {Max(s)}] \in Value => f[s] = op[<<f[s \ {Max(s)}], seq[Max(s)]>>]

(* What f makes of all indices is the last of the values of a fold.        *)
InSteps(f, Value, op, base, seq) ==
  \E after \in [0..Len(seq) -> Value] :
    Steps(after, op, base, seq) /\ f[1..Len(seq)] = after[Len(seq)]

(* What such a function comes to is the last of those values.              *)
LEMMA FoldSteps ==
  ASSUME NEW Value, NEW Element, NEW base \in Value, NEW op \in [Value \X Element -> Value],
         NEW seq \in Seq(Element), NEW f, Folding(f, Value, op, base, seq)
  PROVE  InSteps(f, Value, op, base, seq)
<1> DEFINE after == [k \in 0..Len(seq) |-> f[1..k]]
           Bad == {k \in 0..Len(seq) : after[k] \notin Value}
<1>1. Len(seq) \in Nat
  OBVIOUS
<1>2. after[0] = base
  <2>1. 1..0 = {} /\ 0 \in 0..Len(seq)
    BY <1>1
  <2> QED BY <2>1 DEF Folding
<1>3. ASSUME NEW k \in 1..Len(seq), after[k - 1] \in Value PROVE after[k] = op[<<after[k - 1], seq[k]>>]
  <2>1. k \in 1..k /\ k \in Nat /\ 1..k # {} /\ 1..k \in SUBSET (1..Len(seq))
    <3>1. k \in 1..k /\ k \in Nat
      BY <1>1
    <3>2. \A x \in 1..k : x \in 1..Len(seq)
      BY <1>1
    <3> QED BY <3>1, <3>2
  <2>2. Max(1..k) = k
    BY <2>1, GreatestIs
  <2>3. k - 1 \in 0..Len(seq) /\ k \in 0..Len(seq) /\ (1..k) \ {k} = 1..(k - 1)
    <3>1. ASSUME NEW x PROVE x \in (1..k) \ {k} <=> x \in 1..(k - 1)
      BY <1>1
    <3> QED BY <1>1, <3>1
  <2>4. f[1..k] = op[<<f[1..(k - 1)], seq[k]>>]
    BY <1>3, <2>1, <2>2, <2>3 DEF Folding
  <2> QED BY <2>3, <2>4
<1> HIDE DEF after
<1>4. Bad = {}
  <2> SUFFICES ASSUME Bad # {} PROVE FALSE
    OBVIOUS
  <2>1. PICK k \in Bad : \A j \in Bad : k <= j
    <3>1. Bad \subseteq Nat
      OBVIOUS
    <3> HIDE DEF Bad
    <3> QED BY <3>1, LeastNumber
  <2>2. k \in 0..Len(seq) /\ k # 0
    BY <1>2, <2>1
  <2>3. k \in 1..Len(seq) /\ k - 1 \in 0..Len(seq) /\ ~(k <= k - 1)
    BY <1>1, <2>2
  <2>4. after[k - 1] \in Value /\ seq[k] \in Element
    BY <2>1, <2>3
  <2>5. after[k] \in Value
    BY <1>3, <2>3, <2>4
  <2> QED BY <2>1, <2>5
<1>5. after \in [0..Len(seq) -> Value]
  <2>1. \A k \in 0..Len(seq) : after[k] \in Value
    BY <1>4
  <2>2. after = [k \in 0..Len(seq) |-> after[k]]
    BY DEF after
  <2> QED BY <2>1, <2>2
<1>6. f[1..Len(seq)] = after[Len(seq)]
  BY <1>1 DEF after
<1>7. \A k \in 1..Len(seq) : after[k - 1] \in Value
  BY <1>1, <1>5
<1> QED BY <1>2, <1>3, <1>5, <1>6, <1>7 DEF Steps, InSteps

(* The inner loop of GetInheritedProperties, over the properties of a      *)
(* node, as a sequence of steps.                                           *)
LEMMA CollectSteps ==
  ASSUME NEW base \in Seq(Properties), NEW seq \in Seq(Properties)
  PROVE  \E after \in [0..Len(seq) -> Seq(Properties)] :
           /\ after[0] = base
           /\ \A k \in 1..Len(seq) : after[k] = Collect(after[k - 1], seq[k])
           /\ FoldLeft(Collect, base, seq) = after[Len(seq)]
<1> DEFINE Value == Seq(Properties)
           op == [x \in Value \X Properties |-> Collect(x[1], x[2])]
           IsIter(f) == f = [s \in SUBSET (DOMAIN seq) |->
                               IF s = {} THEN base ELSE Collect(f[s \ {Max(s)}], seq[Max(s)])]
           iter == CHOOSE f : IsIter(f)
<1>1. \A v \in Value, p \in Properties : Collect(v, p) \in Value
  BY DEF Collect
<1>2. /\ op \in [Value \X Properties -> Value]
      /\ \A v \in Value, p \in Properties : op[<<v, p>>] = Collect(v, p)
  BY <1>1
<1>3. DOMAIN seq = 1..Len(seq) /\ Len(seq) \in Nat /\ Len(seq) \in 0..Len(seq)
      /\ \A i \in 1..Len(seq) : seq[i] \in Properties
  OBVIOUS
<1>4. ASSUME NEW s \in SUBSET (1..Len(seq)), s # {}
      PROVE  Max(s) \in 1..Len(seq) /\ s \ {Max(s)} \in SUBSET (1..Len(seq))
  BY <1>3, <1>4, GreatestElement
<1> HIDE DEF Value, op
<1>5. IsIter(iter)
  <2>1. PICK g \in [SUBSET (1..Len(seq)) -> Value] : Folds(g, op, base, seq, Len(seq))
    BY <1>2, <1>3, FoldExists DEF Value
  <2>2. ASSUME NEW s \in SUBSET (1..Len(seq))
        PROVE  g[s] = IF s = {} THEN base ELSE Collect(g[s \ {Max(s)}], seq[Max(s)])
    BY <1>2, <1>3, <1>4, <2>1 DEF Folds
  <2>3. g = [s \in SUBSET (1..Len(seq)) |-> g[s]]
    BY <2>1
  <2>4. IsIter(g)
    BY <1>3, <2>2, <2>3
  <2> HIDE DEF IsIter
  <2> QED BY <2>4
<1>6. FoldLeft(Collect, base, seq) = iter[1..Len(seq)]
  BY <1>3 DEF FoldLeft, MapThenFoldSet
<1> HIDE DEF iter
<1>7. \A s \in SUBSET (1..Len(seq)) :
        iter[s] = IF s = {} THEN base ELSE Collect(iter[s \ {Max(s)}], seq[Max(s)])
  BY <1>3, <1>5
<1>8. InSteps(iter, Value, op, base, seq)
  <2>1. iter[{}] = base
    BY <1>7
  <2>2. Folding(iter, Value, op, base, seq)
    BY <1>2, <1>3, <1>4, <1>7, <2>1 DEF Folding
  <2>3. base \in Value
    BY DEF Value
  <2>4. op \in [Value \X Properties -> Value]
    BY <1>2
  <2>5. seq \in Seq(Properties)
    OBVIOUS
  <2> HIDE DEF IsIter
  <2> QED BY <2>2, <2>3, <2>4, <2>5, FoldSteps
<1>9. PICK after \in [0..Len(seq) -> Value] :
        Steps(after, op, base, seq) /\ iter[1..Len(seq)] = after[Len(seq)]
  BY <1>8 DEF InSteps
<1>10. \A k \in 1..Len(seq) : after[k] = Collect(after[k - 1], seq[k])
  <2> SUFFICES ASSUME NEW k \in 1..Len(seq) PROVE after[k] = Collect(after[k - 1], seq[k])
    OBVIOUS
  <2>1. k - 1 \in 0..Len(seq)
    BY <1>3
  <2> QED BY <1>2, <1>3, <1>9, <2>1 DEF Steps
<1> QED BY <1>6, <1>9, <1>10 DEF Steps, Value

(* Induction over the numbers up to n, with the set of those for which the *)
(* claim holds.                                                            *)
LEMMA UpTo ==
  ASSUME NEW n \in Nat, NEW S, 0 \in S, \A k \in 1..n : k - 1 \in S => k \in S
  PROVE  0..n \subseteq S
<1> DEFINE Bad == {k \in 0..n : k \notin S}
<1>1. Bad = {}
  <2> SUFFICES ASSUME Bad # {} PROVE FALSE
    OBVIOUS
  <2>1. PICK k \in Bad : \A j \in Bad : k <= j
    <3>1. Bad \subseteq Nat
      OBVIOUS
    <3> HIDE DEF Bad
    <3> QED BY <3>1, LeastNumber
  <2>2. k \in 1..n /\ k - 1 \in 0..n /\ ~(k <= k - 1)
    BY <2>1
  <2> QED BY <2>1, <2>2
<1> QED BY <1>1

(* The names of what has been collected, which are all different.          *)
NamesOf(s) == {propertyName[p] : p \in Range(s)}
DistinctNames(s) == \A i, j \in 1..Len(s) : propertyName[s[i]] = propertyName[s[j]] => i = j

(* What one property adds.                                                 *)
LEMMA CollectAdds ==
  ASSUME NEW s \in Seq(Properties), DistinctNames(s), NEW p \in Properties
  PROVE  /\ Collect(s, p) \in Seq(Properties) /\ DistinctNames(Collect(s, p))
         /\ Range(Collect(s, p)) = Range(s) \cup {q \in {p} : IsInheritable(q) /\ propertyName[q] \notin NamesOf(s)}
<1> DEFINE a == Append(s, p)
<1>1. Len(s) \in Nat /\ DOMAIN s = 1..Len(s)
  OBVIOUS
<1>2. CASE IsInheritable(p) /\ propertyName[p] \notin NamesOf(s)
  <2>1. Collect(s, p) = a
    BY <1>2 DEF Collect, NamesOf
  <2>2. /\ a \in Seq(Properties) /\ DOMAIN a = 1..(Len(s) + 1) /\ Len(a) = Len(s) + 1
        /\ a[Len(s) + 1] = p /\ \A i \in 1..Len(s) : a[i] = s[i]
    BY <1>1
  <2> HIDE DEF a
  <2>3. \A i \in 1..(Len(s) + 1) : i \in 1..Len(s) \/ i = Len(s) + 1
    BY <1>1
  <2>4. \A i \in 1..Len(s) : propertyName[s[i]] # propertyName[p]
    BY <1>1, <1>2 DEF NamesOf, Range
  <2>5. DistinctNames(a)
    <3> SUFFICES ASSUME NEW i \in 1..Len(a), NEW j \in 1..Len(a), propertyName[a[i]] = propertyName[a[j]]
                 PROVE  i = j
      BY DEF DistinctNames
    <3> QED BY <2>2, <2>3, <2>4 DEF DistinctNames
  <2>6. Range(a) = Range(s) \cup {p}
    <3>1. \A i \in 1..Len(s) : i \in 1..(Len(s) + 1)
      BY <1>1
    <3>2. Len(s) + 1 \in 1..(Len(s) + 1)
      BY <1>1
    <3> QED BY <1>1, <2>2, <2>3, <3>1, <3>2 DEF Range
  <2> QED BY <1>2, <2>1, <2>2, <2>5, <2>6
<1>3. CASE ~(IsInheritable(p) /\ propertyName[p] \notin NamesOf(s))
  <2>1. Collect(s, p) = s
    BY <1>3 DEF Collect, NamesOf
  <2> QED BY <1>3, <2>1
<1> QED BY <1>2, <1>3

(* What a node adds: those of its properties that are inheritable, and of  *)
(* a name that has not been seen.                                          *)
LEMMA NodeAdds ==
  ASSUME NEW base \in Seq(Properties), DistinctNames(base), NEW s, Valid(s)
  PROVE  LET r == FoldLeft(Collect, base, s)
         IN  /\ r \in Seq(Properties) /\ DistinctNames(r)
             /\ Range(r) = Range(base) \cup {q \in Range(s) : IsInheritable(q) /\ propertyName[q] \notin NamesOf(base)}
<1>1. s \in Seq(Properties) /\ Len(s) \in Nat /\ DOMAIN s = 1..Len(s)
      /\ \A i \in 1..Len(s) : s[i] \in Properties
  BY DEF Valid
<1>2. PICK after \in [0..Len(s) -> Seq(Properties)] :
        /\ after[0] = base
        /\ \A k \in 1..Len(s) : after[k] = Collect(after[k - 1], s[k])
        /\ FoldLeft(Collect, base, s) = after[Len(s)]
  BY <1>1, CollectSteps
<1> DEFINE New(k) == {q \in {s[i] : i \in 1..k} : IsInheritable(q) /\ propertyName[q] \notin NamesOf(base)}
           Good == {k \in 0..Len(s) : DistinctNames(after[k]) /\ Range(after[k]) = Range(base) \cup New(k)}
<1>3. 0 \in Good
  <2>1. 1..0 = {} /\ 0 \in 0..Len(s)
    BY <1>1
  <2>2. New(0) = {}
    BY <2>1
  <2> HIDE DEF New
  <2> QED BY <1>2, <2>1, <2>2
<1>4. ASSUME NEW k \in 1..Len(s), k - 1 \in Good PROVE k \in Good
  <2> DEFINE v == after[k - 1]
  <2>1. k \in 0..Len(s) /\ k - 1 \in 0..Len(s) /\ v \in Seq(Properties) /\ s[k] \in Properties
    <3>1. k \in 0..Len(s) /\ k - 1 \in 0..Len(s)
      BY <1>1
    <3> QED BY <1>1, <1>2, <3>1
  <2>2. after[k] = Collect(v, s[k])
    BY <1>2
  <2>3. DistinctNames(v) /\ Range(v) = Range(base) \cup New(k - 1)
    BY <1>4
  <2> HIDE DEF v
  <2>4. \A i \in 1..k : i \in 1..Len(s) /\ (i \in 1..(k - 1) \/ i = k)
    BY <1>1
  <2>5. \A i \in 1..(k - 1) : i \in 1..k /\ i \in 1..Len(s) /\ i # k
    BY <1>1
  <2>6. \A i \in 1..(k - 1) : propertyName[s[i]] # propertyName[s[k]]
    BY <2>5, ValidNames
  <2>7. propertyName[s[k]] \in NamesOf(v) <=> propertyName[s[k]] \in NamesOf(base)
    BY <2>3, <2>6 DEF NamesOf
  <2>8. /\ DistinctNames(after[k])
        /\ Range(after[k]) = Range(v) \cup {q \in {s[k]} : IsInheritable(q) /\ propertyName[q] \notin NamesOf(v)}
    BY <2>1, <2>2, <2>3, CollectAdds
  <2>9. k \in 1..k
    BY <1>1
  <2>10. New(k) = New(k - 1) \cup {q \in {s[k]} : IsInheritable(q) /\ propertyName[q] \notin NamesOf(base)}
    BY <2>4, <2>5, <2>9
  <2> HIDE DEF New
  <2>11. Range(after[k]) = Range(base) \cup New(k)
    BY <2>3, <2>7, <2>8, <2>10
  <2> QED BY <2>1, <2>8, <2>11
<1> HIDE DEF Good
<1>5. Len(s) \in Good
  <2>1. 0..Len(s) \subseteq Good
    BY <1>1, <1>3, <1>4, UpTo
  <2>2. Len(s) \in 0..Len(s)
    BY <1>1
  <2> QED BY <2>1, <2>2
<1>6. {s[i] : i \in 1..Len(s)} = Range(s)
  BY <1>1 DEF Range
<1>7. after[Len(s)] \in Seq(Properties)
  <2>1. Len(s) \in 0..Len(s)
    BY <1>1
  <2> QED BY <1>2, <2>1
<1>8. DistinctNames(after[Len(s)]) /\ Range(after[Len(s)]) = Range(base) \cup New(Len(s))
  BY <1>5 DEF Good
<1> QED BY <1>2, <1>6, <1>7, <1>8

-----------------------------------------------------------------------------
(* The path of a node to the root.                                         *)

(* f has the paths of the nodes of some, which the path of none of them    *)
(* leaves.                                                                 *)
HasPaths(f, some) ==
  /\ some \in SUBSET Nodes /\ f \in [some -> Seq(Nodes)]
  /\ \A n \in some :
       /\ NodeParent[n] \in some \cup {NoNode}
       /\ f[n] = IF NodeParent[n] = NoNode THEN <<n>> ELSE <<n>> \o f[NodeParent[n]]

(* A path with a node in front of it.                                      *)
LEMMA FirstOfPath ==
  ASSUME NEW n \in Nodes, NEW s \in Seq(Nodes)
  PROVE  /\ <<n>> \o s \in Seq(Nodes) /\ Len(<<n>> \o s) = Len(s) + 1 /\ Len(s) \in Nat
         /\ (<<n>> \o s)[1] = n /\ \A i \in 1..Len(s) : (<<n>> \o s)[i + 1] = s[i]
OBVIOUS

(* A set of nodes has one whose parent is not in it.                       *)
LEMMA Topmost ==
  ASSUME NEW some \in SUBSET Nodes, some # {}
  PROVE  \E n \in some : NodeParent[n] \notin some /\ NodeParent[n] \in Nodes \cup {NoNode}
BY NodeParentAssumption

(* Two functions that have a path of a node have the same.                 *)
LEMMA PathsAgree ==
  ASSUME NEW f, NEW S, HasPaths(f, S), NEW g, NEW T, HasPaths(g, T), NEW n \in S \cap T
  PROVE  f[n] = g[n]
<1> DEFINE Bad == {m \in S \cap T : f[m] # g[m]}
<1>1. Bad = {}
  <2> SUFFICES ASSUME Bad # {} PROVE FALSE
    OBVIOUS
  <2>1. Bad \in SUBSET Nodes
    BY DEF HasPaths
  <2>2. PICK m \in Bad : NodeParent[m] \notin Bad
    <3> HIDE DEF Bad
    <3> QED BY <2>1, Topmost
  <2>3. m \in S /\ m \in T /\ f[m] # g[m]
    BY <2>2
  <2>4. CASE NodeParent[m] = NoNode
    BY <2>3, <2>4 DEF HasPaths
  <2>5. CASE NodeParent[m] # NoNode
    <3>1. NodeParent[m] \in S \cap T
      BY <2>3, <2>5 DEF HasPaths
    <3>2. f[NodeParent[m]] = g[NodeParent[m]]
      BY <2>2, <3>1
    <3> QED BY <2>3, <2>5, <3>2 DEF HasPaths
  <2> QED BY <2>4, <2>5
<1> QED BY <1>1

(* Each node has a path: its parent has, and so on to the root.            *)
LEMMA EachHasPath ==
  ASSUME NEW n \in Nodes
  PROVE  \E some, f : HasPaths(f, some) /\ n \in some
<1> DEFINE Bad == {m \in Nodes : ~\E some, f : HasPaths(f, some) /\ m \in some}
<1>1. Bad = {}
  <2> SUFFICES ASSUME Bad # {} PROVE FALSE
    OBVIOUS
  <2>1. PICK m \in Bad : NodeParent[m] \notin Bad /\ NodeParent[m] \in Nodes \cup {NoNode}
    <3>1. Bad \in SUBSET Nodes
      OBVIOUS
    <3> HIDE DEF Bad
    <3> QED BY <3>1, Topmost
  <2>2. m \in Nodes /\ \A some, f : HasPaths(f, some) => m \notin some
    BY <2>1
  <2>3. CASE NodeParent[m] = NoNode
    <3> DEFINE f == [x \in {m} |-> <<x>>]
    <3>1. f \in [{m} -> Seq(Nodes)] /\ f[m] = <<m>>
      BY <2>2
    <3>2. HasPaths(f, {m})
      <4> HIDE DEF f
      <4> QED BY <2>2, <2>3, <3>1 DEF HasPaths
    <3> QED BY <2>2, <3>2
  <2>4. CASE NodeParent[m] # NoNode
    <3> DEFINE parent == NodeParent[m]
    <3>1. parent \in Nodes /\ parent \notin Bad
      BY <2>1, <2>4
    <3>2. PICK S, g : HasPaths(g, S) /\ parent \in S
      BY <3>1
    <3>3. m \notin S
      BY <2>2, <3>2
    <3> DEFINE f == [x \in S \cup {m} |-> IF x = m THEN <<m>> \o g[parent] ELSE g[x]]
    <3>4. g[parent] \in Seq(Nodes) /\ S \in SUBSET Nodes /\ g \in [S -> Seq(Nodes)]
      BY <3>2 DEF HasPaths
    <3>5. <<m>> \o g[parent] \in Seq(Nodes)
      BY <2>2, <3>4, FirstOfPath
    <3>6. /\ f \in [S \cup {m} -> Seq(Nodes)] /\ f[m] = <<m>> \o g[parent]
          /\ \A x \in S : f[x] = g[x]
      BY <3>3, <3>4, <3>5
    <3> HIDE DEF f
    <3>7. ASSUME NEW x \in S
          PROVE  /\ NodeParent[x] \in S \cup {m} \cup {NoNode}
                 /\ f[x] = IF NodeParent[x] = NoNode THEN <<x>> ELSE <<x>> \o f[NodeParent[x]]
      <4>1. /\ NodeParent[x] \in S \cup {NoNode}
            /\ g[x] = IF NodeParent[x] = NoNode THEN <<x>> ELSE <<x>> \o g[NodeParent[x]]
        BY <3>2 DEF HasPaths
      <4> QED BY <3>6, <4>1
    <3>8. f[m] = <<m>> \o f[parent] /\ parent \in S \cup {m}
      BY <3>2, <3>6
    <3>9. S \cup {m} \in SUBSET Nodes
      BY <2>2, <3>4
    <3>10. ASSUME NEW x \in S \cup {m}
           PROVE  /\ NodeParent[x] \in S \cup {m} \cup {NoNode}
                  /\ f[x] = IF NodeParent[x] = NoNode THEN <<x>> ELSE <<x>> \o f[NodeParent[x]]
      <4>1. CASE x = m
        BY <2>4, <3>8, <4>1
      <4>2. CASE x \in S
        BY <3>7, <4>2
      <4> QED BY <4>1, <4>2
    <3>11. HasPaths(f, S \cup {m})
      BY <3>6, <3>9, <3>10 DEF HasPaths
    <3> QED BY <2>2, <3>11
  <2> QED BY <2>3, <2>4
<1> QED BY <1>1

(* PathToRoot is what its definition says, ...                             *)
LEMMA PathEquation ==
  \A n \in Nodes :
    /\ PathToRoot[n] \in Seq(Nodes)
    /\ NodeParent[n] \in Nodes \cup {NoNode}
    /\ PathToRoot[n] = IF NodeParent[n] = NoNode THEN <<n>> ELSE <<n>> \o PathToRoot[NodeParent[n]]
<1> DEFINE IsPath(f) == f = [node \in Nodes |->
                               IF NodeParent[node] = NoNode THEN <<node>> ELSE <<node>> \o f[NodeParent[node]]]
           Of(n) == CHOOSE f : \E some : HasPaths(f, some) /\ n \in some
           path == [n \in Nodes |-> Of(n)[n]]
<1>1. ASSUME NEW n \in Nodes PROVE \E some : HasPaths(Of(n), some) /\ n \in some
  BY EachHasPath
<1> HIDE DEF Of
<1>2. ASSUME NEW n \in Nodes
      PROVE  path[n] = IF NodeParent[n] = NoNode THEN <<n>> ELSE <<n>> \o path[NodeParent[n]]
  <2>1. PICK S : HasPaths(Of(n), S) /\ n \in S
    BY <1>1
  <2>2. CASE NodeParent[n] = NoNode
    BY <2>1, <2>2 DEF HasPaths
  <2>3. CASE NodeParent[n] # NoNode
    <3>1. NodeParent[n] \in S /\ NodeParent[n] \in Nodes
      BY <2>1, <2>3 DEF HasPaths
    <3>2. PICK T : HasPaths(Of(NodeParent[n]), T) /\ NodeParent[n] \in T
      BY <1>1, <3>1
    <3>3. Of(n)[NodeParent[n]] = Of(NodeParent[n])[NodeParent[n]]
      BY <2>1, <3>1, <3>2, PathsAgree
    <3>4. Of(n)[n] = <<n>> \o Of(n)[NodeParent[n]]
      BY <2>1, <2>3 DEF HasPaths
    <3> QED BY <2>3, <3>1, <3>3, <3>4
  <2> QED BY <2>2, <2>3
<1>3. IsPath(path)
  <2>1. path = [n \in Nodes |-> path[n]]
    OBVIOUS
  <2> HIDE DEF path
  <2> QED BY <1>2, <2>1
<1>4. IsPath(PathToRoot)
  <2>1. PathToRoot = CHOOSE f : IsPath(f)
    BY DEF PathToRoot
  <2> HIDE DEF IsPath, path
  <2> QED BY <1>3, <2>1
<1>5. \A n \in Nodes : PathToRoot[n] = IF NodeParent[n] = NoNode THEN <<n>>
                                       ELSE <<n>> \o PathToRoot[NodeParent[n]]
  BY <1>4
<1> DEFINE Bad == {n \in Nodes : PathToRoot[n] \notin Seq(Nodes)}
<1>6. Bad = {}
  <2> SUFFICES ASSUME Bad # {} PROVE FALSE
    OBVIOUS
  <2>1. PICK m \in Bad : NodeParent[m] \notin Bad /\ NodeParent[m] \in Nodes \cup {NoNode}
    <3>1. Bad \in SUBSET Nodes
      OBVIOUS
    <3> HIDE DEF Bad
    <3> QED BY <3>1, Topmost
  <2>2. CASE NodeParent[m] = NoNode
    <3>1. m \in Nodes /\ <<m>> \in Seq(Nodes)
      BY <2>1
    <3> QED BY <1>5, <2>1, <2>2, <3>1
  <2>3. CASE NodeParent[m] # NoNode
    <3>1. PathToRoot[NodeParent[m]] \in Seq(Nodes)
      BY <2>1, <2>3
    <3>2. <<m>> \o PathToRoot[NodeParent[m]] \in Seq(Nodes)
      BY <2>1, <3>1, FirstOfPath
    <3> QED BY <1>5, <2>1, <2>3, <3>2
  <2> QED BY <2>2, <2>3
<1> QED BY <1>5, <1>6, NodeParentAssumption

(* ... begins with the node, and continues with the path of its parent.    *)
LEMMA PathParts ==
  ASSUME NEW n \in Nodes
  PROVE  /\ PathToRoot[n] \in Seq(Nodes) /\ Len(PathToRoot[n]) \in Nat \ {0} /\ PathToRoot[n][1] = n
         /\ NodeParent[n] = NoNode => Len(PathToRoot[n]) = 1
         /\ NodeParent[n] # NoNode =>
              /\ NodeParent[n] \in Nodes
              /\ Len(PathToRoot[n]) = Len(PathToRoot[NodeParent[n]]) + 1
              /\ \A i \in 1..Len(PathToRoot[NodeParent[n]]) :
                   PathToRoot[n][i + 1] = PathToRoot[NodeParent[n]][i]
<1>1. /\ PathToRoot[n] \in Seq(Nodes) /\ NodeParent[n] \in Nodes \cup {NoNode}
      /\ PathToRoot[n] = IF NodeParent[n] = NoNode THEN <<n>> ELSE <<n>> \o PathToRoot[NodeParent[n]]
  BY PathEquation
<1>2. CASE NodeParent[n] = NoNode
  <2>1. PathToRoot[n] = <<n>>
    BY <1>1, <1>2
  <2>2. Len(<<n>>) = 1 /\ <<n>>[1] = n
    OBVIOUS
  <2> QED BY <1>1, <1>2, <2>1, <2>2
<1>3. CASE NodeParent[n] # NoNode
  <2> DEFINE s == PathToRoot[NodeParent[n]]
  <2>1. NodeParent[n] \in Nodes /\ s \in Seq(Nodes) /\ PathToRoot[n] = <<n>> \o s
    BY <1>1, <1>3, PathEquation
  <2> HIDE DEF s
  <2>2. /\ Len(<<n>> \o s) = Len(s) + 1 /\ Len(s) \in Nat
        /\ (<<n>> \o s)[1] = n /\ \A i \in 1..Len(s) : (<<n>> \o s)[i + 1] = s[i]
    BY <2>1, FirstOfPath
  <2>3. Len(s) + 1 \in Nat \ {0}
    BY <2>2
  <2> QED BY <1>1, <1>3, <2>1, <2>2, <2>3 DEF s
<1> QED BY <1>2, <1>3

(* The path of the k-th node on a path is the rest of that path.           *)
RestOf(n, k) ==
  /\ PathToRoot[n][k] \in Nodes
  /\ Len(PathToRoot[PathToRoot[n][k]]) = Len(PathToRoot[n]) - k + 1
  /\ \A i \in 1..(Len(PathToRoot[n]) - k + 1) :
       PathToRoot[PathToRoot[n][k]][i] = PathToRoot[n][i + k - 1]

LEMMA PathRest == \A n \in Nodes : \A k \in 1..Len(PathToRoot[n]) : RestOf(n, k)
<1> DEFINE Bad == {n \in Nodes : ~\A k \in 1..Len(PathToRoot[n]) : RestOf(n, k)}
<1>1. Bad = {}
  <2> SUFFICES ASSUME Bad # {} PROVE FALSE
    OBVIOUS
  <2>1. PICK n \in Bad : NodeParent[n] \notin Bad
    <3>1. Bad \in SUBSET Nodes
      OBVIOUS
    <3> HIDE DEF Bad
    <3> QED BY <3>1, Topmost
  <2>2. n \in Nodes
    BY <2>1
  <2>3. ASSUME NEW k \in 1..Len(PathToRoot[n]) PROVE RestOf(n, k)
    <3> DEFINE s == PathToRoot[n]
    <3>1. s \in Seq(Nodes) /\ Len(s) \in Nat \ {0} /\ s[1] = n /\ k \in 1..Len(s)
      BY <2>2, PathParts
    <3>2. CASE k = 1
      <4>1. Len(s) - 1 + 1 = Len(s) /\ \A i \in 1..Len(s) : i + 1 - 1 = i
        BY <3>1
      <4> QED BY <2>2, <3>1, <3>2, <4>1 DEF RestOf
    <3>3. CASE k # 1
      <4> DEFINE p == NodeParent[n]
                 u == PathToRoot[p]
                 j == k - 1
      <4>1. p # NoNode
        <5> SUFFICES ASSUME p = NoNode PROVE FALSE
          OBVIOUS
        <5>1. Len(s) = 1
          BY <2>2, PathParts
        <5> HIDE DEF s, p
        <5>2. k \in 1..1
          BY <3>1, <5>1
        <5> QED BY <3>3, <5>2
      <4>2. p \in Nodes /\ Len(s) = Len(u) + 1 /\ \A i \in 1..Len(u) : s[i + 1] = u[i]
        BY <2>2, <4>1, PathParts
      <4>3. u \in Seq(Nodes) /\ Len(u) \in Nat
        BY <4>2, PathParts
      <4>4. j \in 1..Len(u) /\ j + 1 = k /\ k \in Nat /\ j \in Nat
        BY <3>1, <3>3, <4>2, <4>3
      <4>5. RestOf(p, j)
        BY <2>1, <4>2, <4>4
      <4> HIDE DEF s, u, p, j
      <4>6. s[k] = u[j]
        BY <4>2, <4>4
      <4>7. /\ s[k] \in Nodes /\ Len(PathToRoot[s[k]]) = Len(u) - j + 1
            /\ \A i \in 1..(Len(u) - j + 1) : PathToRoot[s[k]][i] = u[i + j - 1]
        BY <4>5, <4>6 DEF RestOf, u
      <4>8. Len(u) - j + 1 = Len(s) - k + 1
        <5>1. Len(s) = Len(u) + 1 /\ Len(u) \in Nat /\ k = j + 1 /\ j \in Nat
          BY <4>2, <4>3, <4>4
        <5> QED BY <5>1
      <4>9. ASSUME NEW i \in 1..(Len(s) - k + 1) PROVE PathToRoot[s[k]][i] = s[i + k - 1]
        <5>1. i \in 1..(Len(u) - j + 1) /\ i \in Nat /\ k = j + 1 /\ j \in Nat /\ j >= 1
          BY <3>1, <4>3, <4>4, <4>8
        <5>2. i + j - 1 \in 1..Len(u)
          BY <4>3, <5>1
        <5>3. (i + j - 1) + 1 = i + k - 1
          BY <5>1
        <5>4. s[(i + j - 1) + 1] = u[i + j - 1]
          BY <4>2, <5>2
        <5> QED BY <4>7, <5>1, <5>3, <5>4
      <4> QED BY <4>7, <4>8, <4>9 DEF RestOf, s
    <3> QED BY <3>2, <3>3
  <2> QED BY <2>1, <2>3
<1> QED BY <1>1

(* What is farther on a path is an ancestor, and nothing else on it is.    *)
LEMMA FartherIsAncestor ==
  ASSUME NEW n \in Nodes, NEW i \in 1..Len(PathToRoot[n]), NEW j \in 1..Len(PathToRoot[n])
  PROVE  IsNearer(PathToRoot[n][i], PathToRoot[n][j]) <=> i <= j
<1> DEFINE s == PathToRoot[n]
           a == s[i]
           r == PathToRoot[a]
<1>1. s \in Seq(Nodes) /\ Len(s) \in Nat /\ i \in 1..Len(s) /\ j \in 1..Len(s)
  BY PathParts
<1>2. /\ a \in Nodes /\ Len(r) = Len(s) - i + 1
      /\ \A x \in 1..(Len(s) - i + 1) : r[x] = s[x + i - 1]
  BY PathRest DEF RestOf
<1>3. r \in Seq(Nodes)
  BY <1>2, PathParts
<1>4. \A x \in 1..Len(s) : Len(PathToRoot[s[x]]) = Len(s) - x + 1
  BY PathRest DEF RestOf
<1>5. AncestorsOf(a) = {r[x] : x \in 1..Len(r)}
  BY <1>3 DEF AncestorsOf, Range
<1> HIDE DEF s, a, r
<1>6. ASSUME i <= j PROVE s[j] \in AncestorsOf(a)
  <2>1. j - i + 1 \in 1..(Len(s) - i + 1) /\ (j - i + 1) + i - 1 = j
    BY <1>1, <1>6
  <2>2. r[j - i + 1] = s[j]
    BY <1>2, <2>1
  <2> QED BY <1>2, <1>5, <2>1, <2>2
<1>7. ASSUME s[j] \in AncestorsOf(a) PROVE i <= j
  <2>1. PICK x \in 1..Len(r) : r[x] = s[j]
    BY <1>5, <1>7
  <2>2. x \in 1..(Len(s) - i + 1) /\ x + i - 1 \in 1..Len(s) /\ x >= 1
    BY <1>1, <1>2
  <2>3. s[x + i - 1] = s[j]
    BY <1>2, <2>1, <2>2
  <2>4. Len(s) - (x + i - 1) + 1 = Len(s) - j + 1
    BY <1>1, <1>4, <2>2, <2>3
  <2> QED BY <1>1, <2>2, <2>4
<1>8. IsNearer(a, s[j]) <=> i <= j
  BY <1>6, <1>7 DEF IsNearer
<1> QED BY <1>8 DEF a, s

(* Collecting from a node keeps to properties.                             *)
LEMMA CollectFromTyped ==
  ASSUME PropertiesInv, NEW base \in Seq(Properties), NEW node \in Nodes
  PROVE  CollectFrom(base, node) \in Seq(Properties)
<1> DEFINE s == nodeProperties[node]
<1>1. s \in Seq(Properties) /\ Len(s) \in 0..Len(s)
  BY DEF PropertiesInv, TypeOK
<1> HIDE DEF s
<1>2. PICK after \in [0..Len(s) -> Seq(Properties)] : FoldLeft(Collect, base, s) = after[Len(s)]
  BY <1>1, CollectSteps
<1> QED BY <1>1, <1>2 DEF CollectFrom, s

(* The outer loop of GetInheritedProperties, from ancestor to ancestor.    *)
LEMMA CollectFromSteps ==
  ASSUME PropertiesInv, NEW base \in Seq(Properties), NEW seq \in Seq(Nodes)
  PROVE  \E after \in [0..Len(seq) -> Seq(Properties)] :
           /\ after[0] = base
           /\ \A k \in 1..Len(seq) : after[k] = CollectFrom(after[k - 1], seq[k])
           /\ FoldLeft(CollectFrom, base, seq) = after[Len(seq)]
<1> DEFINE Value == Seq(Properties)
           op == [x \in Value \X Nodes |-> CollectFrom(x[1], x[2])]
           IsIter(f) == f = [s \in SUBSET (DOMAIN seq) |->
                               IF s = {} THEN base ELSE CollectFrom(f[s \ {Max(s)}], seq[Max(s)])]
           iter == CHOOSE f : IsIter(f)
<1>1. \A v \in Value, p \in Nodes : CollectFrom(v, p) \in Value
  BY CollectFromTyped
<1>2. /\ op \in [Value \X Nodes -> Value]
      /\ \A v \in Value, p \in Nodes : op[<<v, p>>] = CollectFrom(v, p)
  BY <1>1
<1>3. DOMAIN seq = 1..Len(seq) /\ Len(seq) \in Nat /\ Len(seq) \in 0..Len(seq)
      /\ \A i \in 1..Len(seq) : seq[i] \in Nodes
  OBVIOUS
<1>4. ASSUME NEW s \in SUBSET (1..Len(seq)), s # {}
      PROVE  Max(s) \in 1..Len(seq) /\ s \ {Max(s)} \in SUBSET (1..Len(seq))
  BY <1>3, <1>4, GreatestElement
<1> HIDE DEF Value, op
<1>5. IsIter(iter)
  <2>1. PICK g \in [SUBSET (1..Len(seq)) -> Value] : Folds(g, op, base, seq, Len(seq))
    BY <1>2, <1>3, FoldExists DEF Value
  <2>2. ASSUME NEW s \in SUBSET (1..Len(seq))
        PROVE  g[s] = IF s = {} THEN base ELSE CollectFrom(g[s \ {Max(s)}], seq[Max(s)])
    BY <1>2, <1>3, <1>4, <2>1 DEF Folds
  <2>3. g = [s \in SUBSET (1..Len(seq)) |-> g[s]]
    BY <2>1
  <2>4. IsIter(g)
    BY <1>3, <2>2, <2>3
  <2> HIDE DEF IsIter
  <2> QED BY <2>4
<1>6. FoldLeft(CollectFrom, base, seq) = iter[1..Len(seq)]
  BY <1>3 DEF FoldLeft, MapThenFoldSet
<1> HIDE DEF iter
<1>7. \A s \in SUBSET (1..Len(seq)) :
        iter[s] = IF s = {} THEN base ELSE CollectFrom(iter[s \ {Max(s)}], seq[Max(s)])
  BY <1>3, <1>5
<1>8. InSteps(iter, Value, op, base, seq)
  <2>1. iter[{}] = base
    BY <1>7
  <2>2. Folding(iter, Value, op, base, seq)
    BY <1>2, <1>3, <1>4, <1>7, <2>1 DEF Folding
  <2>3. base \in Value
    BY DEF Value
  <2>4. op \in [Value \X Nodes -> Value]
    BY <1>2
  <2>5. seq \in Seq(Nodes)
    OBVIOUS
  <2> HIDE DEF IsIter
  <2> QED BY <2>2, <2>3, <2>4, <2>5, FoldSteps
<1>9. PICK after \in [0..Len(seq) -> Value] :
        Steps(after, op, base, seq) /\ iter[1..Len(seq)] = after[Len(seq)]
  BY <1>8 DEF InSteps
<1>10. \A k \in 1..Len(seq) : after[k] = CollectFrom(after[k - 1], seq[k])
  <2> SUFFICES ASSUME NEW k \in 1..Len(seq) PROVE after[k] = CollectFrom(after[k - 1], seq[k])
    OBVIOUS
  <2>1. k - 1 \in 0..Len(seq)
    BY <1>3
  <2> QED BY <1>2, <1>3, <1>9, <2>1 DEF Steps
<1> QED BY <1>6, <1>9, <1>10 DEF Steps, Value

(* The loop that collects what a client finds by a category.              *)
FoundInSteps(node, category, seq) ==
  \E after \in [0..Len(seq) -> Seq(Properties)] :
    /\ after[0] = <<>>
    /\ \A k \in 1..Len(seq) :
         after[k] = IF PropertyCategory(seq[k]) = category THEN Append(after[k - 1], seq[k]) ELSE after[k - 1]
    /\ GetPropertiesOfCategory(node, category) = after[Len(seq)]

(* That loop as a sequence of steps.                                       *)
LEMMA CategorySteps ==
  ASSUME PropertiesInv, NEW node \in Nodes, NEW category, NEW seq, seq = nodeProperties[node]
  PROVE  FoundInSteps(node, category, seq)
<1> DEFINE base == <<>>
           Keep(v, p) == IF PropertyCategory(p) = category THEN Append(v, p) ELSE v
           Value == Seq(Properties)
           op == [x \in Value \X Properties |-> Keep(x[1], x[2])]
           IsIter(f) == f = [s \in SUBSET (DOMAIN seq) |->
                               IF s = {} THEN base ELSE Keep(f[s \ {Max(s)}], seq[Max(s)])]
           iter == CHOOSE f : IsIter(f)
<1>0. seq \in Seq(Properties) /\ seq = nodeProperties[node] /\ base \in Value
  BY DEF PropertiesInv, TypeOK
<1>1. \A v \in Value, p \in Properties : Keep(v, p) \in Value
  OBVIOUS
<1>2. /\ op \in [Value \X Properties -> Value]
      /\ \A v \in Value, p \in Properties : op[<<v, p>>] = Keep(v, p)
  BY <1>1
<1>3. DOMAIN seq = 1..Len(seq) /\ Len(seq) \in Nat /\ Len(seq) \in 0..Len(seq)
      /\ \A i \in 1..Len(seq) : seq[i] \in Properties
  BY <1>0
<1>4. ASSUME NEW s \in SUBSET (1..Len(seq)), s # {}
      PROVE  Max(s) \in 1..Len(seq) /\ s \ {Max(s)} \in SUBSET (1..Len(seq))
  BY <1>3, <1>4, GreatestElement
<1> HIDE DEF Value, op
<1>5. IsIter(iter)
  <2>1. PICK g \in [SUBSET (1..Len(seq)) -> Value] : Folds(g, op, base, seq, Len(seq))
    BY <1>2, <1>3, <1>0, FoldExists
  <2>2. ASSUME NEW s \in SUBSET (1..Len(seq))
        PROVE  g[s] = IF s = {} THEN base ELSE Keep(g[s \ {Max(s)}], seq[Max(s)])
    BY <1>2, <1>3, <1>4, <2>1 DEF Folds
  <2>3. g = [s \in SUBSET (1..Len(seq)) |-> g[s]]
    BY <2>1
  <2>4. IsIter(g)
    BY <1>3, <2>2, <2>3
  <2> HIDE DEF IsIter
  <2> QED BY <2>4
<1>6. GetPropertiesOfCategory(node, category) = iter[1..Len(seq)]
  BY <1>0, <1>3 DEF GetPropertiesOfCategory, FoldLeft, MapThenFoldSet
<1> HIDE DEF iter, Keep
<1>7. \A s \in SUBSET (1..Len(seq)) :
        iter[s] = IF s = {} THEN base ELSE Keep(iter[s \ {Max(s)}], seq[Max(s)])
  BY <1>3, <1>5
<1>8. InSteps(iter, Value, op, base, seq)
  <2>1. iter[{}] = base
    BY <1>7
  <2>2. Folding(iter, Value, op, base, seq)
    BY <1>2, <1>3, <1>4, <1>7, <2>1 DEF Folding
  <2>3. base \in Value
    BY <1>0
  <2>4. op \in [Value \X Properties -> Value]
    BY <1>2
  <2>5. seq \in Seq(Properties)
    BY <1>0
  <2> HIDE DEF IsIter
  <2> QED BY <2>2, <2>3, <2>4, <2>5, FoldSteps
<1>9. PICK after \in [0..Len(seq) -> Value] :
        Steps(after, op, base, seq) /\ iter[1..Len(seq)] = after[Len(seq)]
  BY <1>8 DEF InSteps
<1>10. \A k \in 1..Len(seq) : after[k] = Keep(after[k - 1], seq[k])
  <2> SUFFICES ASSUME NEW k \in 1..Len(seq) PROVE after[k] = Keep(after[k - 1], seq[k])
    OBVIOUS
  <2>1. k - 1 \in 0..Len(seq)
    BY <1>3
  <2> QED BY <1>2, <1>3, <1>9, <2>1 DEF Steps
<1>11. after[0] = <<>>
  BY <1>9 DEF Steps
<1>12. after \in [0..Len(seq) -> Seq(Properties)]
  BY DEF Value
<1> QED BY <1>6, <1>9, <1>10, <1>11, <1>12 DEF FoundInSteps, Keep

(* What appending adds to the elements.                                    *)
LEMMA AppendedRange ==
  ASSUME NEW s \in Seq(Properties), NEW p \in Properties
  PROVE  Range(Append(s, p)) = Range(s) \cup {p}
<1> DEFINE a == Append(s, p)
<1>1. Len(s) \in Nat /\ DOMAIN s = 1..Len(s)
  OBVIOUS
<1>2. DOMAIN a = 1..(Len(s) + 1) /\ a[Len(s) + 1] = p /\ \A i \in 1..Len(s) : a[i] = s[i]
  BY <1>1
<1> HIDE DEF a
<1>3. \A i \in 1..(Len(s) + 1) : i \in 1..Len(s) \/ i = Len(s) + 1
  BY <1>1
<1>4. \A i \in 1..Len(s) : i \in 1..(Len(s) + 1)
  BY <1>1
<1>5. Len(s) + 1 \in 1..(Len(s) + 1)
  BY <1>1
<1>6. Range(a) = Range(s) \cup {p}
  BY <1>1, <1>2, <1>3, <1>4, <1>5 DEF Range
<1> QED BY <1>6 DEF a

-----------------------------------------------------------------------------
(* What a client finds in a node.                                          *)

(* What is known of the properties of a node.                              *)
LEMMA NodeKnown ==
  ASSUME PropertiesInv, NEW node \in Nodes, NEW s, s = nodeProperties[node]
  PROVE  /\ Valid(s) /\ s \in Seq(Properties) /\ Len(s) \in Nat /\ DOMAIN s = 1..Len(s)
         /\ Range(s) = {s[i] : i \in 1..Len(s)} /\ Range(s) \subseteq Properties
         /\ \A i \in 1..Len(s) : s[i] \in Properties
<1>1. Valid(s)
  BY InvGivesValid
<1>2. s \in Seq(Properties)
  BY <1>1 DEF Valid
<1> QED BY <1>1, <1>2 DEF Range

(* By its name the property that has it, or none.                          *)
LEMMA FoundByName ==
  ASSUME PropertiesInv, NEW node \in Nodes, NEW name
  PROVE  /\ \A p \in Range(nodeProperties[node]) :
              propertyName[p] = name => GetPropertyOfName(node, name) = p
         /\ (\A p \in Range(nodeProperties[node]) : propertyName[p] # name)
              => GetPropertyOfName(node, name) = NoProperty
<1> DEFINE s == nodeProperties[node]
           found == {j \in 1..Len(s) : propertyName[s[j]] = name}
<1>1. Valid(s) /\ Len(s) \in Nat /\ Range(s) = {s[i] : i \in 1..Len(s)}
  BY NodeKnown
<1>2. GetPropertyOfName(node, name) = IF found # {} THEN PropertyAt(node, Min(found)) ELSE PropertyAt(node, 0)
  BY DEF GetPropertyOfName, SelectInSeq
<1>3. ASSUME NEW p \in Range(s), propertyName[p] = name PROVE GetPropertyOfName(node, name) = p
  <2>1. PICK i \in 1..Len(s) : s[i] = p
    BY <1>1
  <2>2. found = {i}
    BY <1>1, <1>3, <2>1, ValidNames
  <2>3. i \in Nat /\ i # 0
    BY <1>1
  <2>4. Min(found) = i /\ found # {}
    BY <2>2, <2>3, MinOfOne
  <2> QED BY <1>2, <2>1, <2>3, <2>4 DEF PropertyAt
<1>4. ASSUME \A p \in Range(s) : propertyName[p] # name PROVE GetPropertyOfName(node, name) = NoProperty
  <2>1. found = {}
    BY <1>1, <1>4
  <2> QED BY <1>2, <2>1 DEF PropertyAt
<1> QED BY <1>3, <1>4

(* By its type the same as by its name.                                    *)
LEMMA FoundByType ==
  ASSUME NEW node, NEW p, PropertyType(p) # UnknownType
  PROVE  GetPropertyOfType(node, PropertyType(p)) = GetPropertyOfName(node, propertyName[p])
<1> DEFINE s == nodeProperties[node]
<1>1. \A q : PropertyType(q) = PropertyType(p) <=> propertyName[q] = propertyName[p]
  BY TypeTellsName DEF PropertyType
<1>2. {j \in 1..Len(s) : PropertyType(s[j]) = PropertyType(p)}
        = {j \in 1..Len(s) : propertyName[s[j]] = propertyName[p]}
  BY <1>1
<1> QED BY <1>2 DEF GetPropertyOfType, GetPropertyOfName, SelectInSeq

(* By a category all that have it.                                         *)
LEMMA FoundByCategory ==
  ASSUME PropertiesInv, NEW node \in Nodes, NEW category
  PROVE  /\ GetPropertiesOfCategory(node, category) \in Seq(Properties)
         /\ Range(GetPropertiesOfCategory(node, category))
              = {p \in Range(nodeProperties[node]) : PropertyCategory(p) = category}
<1> DEFINE s == nodeProperties[node]
<1>1. /\ Len(s) \in Nat /\ Range(s) = {s[i] : i \in 1..Len(s)}
      /\ \A i \in 1..Len(s) : s[i] \in Properties
  BY NodeKnown
<1>0. s = nodeProperties[node]
  OBVIOUS
<1> HIDE DEF s
<1>1a. FoundInSteps(node, category, s)
  BY <1>0, CategorySteps
<1>2. PICK after \in [0..Len(s) -> Seq(Properties)] :
        /\ after[0] = <<>>
        /\ \A k \in 1..Len(s) :
             after[k] = IF PropertyCategory(s[k]) = category THEN Append(after[k - 1], s[k]) ELSE after[k - 1]
        /\ GetPropertiesOfCategory(node, category) = after[Len(s)]
  BY <1>1a DEF FoundInSteps
<1> DEFINE Have(k) == {p \in {s[i] : i \in 1..k} : PropertyCategory(p) = category}
           Good == {k \in 0..Len(s) : Range(after[k]) = Have(k)}
<1>3. 0 \in Good
  <2>1. 1..0 = {} /\ 0 \in 0..Len(s) /\ Range(<<>>) = {}
    BY <1>1 DEF Range
  <2> QED BY <1>2, <2>1
<1>4. ASSUME NEW k \in 1..Len(s), k - 1 \in Good PROVE k \in Good
  <2> DEFINE v == after[k - 1]
  <2>1. k \in 0..Len(s) /\ k - 1 \in 0..Len(s)
    BY <1>1
  <2>2. v \in Seq(Properties) /\ s[k] \in Properties
    BY <1>1, <1>2, <2>1
  <2>3. after[k] = IF PropertyCategory(s[k]) = category THEN Append(v, s[k]) ELSE v
    BY <1>2
  <2>4. Range(v) = Have(k - 1)
    BY <1>4
  <2> HIDE DEF v
  <2>5. Range(Append(v, s[k])) = Range(v) \cup {s[k]}
    BY <2>2, AppendedRange
  <2>6. \A i \in 1..k : i \in 1..(k - 1) \/ i = k
    BY <1>1
  <2>7. \A i \in 1..(k - 1) : i \in 1..k
    BY <1>1
  <2>8. k \in 1..k
    BY <1>1
  <2>9. Have(k) = Have(k - 1) \cup {p \in {s[k]} : PropertyCategory(p) = category}
    BY <2>6, <2>7, <2>8
  <2> HIDE DEF Have
  <2> QED BY <2>1, <2>3, <2>4, <2>5, <2>9
<1> HIDE DEF Good
<1>5. Len(s) \in Good
  <2>1. 0..Len(s) \subseteq Good
    BY <1>1, <1>3, <1>4, UpTo
  <2>2. Len(s) \in 0..Len(s)
    BY <1>1
  <2> QED BY <2>1, <2>2
<1>6. after[Len(s)] \in Seq(Properties)
  <2>1. Len(s) \in 0..Len(s)
    BY <1>1
  <2> QED BY <1>2, <2>1
<1>7. Range(after[Len(s)]) = Have(Len(s))
  BY <1>5 DEF Good
<1> QED BY <1>1, <1>2, <1>6, <1>7 DEF s

-----------------------------------------------------------------------------
(* What a node inherits.                                                   *)

(* A property of a name that is inheritable at all is.                     *)
LEMMA SameNameInheritable ==
  ASSUME NEW p, NEW q, propertyName[p] = propertyName[q]
  PROVE  IsInheritable(p) <=> IsInheritable(q)
BY DEF IsInheritable, PropertyType

(* The node of the path that has p is the first that has its name.         *)
FoundAt(path, i, p) ==
  /\ p \in Range(nodeProperties[path[i]])
  /\ \A j \in 1..(i - 1) : \A q \in Range(nodeProperties[path[j]]) : propertyName[q] # propertyName[p]

(* What the first k nodes of a path pass on.                               *)
Nearest(path, k) == {p \in Properties : IsInheritable(p) /\ \E i \in 1..k : FoundAt(path, i, p)}

(* Each name that the first k nodes have is that of one of these.          *)
LEMMA NameIsNearest ==
  ASSUME PropertiesInv, NEW path \in Seq(Nodes), NEW k \in 0..Len(path), NEW i \in 1..k,
         NEW q \in Range(nodeProperties[path[i]]), IsInheritable(q)
  PROVE  \E p \in Nearest(path, k) : propertyName[p] = propertyName[q]
<1> DEFINE Having == {j \in 1..k : \E r \in Range(nodeProperties[path[j]]) : propertyName[r] = propertyName[q]}
<1>1. k \in Nat /\ \A j \in 1..k : path[j] \in Nodes
  OBVIOUS
<1>2. PICK m \in Having : \A j \in Having : m <= j
  <2>1. Having \subseteq Nat /\ i \in Having
    BY <1>1
  <2> HIDE DEF Having
  <2> QED BY <2>1, LeastNumber
<1>3. m \in 1..k
  OBVIOUS
<1>4. PICK p \in Range(nodeProperties[path[m]]) : propertyName[p] = propertyName[q]
  BY <1>2
<1>5. p \in Properties
  BY <1>1, <1>3, NodeKnown
<1>6. \A j \in 1..(m - 1) : j \in 1..k /\ ~(m <= j)
  BY <1>1, <1>3
<1>7. FoundAt(path, m, p)
  BY <1>2, <1>4, <1>6 DEF FoundAt
<1>8. IsInheritable(p)
  BY <1>4, SameNameInheritable
<1> QED BY <1>3, <1>4, <1>5, <1>7, <1>8 DEF Nearest

(* The properties that are collected from the first k nodes of a path.     *)
LEMMA InheritedAre ==
  ASSUME PropertiesInv, NEW path \in Seq(Nodes)
  PROVE  LET inherited == FoldLeft(CollectFrom, <<>>, path)
         IN  /\ inherited \in Seq(Properties) /\ DistinctNames(inherited)
             /\ Range(inherited) = Nearest(path, Len(path))
<1>1. /\ Len(path) \in Nat /\ Len(path) \in 0..Len(path) /\ <<>> \in Seq(Properties)
      /\ \A i \in 1..Len(path) : path[i] \in Nodes
  OBVIOUS
<1>2. PICK after \in [0..Len(path) -> Seq(Properties)] :
        /\ after[0] = <<>>
        /\ \A k \in 1..Len(path) : after[k] = CollectFrom(after[k - 1], path[k])
        /\ FoldLeft(CollectFrom, <<>>, path) = after[Len(path)]
  BY <1>1, CollectFromSteps
<1> DEFINE Good == {k \in 0..Len(path) : DistinctNames(after[k]) /\ Range(after[k]) = Nearest(path, k)}
<1>3. 0 \in Good
  <2>1. 1..0 = {} /\ 0 \in 0..Len(path) /\ Range(<<>>) = {} /\ Len(<<>>) = 0
    BY <1>1 DEF Range
  <2> QED BY <1>2, <2>1 DEF Nearest, DistinctNames
<1>4. ASSUME NEW k \in 1..Len(path), k - 1 \in Good PROVE k \in Good
  <2> DEFINE v == after[k - 1]
             s == nodeProperties[path[k]]
             Added == {q \in Range(s) : IsInheritable(q) /\ propertyName[q] \notin NamesOf(v)}
  <2>1. k \in 0..Len(path) /\ k - 1 \in 0..Len(path)
    BY <1>1
  <2>2. v \in Seq(Properties) /\ path[k] \in Nodes
    BY <1>1, <1>2, <2>1
  <2>3. after[k] = CollectFrom(v, path[k])
    BY <1>2
  <2>4. DistinctNames(v) /\ Range(v) = Nearest(path, k - 1)
    BY <1>4
  <2> HIDE DEF v
  <2>5. Valid(s) /\ Range(s) \subseteq Properties
    BY <2>2, NodeKnown
  <2>6. DistinctNames(after[k]) /\ Range(after[k]) = Range(v) \cup Added
    <3> HIDE DEF s
    <3>1. LET r == FoldLeft(Collect, v, s)
          IN  DistinctNames(r) /\ Range(r) = Range(v) \cup Added
      BY <2>2, <2>4, <2>5, NodeAdds
    <3> QED BY <2>3, <3>1 DEF CollectFrom, s
  <2>7. \A i \in 1..k : i \in 1..(k - 1) \/ i = k
    BY <1>1
  <2>8. \A i \in 1..(k - 1) : i \in 1..k
    BY <1>1
  <2>9. k \in 1..k
    BY <1>1
  <2>10. ASSUME NEW p \in Added PROVE p \in Nearest(path, k)
    <3>1. p \in Properties /\ IsInheritable(p) /\ p \in Range(s) /\ propertyName[p] \notin NamesOf(v)
      BY <2>5
    <3>2. ASSUME NEW j \in 1..(k - 1), NEW q \in Range(nodeProperties[path[j]]), propertyName[q] = propertyName[p]
          PROVE  FALSE
      <4>1. IsInheritable(q)
        BY <3>1, <3>2, SameNameInheritable
      <4>2. PICK r \in Nearest(path, k - 1) : propertyName[r] = propertyName[q]
        BY <2>1, <3>2, <4>1, NameIsNearest
      <4>3. propertyName[r] \in NamesOf(v)
        BY <2>4, <4>2 DEF NamesOf
      <4> QED BY <3>1, <3>2, <4>2, <4>3
    <3>3. FoundAt(path, k, p)
      BY <3>1, <3>2 DEF FoundAt
    <3> QED BY <2>9, <3>1, <3>3 DEF Nearest
  <2>11. ASSUME NEW p \in Nearest(path, k), p \notin Nearest(path, k - 1) PROVE p \in Added
    <3>1. p \in Properties /\ IsInheritable(p) /\ FoundAt(path, k, p)
      BY <2>7, <2>11 DEF Nearest
    <3>2. propertyName[p] \notin NamesOf(v)
      <4> SUFFICES ASSUME propertyName[p] \in NamesOf(v) PROVE FALSE
        OBVIOUS
      <4>1. PICK r \in Nearest(path, k - 1) : propertyName[r] = propertyName[p]
        BY <2>4 DEF NamesOf
      <4>2. PICK i \in 1..(k - 1) : FoundAt(path, i, r)
        BY DEF Nearest
      <4> QED BY <3>1, <4>1, <4>2 DEF FoundAt
    <3> QED BY <3>1, <3>2 DEF FoundAt
  <2>12. Nearest(path, k - 1) \subseteq Nearest(path, k)
    BY <2>8 DEF Nearest
  <2> HIDE DEF Added
  <2>13. Range(after[k]) = Nearest(path, k)
    BY <2>4, <2>6, <2>10, <2>11, <2>12
  <2> QED BY <2>1, <2>6, <2>13
<1> HIDE DEF Good
<1>5. Len(path) \in Good
  <2>1. 0..Len(path) \subseteq Good
    BY <1>1, <1>3, <1>4, UpTo
  <2> QED BY <1>1, <2>1
<1>6. DistinctNames(after[Len(path)]) /\ Range(after[Len(path)]) = Nearest(path, Len(path))
  BY <1>5 DEF Good
<1> QED BY <1>1, <1>2, <1>6

(* What a node inherits is what is found of each name in the nearest       *)
(* ancestor that has a property of that name.                              *)
LEMMA NearestIsInheritable ==
  ASSUME PropertiesInv, NEW node \in Nodes, NEW path, path = PathToRoot[node], NEW p \in Properties
  PROVE  p \in Nearest(path, Len(path)) <=> p \in Inheritable(node, propertyName[p])
<1> DEFINE name == propertyName[p]
           Found(i) == GetPropertyOfName(path[i], name)
<1>1. path \in Seq(Nodes) /\ Len(path) \in Nat
  BY PathParts
<1>2. \A i \in 1..Len(path) : path[i] \in Nodes
  BY <1>1
<1>3. AncestorsOf(node) = {path[i] : i \in 1..Len(path)}
  BY <1>1 DEF AncestorsOf, Range
<1>4. \A i, j \in 1..Len(path) : IsNearer(path[i], path[j]) <=> i <= j
  BY FartherIsAncestor
<1>5. p # NoProperty
  BY NoPropertyAssumption
<1>6. ASSUME NEW i \in 1..Len(path)
      PROVE  /\ p \in Range(nodeProperties[path[i]]) <=> Found(i) = p
             /\ Found(i) # NoProperty
                  <=> \E q \in Range(nodeProperties[path[i]]) : propertyName[q] = name
  <2>1. path[i] \in Nodes /\ Range(nodeProperties[path[i]]) \subseteq Properties
    BY <1>2, NodeKnown
  <2>2. /\ \A q \in Range(nodeProperties[path[i]]) : propertyName[q] = name => Found(i) = q
        /\ (\A q \in Range(nodeProperties[path[i]]) : propertyName[q] # name) => Found(i) = NoProperty
    BY <2>1, FoundByName
  <2> HIDE DEF Found
  <2> QED BY <1>5, <2>1, <2>2, NoPropertyAssumption
<1>7. ASSUME NEW i \in 1..Len(path)
      PROVE  FoundAt(path, i, p)
               <=> /\ Found(i) = p
                   /\ \A j \in 1..Len(path) : Found(j) # NoProperty => i <= j
  <2>1. \A j \in 1..(i - 1) : j \in 1..Len(path) /\ ~(i <= j)
    BY <1>1
  <2>2. \A j \in 1..Len(path) : i <= j \/ j \in 1..(i - 1)
    BY <1>1
  <2> HIDE DEF Found
  <2> QED BY <1>6, <2>1, <2>2 DEF FoundAt
<1>8. p \in Inheritable(node, name)
        <=> /\ IsInheritable(p)
            /\ \E i \in 1..Len(path) :
                 /\ Found(i) = p
                 /\ \A j \in 1..Len(path) : Found(j) # NoProperty => i <= j
  BY <1>3, <1>4 DEF Inheritable
<1> HIDE DEF Found
<1> QED BY <1>7, <1>8 DEF Nearest

(* A property is inheritable of its own name only.                         *)
LEMMA InheritableOfItsName ==
  ASSUME PropertiesInv, NEW node \in Nodes, NEW name, NEW p \in Inheritable(node, name)
  PROVE  p \in Properties /\ propertyName[p] = name
<1>1. p \in Properties /\ \E a \in AncestorsOf(node) : p = GetPropertyOfName(a, name)
  BY DEF Inheritable
<1>2. PICK a \in AncestorsOf(node) : p = GetPropertyOfName(a, name)
  BY <1>1
<1>3. a \in Nodes
  <2>1. PathToRoot[node] \in Seq(Nodes)
    BY PathParts
  <2> QED BY <2>1 DEF AncestorsOf, Range
<1>4. p # NoProperty
  BY <1>1, NoPropertyAssumption
<1>5. /\ \A q \in Range(nodeProperties[a]) : propertyName[q] = name => GetPropertyOfName(a, name) = q
      /\ (\A q \in Range(nodeProperties[a]) : propertyName[q] # name) => GetPropertyOfName(a, name) = NoProperty
  BY <1>3, FoundByName
<1> QED BY <1>1, <1>2, <1>4, <1>5

(* The traits of a node say that it has an inheritable property if it has  *)
(* one: no category is taken for that trait.                               *)
LEMMA InheritableTrait ==
  ASSUME NEW node
  PROVE  "Inheritable" \in GetTraits(node)
           <=> \E p \in Range(nodeProperties[node]) : IsInheritable(p)
<1> DEFINE position == IF NodeParent[node] = NoNode THEN {"Root"} ELSE {}
           categories == UNION {MapPropertyCategoryToNodeTraits(PropertyCategory(property)) :
                                  property \in Range(nodeProperties[node])}
           inheriting == IF \E property \in Range(nodeProperties[node]) : IsInheritable(property)
                         THEN {"Inheritable"} ELSE {}
<1>1. \A type : MapPropertyTypeToPropertyCategory(type) # "Inheritable"
  BY DEF MapPropertyTypeToPropertyCategory
<1>2. \A p : "Inheritable" \notin MapPropertyCategoryToNodeTraits(PropertyCategory(p))
  BY <1>1 DEF MapPropertyCategoryToNodeTraits, PropertyCategory
<1>3. "Inheritable" \notin position
  OBVIOUS
<1>4. "Inheritable" \notin categories
  BY <1>2, ZenonT(30)
<1>5. "Inheritable" \in inheriting <=> \E p \in Range(nodeProperties[node]) : IsInheritable(p)
  OBVIOUS
<1>6. GetTraits(node) = position \cup categories \cup inheriting
  BY DEF GetTraits
<1> HIDE DEF position, categories, inheriting
<1> QED BY <1>3, <1>4, <1>5, <1>6

(* A category other than those of no trait is a trait of a node if one of  *)
(* its properties has it.                                                  *)
LEMMA CategoryTrait ==
  ASSUME NEW node, NEW p, PropertyCategory(p) \notin {"Root", "Miscellaneous"}
  PROVE  PropertyCategory(p) \in GetTraits(node)
           <=> \E q \in Range(nodeProperties[node]) : PropertyCategory(q) = PropertyCategory(p)
<1> DEFINE position == IF NodeParent[node] = NoNode THEN {"Root"} ELSE {}
           categories == UNION {MapPropertyCategoryToNodeTraits(PropertyCategory(property)) :
                                  property \in Range(nodeProperties[node])}
           inheriting == IF \E property \in Range(nodeProperties[node]) : IsInheritable(property)
                         THEN {"Inheritable"} ELSE {}
           category == PropertyCategory(p)
<1>1. \A type : MapPropertyTypeToPropertyCategory(type) # "Inheritable"
  BY DEF MapPropertyTypeToPropertyCategory
<1>2. category # "Inheritable" /\ category \notin {"Root", "Miscellaneous"}
  BY <1>1 DEF PropertyCategory
<1> HIDE DEF category
<1>3. \A q : category \in MapPropertyCategoryToNodeTraits(PropertyCategory(q)) <=> PropertyCategory(q) = category
  BY <1>2 DEF MapPropertyCategoryToNodeTraits
<1>4. category \notin position
  BY <1>2
<1>5. category \in categories <=> \E q \in Range(nodeProperties[node]) : PropertyCategory(q) = category
  BY <1>3, ZenonT(30)
<1>6. category \notin inheriting
  BY <1>2
<1>7. GetTraits(node) = position \cup categories \cup inheriting
  BY DEF GetTraits
<1> HIDE DEF position, categories, inheriting
<1>8. category \in GetTraits(node) <=> \E q \in Range(nodeProperties[node]) : PropertyCategory(q) = category
  BY <1>4, <1>5, <1>6, <1>7
<1> QED BY <1>8 DEF category

(* The traits of a node, and what is found by category, name and type.     *)
LEMMA TraitsAgree ==
  ASSUME PropertiesInv, NEW node \in Nodes
  PROVE  TraitsAgreeWithProperties(node)
<1> SUFFICES ASSUME NEW p \in Properties
             PROVE  LET category == PropertyCategory(p)
                    IN  /\ Contains(GetPropertiesOfCategory(node, category), p)
                             = (p = GetPropertyOfName(node, propertyName[p]))
                        /\ PropertyType(p) # UnknownType =>
                             GetPropertyOfType(node, PropertyType(p)) = GetPropertyOfName(node, propertyName[p])
                        /\ category \notin {"Root", "Miscellaneous"} =>
                             (category \in GetTraits(node)) = (GetPropertiesOfCategory(node, category) # <<>>)
  BY DEF TraitsAgreeWithProperties
<1> DEFINE category == PropertyCategory(p)
           found == GetPropertiesOfCategory(node, category)
           named == GetPropertyOfName(node, propertyName[p])
           s == nodeProperties[node]
<1>1. found \in Seq(Properties) /\ Range(found) = {q \in Range(s) : PropertyCategory(q) = category}
  BY FoundByCategory
<1>2. /\ \A q \in Range(s) : propertyName[q] = propertyName[p] => named = q
      /\ (\A q \in Range(s) : propertyName[q] # propertyName[p]) => named = NoProperty
  BY FoundByName
<1>3. PropertyType(p) # UnknownType => GetPropertyOfType(node, PropertyType(p)) = named
  BY FoundByType
<1>4. category \notin {"Root", "Miscellaneous"} =>
        (category \in GetTraits(node) <=> \E q \in Range(s) : PropertyCategory(q) = category)
  BY CategoryTrait
<1>5. PropertyCategory(p) = category
  OBVIOUS
<1> HIDE DEF category, found, named, s
<1>6. Contains(found, p) <=> p \in Range(found)
  BY <1>1 DEF Contains, Range
<1>7. p \in Range(found) <=> p = named
  BY <1>1, <1>2, <1>5, NoPropertyAssumption
<1>8. found # <<>> <=> Range(found) # {}
  BY <1>1 DEF Range
<1>9. Contains(found, p) = (p = named)
  BY <1>6, <1>7 DEF Contains
<1>10. category \notin {"Root", "Miscellaneous"} => (category \in GetTraits(node)) = (found # <<>>)
  BY <1>1, <1>4, <1>8
<1> QED BY <1>3, <1>9, <1>10 DEF category, found, named

(* Of each name a node inherits the property of its nearest ancestor with  *)
(* that name, it inherits if the traits of an ancestor say so, and traits  *)
(* and lookups agree: for any tree of nodes, any names, and however the    *)
(* nodes were edited.                                                      *)
THEOREM InheritanceIsNearest == NodePropertiesSpec => []InheritedIsNearest
<1>1. PropertiesInv => InheritedIsNearest
  <2> SUFFICES ASSUME PropertiesInv, NEW node \in Nodes
               PROVE  LET inherited == GetInheritedProperties(node)
                      IN  /\ Range(inherited) = UNION {Inheritable(node, name) : name \in Range(propertyName)}
                          /\ \A i, j \in DOMAIN inherited :
                               i # j => propertyName[inherited[i]] # propertyName[inherited[j]]
                          /\ (inherited # <<>>)
                               = (\E ancestor \in AncestorsOf(node) : "Inheritable" \in GetTraits(ancestor))
                          /\ TraitsAgreeWithProperties(node)
    BY DEF InheritedIsNearest
  <2> DEFINE inherited == GetInheritedProperties(node)
             path == PathToRoot[node]
             last == Len(path)
  <2>1. path \in Seq(Nodes) /\ last \in Nat /\ last \in 0..last
    BY PathParts
  <2>2. AncestorsOf(node) = {path[i] : i \in 1..last}
    BY <2>1 DEF AncestorsOf, Range
  <2>3. path = PathToRoot[node] /\ inherited = FoldLeft(CollectFrom, <<>>, path)
    BY DEF GetInheritedProperties
  <2> HIDE DEF inherited, path
  <2>4. inherited \in Seq(Properties) /\ DistinctNames(inherited) /\ Range(inherited) = Nearest(path, last)
    BY <2>1, <2>3, InheritedAre
  <2>5. Range(inherited) = UNION {Inheritable(node, name) : name \in Range(propertyName)}
    <3>1. ASSUME NEW p \in Range(inherited)
          PROVE  p \in UNION {Inheritable(node, name) : name \in Range(propertyName)}
      <4>1. p \in Properties /\ p \in Nearest(path, last)
        BY <2>4 DEF Nearest
      <4>2. propertyName[p] \in Range(propertyName)
        BY <4>1, PropertiesAreKnown DEF Range
      <4>3. p \in Inheritable(node, propertyName[p])
        BY <2>3, <4>1, NearestIsInheritable
      <4> QED BY <4>2, <4>3
    <3>2. ASSUME NEW name \in Range(propertyName), NEW p \in Inheritable(node, name)
          PROVE  p \in Range(inherited)
      <4>1. p \in Properties /\ propertyName[p] = name
        BY InheritableOfItsName
      <4> QED BY <2>3, <2>4, <4>1, NearestIsInheritable
    <3> QED BY <3>1, <3>2
  <2>6. \A i, j \in DOMAIN inherited : i # j => propertyName[inherited[i]] # propertyName[inherited[j]]
    BY <2>4 DEF DistinctNames
  <2>7. (inherited # <<>>) = (\E ancestor \in AncestorsOf(node) : "Inheritable" \in GetTraits(ancestor))
    <3>1. inherited # <<>> <=> Range(inherited) # {}
      BY <2>4 DEF Range
    <3>2. ASSUME NEW p \in Nearest(path, last)
          PROVE  \E i \in 1..last : \E q \in Range(nodeProperties[path[i]]) : IsInheritable(q)
      BY DEF Nearest, FoundAt
    <3>3. ASSUME NEW i \in 1..last, NEW q \in Range(nodeProperties[path[i]]), IsInheritable(q)
          PROVE  Nearest(path, last) # {}
      BY <2>1, <3>3, NameIsNearest
    <3>4. Nearest(path, last) # {}
            <=> \E i \in 1..last : \E q \in Range(nodeProperties[path[i]]) : IsInheritable(q)
      BY <3>2, <3>3
    <3>5. (\E ancestor \in AncestorsOf(node) : "Inheritable" \in GetTraits(ancestor))
            <=> \E i \in 1..last : \E q \in Range(nodeProperties[path[i]]) : IsInheritable(q)
      BY <2>2, InheritableTrait
    <3> QED BY <2>4, <3>1, <3>4, <3>5
  <2>8. TraitsAgreeWithProperties(node)
    BY TraitsAgree
  <2> QED BY <2>5, <2>6, <2>7, <2>8 DEF inherited
<1> QED BY <1>1, AlwaysSound, PTL
-----------------------------------------------------------------------------
(* The properties GM and SZ: values, lists of them, and what a root node   *)
(* has.                                                                    *)

Values == {value \in Seq(Int) : Len(value) \in {1, 2}}
ValueLists == Seq(Values)

RootOK ==
  /\ rootProperties = [type \in DOMAIN rootProperties |-> rootProperties[type]]
  /\ DOMAIN rootProperties \subseteq {"GM", "SZ"}
  /\ \A type \in DOMAIN rootProperties : rootProperties[type] \in ValueLists

LEMMA GivenValues == RootValues \subseteq Values
BY RootAssumption DEF Values

(* One number, or two, and its elements.                                   *)
LEMMA ValueParts ==
  ASSUME NEW value \in Values
  PROVE  /\ value[1] \in Int /\ value[Len(value)] \in Int /\ Len(value) \in {1, 2}
         /\ Range(value) = {value[1], value[Len(value)]}
         /\ AreNumbers(value) <=> value[1] # NotANumber /\ value[Len(value)] # NotANumber
<1>1. value \in Seq(Int) /\ Len(value) \in {1, 2}
  BY DEF Values
<1>2. DOMAIN value = 1 .. Len(value)
  BY <1>1
<1>3. Range(value) = {value[1], value[Len(value)]}
  <2>1. CASE Len(value) = 1
    BY <1>2, <2>1 DEF Range
  <2>2. CASE Len(value) = 2
    BY <1>2, <2>2 DEF Range
  <2> QED BY <1>1, <2>1, <2>2
<1> QED BY <1>1, <1>3 DEF AreNumbers

LEMMA SingleValue ==
  ASSUME NEW n \in Int
  PROVE  /\ Single(n) \in Values /\ Len(Single(n)) = 1 /\ Single(n)[1] = n
         /\ AreNumbers(Single(n)) <=> n # NotANumber
<1>1. Single(n) \in Values /\ Len(Single(n)) = 1 /\ Single(n)[1] = n
  BY DEF Single, Values
<1> QED BY <1>1, ValueParts

(* The value of a board size gives that size.                              *)
LEMMA BoardSizeValue ==
  ASSUME NEW size \in Int \X Int
  PROVE  LET value == CreateBoardSizePropertyValue(size)
         IN  /\ value \in Values /\ SizeOf(value) = size
             /\ AreNumbers(value) <=> size[1] # NotANumber /\ size[2] # NotANumber
<1> DEFINE value == CreateBoardSizePropertyValue(size)
<1>1. PICK a \in Int, b \in Int : size = <<a, b>>
  OBVIOUS
<1>2. value = IF a = b THEN <<a>> ELSE <<a, b>>
  BY <1>1 DEF CreateBoardSizePropertyValue, Single, Pair
<1>3. value \in Values /\ value[1] = a /\ value[Len(value)] = b
  BY <1>2 DEF Values
<1> HIDE DEF value
<1> QED BY <1>1, <1>3, ValueParts DEF value, SizeOf

(* The number of a game type is one.                                       *)
LEMMA GameTypeNumbers ==
  /\ DOMAIN GameTypes = 1 .. 40 /\ GameTypes[1] = "Go"
  /\ MapNumberValueToGameType(1) = "Go"
  /\ MapNumberValueToGameType(MapGameTypeToNumberValue("Go")) = "Go"
  /\ MapNumberValueToGameType(GameTypeNaN) = UnknownGameType
  /\ \A n : MapNumberValueToGameType(n) # UnknownGameType =>
       MapGameTypeToNumberValue(MapNumberValueToGameType(n)) \in Int
<1>1. DOMAIN GameTypes = 1 .. 40 /\ GameTypes[1] = "Go"
  BY DEF GameTypes
<1>2. \A n : n \in DOMAIN GameTypes =>
        LET m == MapGameTypeToNumberValue(GameTypes[n])
        IN  m \in DOMAIN GameTypes /\ GameTypes[m] = GameTypes[n]
  BY DEF MapGameTypeToNumberValue
<1>3. MapNumberValueToGameType(1) = "Go"
  BY <1>1 DEF MapNumberValueToGameType
<1>4. MapNumberValueToGameType(MapGameTypeToNumberValue("Go")) = "Go"
  BY <1>1, <1>2 DEF MapNumberValueToGameType
<1>5. MapNumberValueToGameType(GameTypeNaN) = UnknownGameType
  BY <1>1 DEF MapNumberValueToGameType, GameTypeNaN, NotANumber
<1>6. ASSUME NEW n, MapNumberValueToGameType(n) # UnknownGameType
      PROVE  MapGameTypeToNumberValue(MapNumberValueToGameType(n)) \in Int
  <2>1. n \in DOMAIN GameTypes /\ MapNumberValueToGameType(n) = GameTypes[n]
    BY <1>6 DEF MapNumberValueToGameType
  <2> QED BY <1>1, <1>2, <2>1
<1> QED BY <1>1, <1>3, <1>4, <1>5, <1>6

-----------------------------------------------------------------------------
(* What a list of values says.                                             *)

LEMMA GameTypeOfNone == GetGameType(<<>>) = "Go"
BY GameTypeNumbers DEF GetGameType, GetGameTypeAsNumber, DefaultGameType

LEMMA GameTypeOfOne ==
  ASSUME NEW value \in Values
  PROVE  GetGameType(<<value>>) =
           IF Len(value) = 1 /\ AreNumbers(value) THEN MapNumberValueToGameType(value[1])
           ELSE UnknownGameType
<1>1. <<value>> # <<>> /\ Len(<<value>>) = 1 /\ <<value>>[1] = value
  OBVIOUS
<1>2. GetGameTypeAsNumber(<<value>>) =
        IF Len(value) = 1 /\ AreNumbers(value) THEN value[1] ELSE GameTypeNaN
  BY <1>1 DEF GetGameTypeAsNumber
<1> QED BY <1>2, GameTypeNumbers DEF GetGameType

LEMMA GameTypeOfMore ==
  ASSUME NEW list \in ValueLists, list # <<>>, Len(list) # 1
  PROVE  GetGameType(list) = UnknownGameType
BY GameTypeNumbers DEF GetGameType, GetGameTypeAsNumber

LEMMA BoardSizeOfOne ==
  ASSUME NEW value, NEW game
  PROVE  GetBoardSize(<<value>>, game) =
           IF AreNumbers(value) /\ IsValidSize(SizeOf(value), game) THEN SizeOf(value)
           ELSE BoardSizeInvalid
<1>1. <<value>> # <<>> /\ Len(<<value>>) = 1 /\ <<value>>[1] = value
  OBVIOUS
<1> QED BY <1>1 DEF GetBoardSize

LEMMA BoardSizeOfNone == ASSUME NEW game PROVE GetBoardSize(<<>>, game) = GetDefaultBoardSize(game)
BY DEF GetBoardSize

LEMMA BoardSizeOfMore ==
  ASSUME NEW list \in ValueLists, list # <<>>, Len(list) # 1, NEW game
  PROVE  GetBoardSize(list, game) = BoardSizeInvalid
BY DEF GetBoardSize

(* A list is empty, one value, or more.                                    *)
LEMMA ListKinds ==
  ASSUME NEW list \in ValueLists
  PROVE  \/ list = <<>>
         \/ list[1] \in Values /\ list = <<list[1]>>
         \/ list # <<>> /\ Len(list) # 1 /\ list[1] \in Values
<1>1. list \in Seq(Values) /\ Len(list) \in Nat
  BY DEF ValueLists
<1>2. list # <<>> => list[1] \in Values
  BY <1>1
<1>3. Len(list) = 1 => list = <<list[1]>>
  BY <1>1
<1> QED BY <1>2, <1>3

LEMMA ValuesOfOK == RootOK => \A type : ValuesOf(type) \in ValueLists
BY DEF RootOK, ValuesOf, Has, ValueLists

-----------------------------------------------------------------------------
(* What SGFC makes of the properties.                                      *)

(* It delivers one game type, and at most one board size, which are        *)
(* numbers.                                                                *)
Delivered(properties) ==
  /\ DOMAIN properties \in {{"GM"}, {"GM", "SZ"}}
  /\ \A type \in DOMAIN properties :
       \E value \in Values : AreNumbers(value) /\ properties[type] = <<value>>
  /\ Len(properties["GM"][1]) = 1

(* The game as its properties have it.                                     *)
GameTypeIn(properties) == GetGameType(properties["GM"])
BoardSizeIn(properties) ==
  GetBoardSize(IF "SZ" \in DOMAIN properties THEN properties["SZ"] ELSE <<>>, GameTypeIn(properties))

(* A known type and a valid size survive.                                  *)
Survives(before, properties) ==
  before["GM"] # UnknownGameType =>
    /\ GameTypeIn(properties) = before["GM"]
    /\ before["SZ"] # BoardSizeInvalid => BoardSizeIn(properties) = before["SZ"]

LEMMA CorrectedType ==
  ASSUME RootOK
  PROVE  LET value == CorrectedGameType
         IN  /\ value \in Values /\ Len(value) = 1 /\ AreNumbers(value)
             /\ GetGameType(<<value>>) = MapNumberValueToGameType(value[1])
             /\ GameOf("GM") # UnknownGameType => MapNumberValueToGameType(value[1]) = GameOf("GM")
<1> DEFINE value == CorrectedGameType
           list == ValuesOf("GM")
<1>1. list \in ValueLists
  BY ValuesOfOK
<1>2. value = IF list # <<>> /\ Len(list[1]) = 1 /\ AreNumbers(list[1]) THEN list[1] ELSE Single(1)
  BY DEF CorrectedGameType
<1>3. GameOf("GM") = GetGameType(list)
  BY DEF GameOf
<1> HIDE DEF value, list
<1>4. list # <<>> => list[1] \in Values
  BY <1>1, ListKinds
<1>5. Single(1) \in Values /\ Len(Single(1)) = 1 /\ AreNumbers(Single(1)) /\ Single(1)[1] = 1
  BY SingleValue DEF NotANumber
<1>6. value \in Values /\ Len(value) = 1 /\ AreNumbers(value)
  BY <1>2, <1>4, <1>5
<1>7. GetGameType(<<value>>) = MapNumberValueToGameType(value[1])
  BY <1>6, GameTypeOfOne
<1>8. ASSUME GetGameType(list) # UnknownGameType
      PROVE  MapNumberValueToGameType(value[1]) = GetGameType(list)
  <2>1. CASE list = <<>>
    BY <1>2, <1>5, <2>1, GameTypeOfNone, GameTypeNumbers
  <2>2. CASE list[1] \in Values /\ list = <<list[1]>>
    <3>1. GetGameType(list) =
            IF Len(list[1]) = 1 /\ AreNumbers(list[1]) THEN MapNumberValueToGameType(list[1][1])
            ELSE UnknownGameType
      BY <2>2, GameTypeOfOne
    <3>2. list # <<>>
      BY <2>2
    <3> QED BY <1>2, <1>8, <3>1, <3>2
  <2>3. CASE list # <<>> /\ Len(list) # 1
    BY <1>1, <1>8, <2>3, GameTypeOfMore
  <2> QED BY <1>1, <2>1, <2>2, <2>3, ListKinds
<1> QED BY <1>3, <1>6, <1>7, <1>8 DEF value

(* A list of board sizes is left out, gets the size of Go, or is its first *)
(* value.                                                                  *)
LEMMA CorrectedSize ==
  ASSUME RootOK, NEW size \in CorrectedBoardSizes
  PROVE  LET game == MapNumberValueToGameType(CorrectedGameType[1])
             old == GetBoardSize(ValuesOf("SZ"), game)
             list == IF "SZ" \in DOMAIN size THEN size["SZ"] ELSE <<>>
         IN  /\ size = <<>> \/ (DOMAIN size = {"SZ"} /\ size = [SZ |-> size["SZ"]])
             /\ "SZ" \in DOMAIN size => \E value \in Values : AreNumbers(value) /\ size["SZ"] = <<value>>
             /\ old # BoardSizeInvalid => GetBoardSize(list, game) = old
<1> DEFINE game == MapNumberValueToGameType(CorrectedGameType[1])
           l == ValuesOf("SZ")
           default == IF game = "Go" THEN {[SZ |-> <<Single(19)>>]} ELSE {<<>>}
           value == CreateBoardSizePropertyValue(SizeOf(l[1]))
           kept == [SZ |-> <<value>>]
           list == IF "SZ" \in DOMAIN size THEN size["SZ"] ELSE <<>>
<1>1. l \in ValueLists
  BY ValuesOfOK
<1>2. CorrectedBoardSizes =
        IF l = <<>> \/ ~AreNumbers(l[1]) THEN default
        ELSE IF IsValidSize(SizeOf(l[1]), game) THEN {kept}
        ELSE default \cup {kept}
  BY DEF CorrectedBoardSizes
<1> HIDE DEF l, game
<1>3. l # <<>> => l[1] \in Values
  BY <1>1, ListKinds
<1>4. Single(19) \in Values /\ AreNumbers(Single(19)) /\ SizeOf(Single(19)) = <<19, 19>>
  BY SingleValue DEF NotANumber, SizeOf
<1>5. ASSUME l # <<>>, AreNumbers(l[1])
      PROVE  value \in Values /\ AreNumbers(value) /\ SizeOf(value) = SizeOf(l[1])
  <2>1. SizeOf(l[1]) \in Int \X Int /\ l[1] \in Values
    BY <1>3, <1>5, ValueParts DEF SizeOf
  <2>2. SizeOf(l[1])[1] # NotANumber /\ SizeOf(l[1])[2] # NotANumber
    BY <1>5, <2>1, ValueParts DEF SizeOf
  <2> QED BY <2>1, <2>2, BoardSizeValue
<1> HIDE DEF value
<1>6. size \in default \/ (size = kept /\ l # <<>> /\ AreNumbers(l[1]))
  BY <1>2
<1>7. size = <<>> \/ size = [SZ |-> <<Single(19)>>] \/ size = kept
  BY <1>6
<1>8. size = <<>> \/ (DOMAIN size = {"SZ"} /\ size = [SZ |-> size["SZ"]])
  BY <1>7
<1>9. ASSUME "SZ" \in DOMAIN size
      PROVE  \E v \in Values : AreNumbers(v) /\ size["SZ"] = <<v>>
  BY <1>4, <1>5, <1>6, <1>9
<1>10. ASSUME GetBoardSize(l, game) # BoardSizeInvalid
       PROVE  GetBoardSize(list, game) = GetBoardSize(l, game)
  <2>1. CASE l = <<>>
    <3>1. size \in default /\ GetBoardSize(l, game) = GetDefaultBoardSize(game)
      BY <1>2, <2>1, BoardSizeOfNone
    <3>2. CASE game = "Go"
      <4>1. list = <<Single(19)>>
        BY <3>1, <3>2
      <4>2. IsValidSize(<<19, 19>>, game)
        BY <3>2 DEF IsValidSize, MaximumGo
      <4>3. GetBoardSize(<<Single(19)>>, game) = <<19, 19>>
        BY <1>4, <4>2, BoardSizeOfOne
      <4>4. GetDefaultBoardSize(game) = <<19, 19>>
        BY <3>2 DEF GetDefaultBoardSize
      <4> QED BY <3>1, <4>1, <4>3, <4>4
    <3>3. CASE game # "Go"
      <4>1. list = <<>>
        BY <3>1, <3>3
      <4> QED BY <2>1, <4>1
    <3> QED BY <3>2, <3>3
  <2>2. CASE l[1] \in Values /\ l = <<l[1]>>
    <3>1. AreNumbers(l[1]) /\ IsValidSize(SizeOf(l[1]), game) /\ GetBoardSize(l, game) = SizeOf(l[1])
      BY <1>10, <2>2, BoardSizeOfOne
    <3>2. l # <<>>
      BY <2>2
    <3>3. size = kept /\ SizeOf(value) = SizeOf(l[1]) /\ AreNumbers(value)
      BY <1>2, <1>5, <3>1, <3>2
    <3>4. list = <<value>>
      BY <3>3
    <3> QED BY <3>1, <3>3, <3>4, BoardSizeOfOne
  <2>3. CASE l # <<>> /\ Len(l) # 1
    BY <1>1, <1>10, <2>3, BoardSizeOfMore
  <2> QED BY <1>1, <2>1, <2>2, <2>3, ListKinds
<1> QED BY <1>8, <1>9, <1>10 DEF l, game

-----------------------------------------------------------------------------
(* The client's calls keep lists of values in the root node.               *)

LEMMA ListsOK == \A list \in Lists : list \in ValueLists
<1> SUFFICES ASSUME NEW list \in Lists PROVE list \in ValueLists
  OBVIOUS
<1>1. PICK n \in 0 .. MaxRootValues : list \in [1 .. n -> RootValues]
  BY DEF Lists
<1>2. n \in Nat /\ list \in [1 .. n -> Values]
  BY <1>1, GivenValues, RootAssumption
<1> QED BY <1>2 DEF ValueLists

(* Without the first occurrence of one of its values, a list is a list.    *)
LEMMA RemovedOK ==
  ASSUME NEW list \in ValueLists, NEW value \in Range(list)
  PROVE  RemoveFirst(list, value) \in ValueLists
<1> DEFINE places == {i \in 1 .. Len(list) : list[i] = value}
<1>1. list \in Seq(Values) /\ Len(list) \in Nat /\ DOMAIN list = 1 .. Len(list)
  BY DEF ValueLists
<1>2. places \subseteq Nat /\ places # {}
  BY <1>1 DEF Range
<1>3. \E least \in places : \A i \in places : least <= i
  <2> HIDE DEF places
  <2> QED BY <1>2, LeastNumber
<1>4. Min(places) \in places
  BY <1>3 DEF Min
<1>5. SelectInSeq(list, LAMBDA v : v = value) = Min(places)
  BY <1>2 DEF SelectInSeq
<1>6. RemoveFirst(list, value) = RemoveAt(list, Min(places))
  BY <1>2, <1>5 DEF RemoveFirst
<1> DEFINE place == Min(places)
<1>7. place \in 1 .. Len(list)
  BY <1>4
<1> HIDE DEF place, places
<1>8. SubSeq(list, 1, place - 1) \in Seq(Values) /\ SubSeq(list, place + 1, Len(list)) \in Seq(Values)
  BY <1>1, <1>7
<1>9. RemoveAt(list, place) \in Seq(Values)
  BY <1>8 DEF RemoveAt
<1> QED BY <1>6, <1>9 DEF place, ValueLists

LEMMA SetRootOK ==
  ASSUME RootOK, NEW type \in {"GM", "SZ"}, NEW list \in ValueLists, SetRoot(type, list)
  PROVE  RootOK'
BY DEF SetRoot, RootOK

-----------------------------------------------------------------------------
(* The invariant: what SGFC delivers is kept until it has been read, and   *)
(* the decoder takes it for what the game makes of it.                     *)

GameInProperties ==
  /\ GameOf("GM") = GameTypeIn(rootProperties)
  /\ GameOf("SZ") = BoardSizeIn(rootProperties)

DecodedAsGame == decoded = [GM |-> GameOf("GM"), SZ |-> GameOf("SZ")]

RootInv ==
  /\ RootOK
  /\ rootStage \in {"client", "written", "read"}
  /\ rootStage \in {"written", "read"} => Delivered(rootProperties) /\ Survives(written, rootProperties)
  /\ rootStage = "read" => DecodedAsGame

LEMMA GameIsInProperties == ASSUME "GM" \in DOMAIN rootProperties PROVE GameInProperties
BY DEF GameInProperties, GameTypeIn, BoardSizeIn, GameOf, ValuesOf, Has

LEMMA WriteKeepsInv ==
  ASSUME RootInv, WriteAndCorrect
  PROVE  RootInv'
<1> DEFINE value == CorrectedGameType
           game == MapNumberValueToGameType(value[1])
           old == GetBoardSize(ValuesOf("SZ"), game)
<1>1. RootOK
  BY DEF RootInv
<1>2. PICK size \in CorrectedBoardSizes :
        rootProperties' = [type \in {"GM"} \cup DOMAIN size |->
                             IF type = "GM" THEN <<value>> ELSE size[type]]
  BY DEF WriteAndCorrect
<1>3. /\ value \in Values /\ Len(value) = 1 /\ AreNumbers(value)
      /\ GetGameType(<<value>>) = game
      /\ GameOf("GM") # UnknownGameType => game = GameOf("GM")
  BY <1>1, CorrectedType
<1>4. /\ size = <<>> \/ (DOMAIN size = {"SZ"} /\ size = [SZ |-> size["SZ"]])
      /\ "SZ" \in DOMAIN size => \E v \in Values : AreNumbers(v) /\ size["SZ"] = <<v>>
      /\ old # BoardSizeInvalid =>
           GetBoardSize(IF "SZ" \in DOMAIN size THEN size["SZ"] ELSE <<>>, game) = old
  BY <1>1, CorrectedSize
<1>5. written' = [type \in {"GM", "SZ"} |-> GameOf(type)] /\ rootStage' = "written"
  BY DEF WriteAndCorrect
<1>6. GameOf("SZ") = GetBoardSize(ValuesOf("SZ"), GameOf("GM"))
  BY DEF GameOf
<1> HIDE DEF value, game
<1>7. DOMAIN size \in {{}, {"SZ"}}
  BY <1>4
<1>8. DOMAIN rootProperties' = {"GM"} \cup DOMAIN size
  BY <1>2
<1>9. /\ rootProperties'["GM"] = <<value>>
      /\ ("SZ" \in DOMAIN rootProperties') = ("SZ" \in DOMAIN size)
      /\ "SZ" \in DOMAIN size => rootProperties'["SZ"] = size["SZ"]
  BY <1>2
<1>10. \A type \in DOMAIN rootProperties' :
         \E v \in Values : AreNumbers(v) /\ rootProperties'[type] = <<v>>
  BY <1>2, <1>3, <1>4, <1>7
<1>11. Delivered(rootProperties')
  <2>1. Len(rootProperties'["GM"][1]) = 1
    BY <1>3, <1>9
  <2>2. DOMAIN rootProperties' \in {{"GM"}, {"GM", "SZ"}}
    BY <1>7, <1>8
  <2> QED BY <1>10, <2>1, <2>2 DEF Delivered
<1>12. RootOK'
  <2>1. \A v \in Values : <<v>> \in ValueLists
    BY DEF ValueLists
  <2>2. \A type \in DOMAIN rootProperties' : rootProperties'[type] \in ValueLists
    BY <1>10, <2>1
  <2>3. DOMAIN rootProperties' \subseteq {"GM", "SZ"}
    BY <1>7, <1>8
  <2>4. rootProperties' = [type \in DOMAIN rootProperties' |-> rootProperties'[type]]
    BY <1>2
  <2> QED BY <2>2, <2>3, <2>4 DEF RootOK
<1>13. GameTypeIn(rootProperties') = game
  BY <1>3, <1>9 DEF GameTypeIn
<1>14. BoardSizeIn(rootProperties') =
         GetBoardSize(IF "SZ" \in DOMAIN size THEN size["SZ"] ELSE <<>>, game)
  BY <1>9, <1>13 DEF BoardSizeIn
<1>15. Survives(written', rootProperties')
  <2>1. written'["GM"] = GameOf("GM") /\ written'["SZ"] = GameOf("SZ")
    BY <1>5
  <2> SUFFICES ASSUME GameOf("GM") # UnknownGameType
               PROVE  /\ game = GameOf("GM")
                      /\ GameOf("SZ") # BoardSizeInvalid => BoardSizeIn(rootProperties') = GameOf("SZ")
    BY <1>13, <2>1 DEF Survives
  <2>2. game = GameOf("GM")
    BY <1>3
  <2>3. GameOf("SZ") = old
    BY <1>6, <2>2
  <2> QED BY <1>4, <1>14, <2>2, <2>3
<1> QED BY <1>5, <1>11, <1>12, <1>15 DEF RootInv

(* The list that the decoder makes of what SGFC delivers is that list.     *)
LEMMA ReadKeepsInv ==
  ASSUME RootInv, ReadRoot
  PROVE  RootInv'
<1>1. RootOK /\ Delivered(rootProperties) /\ Survives(written, rootProperties)
  BY DEF RootInv, ReadRoot
<1>2. Has("GM") /\ Has("SZ") = ("SZ" \in DOMAIN rootProperties)
  BY <1>1 DEF Delivered, Has
<1>3. ASSUME NEW type \in {"GM", "SZ"}, Has(type)
      PROVE  IsDecodable(type) /\ DecodedValues(type) = ValuesOf(type)
  <2>1. PICK value \in Values : AreNumbers(value) /\ rootProperties[type] = <<value>>
    BY <1>1, <1>3 DEF Delivered, Has
  <2>2. ValuesOf(type) = <<value>>
    BY <1>3, <2>1 DEF ValuesOf
  <2>3. <<value>> # <<>> /\ <<value>>[1] = value
    OBVIOUS
  <2>4. SubSeq(<<value>>, 1, 1) = <<value>>
    <3> DEFINE list == <<value>>
               read == SubSeq(list, 1, 1)
    <3>1. list \in Seq(Values) /\ Len(list) = 1
      OBVIOUS
    <3> HIDE DEF list
    <3>2. read \in Seq(Values) /\ Len(read) = 1 /\ read[1] = list[1]
      BY <3>1
    <3> HIDE DEF read
    <3>3. read = <<read[1]>> /\ list = <<list[1]>>
      BY <3>1, <3>2
    <3> QED BY <3>2, <3>3 DEF list, read
  <2> QED BY <2>1, <2>2, <2>3, <2>4 DEF IsDecodable, DecodedValues
<1>4. IsDecodable("GM") /\ IsDecodable("SZ")
  BY <1>3 DEF IsDecodable
<1>5. GetGameTypeFromNode = GameOf("GM")
  BY <1>2, <1>3 DEF GetGameTypeFromNode, GameOf
<1>6. GetBoardSizeFromNode(GameOf("GM")) = GameOf("SZ")
  <2>1. GameOf("SZ") = GetBoardSize(ValuesOf("SZ"), GameOf("GM"))
    BY DEF GameOf
  <2>2. CASE Has("SZ")
    BY <1>3, <2>1, <2>2 DEF GetBoardSizeFromNode
  <2>3. CASE ~Has("SZ")
    BY <2>1, <2>3, BoardSizeOfNone DEF GetBoardSizeFromNode, ValuesOf
  <2> QED BY <2>2, <2>3
<1>7. /\ rootStage' = "read" /\ UNCHANGED <<rootProperties, written>>
      /\ decoded' = [GM |-> GameOf("GM"), SZ |-> GameOf("SZ")]
  BY <1>4, <1>5, <1>6 DEF ReadRoot
<1>8. DecodedAsGame'
  BY <1>7 DEF DecodedAsGame, GameOf, ValuesOf, Has
<1>9. RootOK'
  BY <1>1, <1>7 DEF RootOK
<1> QED BY <1>1, <1>7, <1>8, <1>9 DEF RootInv

LEMMA RootInitInv == RootInit => RootInv
BY DEF RootInit, NoRoot, RootInv, RootOK

LEMMA RootNextInv == RootInv /\ [RootNext]_rootVars => RootInv'
<1> SUFFICES ASSUME RootInv, [RootNext]_rootVars PROVE RootInv'
  OBVIOUS
<1>1. RootOK
  BY DEF RootInv
<1>2. ASSUME NEW type \in {"GM", "SZ"}, NEW list \in ValueLists, rootStage = "client", SetRoot(type, list)
      PROVE  RootInv'
  BY <1>1, <1>2, SetRootOK DEF RootInv, SetRoot
<1>3. ASSUME NEW type \in {"GM", "SZ"}, CreateRootProperty(type) PROVE RootInv'
  BY <1>2, <1>3, ListsOK DEF CreateRootProperty
<1>4. ASSUME NEW type \in {"GM", "SZ"}, RemoveRootProperty(type) PROVE RootInv'
  BY <1>1, <1>4 DEF RemoveRootProperty, RootInv, RootOK, Restrict
<1>5. ASSUME NEW type \in {"GM", "SZ"}, SetPropertyValues(type) PROVE RootInv'
  BY <1>2, <1>5, ListsOK DEF SetPropertyValues
<1>6. ASSUME NEW type \in {"GM", "SZ"}, AppendPropertyValue(type) PROVE RootInv'
  <2>1. PICK value \in RootValues : SetRoot(type, Append(rootProperties[type], value))
    BY <1>6 DEF AppendPropertyValue
  <2>2. rootProperties[type] \in Seq(Values) /\ value \in Values
    BY <1>1, <1>6, GivenValues DEF RootOK, AppendPropertyValue, Has, ValueLists
  <2>3. Append(rootProperties[type], value) \in ValueLists
    BY <2>2 DEF ValueLists
  <2> QED BY <1>2, <1>6, <2>1, <2>3 DEF AppendPropertyValue
<1>7. ASSUME NEW type \in {"GM", "SZ"}, RemovePropertyValue(type) PROVE RootInv'
  <2>1. PICK value \in Range(ValuesOf(type)) : SetRoot(type, RemoveFirst(rootProperties[type], value))
    BY <1>7 DEF RemovePropertyValue
  <2>2. Has(type)
    BY <2>1 DEF ValuesOf, Range
  <2>3. rootProperties[type] \in ValueLists /\ value \in Range(rootProperties[type])
    BY <1>1, <2>1, <2>2 DEF RootOK, ValuesOf, Has
  <2> QED BY <1>2, <1>7, <2>1, <2>3, RemovedOK DEF RemovePropertyValue
<1>8. ASSUME NEW n \in RootNumbers, SetGameType(MapNumberValueToGameType(n)) PROVE RootInv'
  <2> DEFINE value == CreateGameTypePropertyValue(MapNumberValueToGameType(n))
  <2>1. MapGameTypeToNumberValue(MapNumberValueToGameType(n)) \in Int
    BY <1>8, GameTypeNumbers DEF SetGameType
  <2>2. value \in Values
    BY <2>1, SingleValue DEF CreateGameTypePropertyValue
  <2>3. rootStage = "client" /\ SetRoot("GM", <<value>>)
    BY <1>8 DEF SetGameType
  <2> HIDE DEF value
  <2>4. <<value>> \in ValueLists
    BY <2>2 DEF ValueLists
  <2> QED BY <1>2, <2>3, <2>4
<1>9. ASSUME NEW size \in RootNumbers \X RootNumbers, SetBoardSize(size) PROVE RootInv'
  <2> DEFINE value == CreateBoardSizePropertyValue(size)
  <2>1. RootNumbers \subseteq Int
    BY RootAssumption DEF RootNumbers, Range
  <2>2. size \in Int \X Int
    BY <2>1
  <2>3. value \in Values
    BY <2>2, BoardSizeValue
  <2>4. rootStage = "client" /\ SetRoot("SZ", <<value>>)
    BY <1>9 DEF SetBoardSize
  <2> HIDE DEF value
  <2>5. <<value>> \in ValueLists
    BY <2>3 DEF ValueLists
  <2> QED BY <1>2, <2>4, <2>5
<1>10. CASE EditReadRoot
  BY <1>1, <1>10 DEF EditReadRoot, RootInv, RootOK
<1>11. CASE UNCHANGED rootVars
  BY <1>11 DEF rootVars, RootInv, RootOK, DecodedAsGame, GameOf, ValuesOf, Has
<1> QED
  BY <1>3, <1>4, <1>5, <1>6, <1>7, <1>8, <1>9, <1>10, <1>11, WriteKeepsInv, ReadKeepsInv DEF RootNext

(* What the decoder took for the type and the size of a game is what the   *)
(* game says afterwards, and what a game with a known type and a valid     *)
(* size said before it was written.                                        *)
THEOREM DecoderTakesTheGame == RootSpec => []DecoderAgreesWithGame
<1>1. RootInv => DecoderAgreesWithGame
  <2> SUFFICES ASSUME RootInv, rootStage = "read"
               PROVE  /\ decoded = [GM |-> GameOf("GM"), SZ |-> GameOf("SZ")]
                      /\ written["GM"] # UnknownGameType =>
                           /\ decoded["GM"] = written["GM"]
                           /\ written["SZ"] # BoardSizeInvalid => decoded["SZ"] = written["SZ"]
    BY DEF RootInv, DecoderAgreesWithGame
  <2>1. decoded = [GM |-> GameOf("GM"), SZ |-> GameOf("SZ")]
    BY DEF RootInv, DecodedAsGame
  <2>2. Delivered(rootProperties) /\ Survives(written, rootProperties)
    BY DEF RootInv
  <2>3. "GM" \in DOMAIN rootProperties
    BY <2>2 DEF Delivered
  <2>4. decoded["GM"] = GameTypeIn(rootProperties) /\ decoded["SZ"] = BoardSizeIn(rootProperties)
    BY <2>1, <2>3, GameIsInProperties DEF GameInProperties
  <2> QED BY <2>1, <2>2, <2>4 DEF Survives
<1> QED BY <1>1, RootInitInv, RootNextInv, PTL DEF RootSpec
=============================================================================
