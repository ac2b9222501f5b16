--------------------------- MODULE NodeProperties ---------------------------
(***************************************************************************)
(* The properties of nodes (SgfcNode): a sequence of property objects for  *)
(* each node, which the client edits, and what is computed from it: the    *)
(* traits of a node, and the properties it inherits.  A property object    *)
(* may be in several nodes; its name and type never change.                *)
(*                                                                         *)
(* The tree of the nodes does not change here; GameTree models how it      *)
(* does.                                                                   *)
(***************************************************************************)
EXTENDS PropertyTables, SequencesExt

CONSTANTS
  Nodes,          \* the nodes of a tree
  NodeParent,     \* the parent of each node, NoNode for the root
  NoNode,
  Properties,     \* property objects
  NoProperty,     \* nullptr
  Namings,        \* choices of the name of each property object
  MaxArguments    \* bound: number of elements of a collection of properties

(* A tree has no cycle, as GameTree shows of the trees of nodes.           *)
ASSUME NodeParentAssumption ==
  /\ NodeParent \in [Nodes -> Nodes \cup {NoNode}]
  /\ NoNode \notin Nodes
  /\ \A some \in SUBSET Nodes : some # {} => \E node \in some : NodeParent[node] \notin some
ASSUME NoPropertyAssumption == NoProperty \notin Properties
ASSUME NamingsAssumption == \A naming \in Namings : DOMAIN naming = Properties

VARIABLES
  propertyName,     \* the name of each property object
  nodeProperties,   \* SgfcNode::properties
  lastCall,         \* the operation that was called last
  outcome           \* of the last call: "ok" or "invalid_argument"

nodePropertyVars == <<propertyName, nodeProperties, lastCall, outcome>>

-----------------------------------------------------------------------------
(* SgfcProperty.                                                           *)

PropertyType(property) == MapPropertyNameToPropertyType(propertyName[property])
PropertyCategory(property) == MapPropertyTypeToPropertyCategory(PropertyType(property))
IsInheritable(property) == "Inheritable" \in MapPropertyTypeToPropertyTraits(PropertyType(property))

-----------------------------------------------------------------------------
(* SgfcNode.                                                               *)

GetTraits(node) ==
  (IF NodeParent[node] = NoNode THEN {"Root"} ELSE {})
    \cup (UNION {MapPropertyCategoryToNodeTraits(PropertyCategory(property)) :
                   property \in Range(nodeProperties[node])})
    \cup (IF \E property \in Range(nodeProperties[node]) : IsInheritable(property)
          THEN {"Inheritable"} ELSE {})

(* What a client finds: the first property of a type or name, and all of a *)
(* category.                                                               *)
PropertyAt(node, i) == IF i = 0 THEN NoProperty ELSE nodeProperties[node][i]

GetPropertyOfType(node, type) ==
  PropertyAt(node, SelectInSeq(nodeProperties[node],
                               LAMBDA property : PropertyType(property) = type))

GetPropertyOfName(node, name) ==
  PropertyAt(node, SelectInSeq(nodeProperties[node],
                               LAMBDA property : propertyName[property] = name))

GetPropertiesOfCategory(node, category) ==
  FoldLeft(LAMBDA found, property :
             IF PropertyCategory(property) = category THEN Append(found, property) ELSE found,
           <<>>, nodeProperties[node])

(* Mutant: custom properties, which have no type of their own, are not     *)
(* compared by their names.                                                *)
ValidateTypesOnly(properties) ==
  /\ \A i \in DOMAIN properties : properties[i] # NoProperty
  /\ \A i, j \in DOMAIN properties :
       i # j /\ PropertyType(properties[i]) # UnknownType =>
         PropertyType(properties[i]) # PropertyType(properties[j])

(* No null element; no type, except the unknown one, and no name twice.    *)
ValidateProperties(properties) ==
  /\ \A i \in DOMAIN properties : properties[i] # NoProperty
  /\ \A i, j \in DOMAIN properties :
       i # j =>
         /\ PropertyType(properties[i]) # UnknownType =>
              PropertyType(properties[i]) # PropertyType(properties[j])
         /\ propertyName[properties[i]] # propertyName[properties[j]]

Assign(operation, node, properties) ==
  /\ lastCall' = operation
  /\ nodeProperties' = [nodeProperties EXCEPT ![node] = properties]
  /\ outcome' = "ok"
  /\ UNCHANGED propertyName

Throw(operation) ==
  /\ lastCall' = operation
  /\ outcome' = "invalid_argument"
  /\ UNCHANGED <<propertyName, nodeProperties>>

SetProperties(node, properties) ==
  IF ValidateProperties(properties)
  THEN Assign("SetProperties", node, properties)
  ELSE Throw("SetProperties")

EraseName(properties, name) ==
  RemoveFirstMatch(properties, LAMBDA property : propertyName[property] = name)

(* Mutant: a custom property takes the place of any other.                 *)
EraseAnyType(properties, type) ==
  RemoveFirstMatch(properties, LAMBDA property : PropertyType(property) = type)

EraseType(properties, type) ==
  IF type = UnknownType
  THEN properties
  ELSE RemoveFirstMatch(properties, LAMBDA property : PropertyType(property) = type)

SetProperty(node, property) ==
  IF property = NoProperty
  THEN Throw("SetProperty")
  ELSE LET others == EraseType(EraseName(nodeProperties[node], propertyName[property]),
                               PropertyType(property))
       IN  Assign("SetProperty", node, Append(others, property))

AppendProperty(node, property) ==
  IF \/ property = NoProperty
     \/ property \in Range(nodeProperties[node])
     \/ ~ValidateProperties(Append(nodeProperties[node], property))
  THEN Throw("AppendProperty")
  ELSE Assign("AppendProperty", node, Append(nodeProperties[node], property))

RemoveProperty(node, property) ==
  IF property \in Range(nodeProperties[node])
  THEN Assign("RemoveProperty", node, RemoveFirst(nodeProperties[node], property))
  ELSE Throw("RemoveProperty")

RemoveAllProperties(node) == Assign("RemoveAllProperties", node, <<>>)

-----------------------------------------------------------------------------
(* Inherited properties: from the node to the root, the inheritable ones   *)
(* whose names were not seen before.                                       *)

PathToRoot ==
  LET path[node \in Nodes] ==
        IF NodeParent[node] = NoNode THEN <<node>> ELSE <<node>> \o path[NodeParent[node]]
  IN  path

(* Mutant: a property of an ancestor hides that of its descendant.         *)
CollectFarther(inherited, property) ==
  IF IsInheritable(property)
  THEN Append(EraseName(inherited, propertyName[property]), property)
  ELSE inherited

Collect(inherited, property) ==
  IF IsInheritable(property)
       /\ propertyName[property] \notin {propertyName[seen] : seen \in Range(inherited)}
  THEN Append(inherited, property)
  ELSE inherited

CollectFrom(inherited, ancestor) == FoldLeft(Collect, inherited, nodeProperties[ancestor])

GetInheritedProperties(node) == FoldLeft(CollectFrom, <<>>, PathToRoot[node])

-----------------------------------------------------------------------------
PropertySequences == UNION {[1..n -> Properties \cup {NoProperty}] : n \in 0..MaxArguments}

NodePropertiesInit ==
  /\ propertyName \in Namings
  /\ nodeProperties = [node \in Nodes |-> <<>>]
  /\ lastCall = "none"
  /\ outcome = "ok"

(* Without property objects there is nothing to edit.                      *)
NodePropertiesIdle ==
  /\ propertyName = <<>>
  /\ nodeProperties = [node \in Nodes |-> <<>>]
  /\ lastCall = "none"
  /\ outcome = "ok"

NodePropertiesNext ==
  propertyName # <<>> /\ \E node \in Nodes :
    \/ \E properties \in PropertySequences : SetProperties(node, properties)
    \/ \E property \in Properties \cup {NoProperty} : SetProperty(node, property)
    \/ \E property \in Properties \cup {NoProperty} : AppendProperty(node, property)
    \/ \E property \in Properties \cup {NoProperty} : RemoveProperty(node, property)
    \/ RemoveAllProperties(node)

NodePropertiesSpec == NodePropertiesInit /\ [][NodePropertiesNext]_nodePropertyVars

-----------------------------------------------------------------------------
(* Properties.                                                             *)

TypeOK ==
  /\ propertyName \in Namings
  /\ nodeProperties \in [Nodes -> Seq(Properties)]
  /\ lastCall \in {"none", "SetProperties", "SetProperty", "AppendProperty",
                   "RemoveProperty", "RemoveAllProperties"}
  /\ outcome \in {"ok", "invalid_argument"}

(* "The SGF standard defines that only one of each property is allowed per *)
(* node": however a node is edited, no two of its properties have one      *)
(* name, or one type other than the unknown one.                           *)
UniqueProperties ==
  \A node \in Nodes : \A i, j \in DOMAIN nodeProperties[node] :
    LET property == nodeProperties[node][i]
        other    == nodeProperties[node][j]
    IN  i # j =>
          /\ propertyName[property] # propertyName[other]
          /\ PropertyType(property) # UnknownType => PropertyType(property) # PropertyType(other)

(* A node is a map from names to properties, whatever the order of its     *)
(* sequence, and a call that throws changes nothing (ISgfcNode).           *)
Map == INSTANCE PropertyMap WITH content <- [node \in Nodes |-> Range(nodeProperties[node])]
ImplementsPropertyMap == Map!Spec

(* Of each name a node inherits, or has, the property that is found in its *)
(* nearest ancestor with that name, and no other; it inherits at all only  *)
(* if the traits of an ancestor say so.  The traits of a node tell the     *)
(* categories of the properties that are found in it, and a property is    *)
(* found by its type if it has one.                                        *)
AncestorsOf(node) == Range(PathToRoot[node])
IsNearer(ancestor, farther) == farther \in AncestorsOf(ancestor)

Inheritable(node, name) ==
  {property \in Properties :
    /\ IsInheritable(property)
    /\ \E ancestor \in AncestorsOf(node) :
         /\ property = GetPropertyOfName(ancestor, name)
         /\ \A other \in AncestorsOf(node) :
              GetPropertyOfName(other, name) # NoProperty => IsNearer(ancestor, other)}

TraitsAgreeWithProperties(node) ==
  \A property \in Properties :
    LET category == PropertyCategory(property)
    IN  /\ Contains(GetPropertiesOfCategory(node, category), property)
             = (property = GetPropertyOfName(node, propertyName[property]))
        /\ PropertyType(property) # UnknownType =>
             GetPropertyOfType(node, PropertyType(property))
               = GetPropertyOfName(node, propertyName[property])
        /\ category \notin {"Root", "Miscellaneous"} =>
             (category \in GetTraits(node)) = (GetPropertiesOfCategory(node, category) # <<>>)

InheritedIsNearest ==
  propertyName # <<>> =>
  \A node \in Nodes :
    LET inherited == GetInheritedProperties(node)
    IN  /\ Range(inherited) = UNION {Inheritable(node, name) : name \in Range(propertyName)}
        /\ \A i, j \in DOMAIN inherited :
             i # j => propertyName[inherited[i]] # propertyName[inherited[j]]
        /\ (inherited # <<>>)
             = (\E ancestor \in AncestorsOf(node) : "Inheritable" \in GetTraits(ancestor))
        /\ TraitsAgreeWithProperties(node)
=============================================================================
