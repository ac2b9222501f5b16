---------------------------- MODULE PropertyMap ----------------------------
(***************************************************************************)
(* What a node promises about its properties (ISgfcNode): they are a set   *)
(* with at most one property of each name, in no particular order.  A      *)
(* property that is set takes the place of the one with its name; one that *)
(* is appended is refused if there is one with its name; what is refused   *)
(* changes nothing.                                                        *)
(***************************************************************************)
CONSTANT Nodes

VARIABLES
  propertyName,  \* the name of each property object, which never changes
  content,       \* the set of the properties of each node
  lastCall,      \* the operation that was called last
  outcome        \* of the last call: "ok" or "invalid_argument"

mapVars == <<propertyName, content, lastCall, outcome>>

SameName(property, other) == propertyName[property] = propertyName[other]
UniqueNames(set) == \A property, other \in set : SameName(property, other) => property = other

Init == content = [node \in Nodes |-> {}] /\ lastCall = "none" /\ outcome = "ok"

Accept(operation, node, set) ==
  /\ lastCall' = operation
  /\ content' = [content EXCEPT ![node] = set]
  /\ outcome' = "ok"
  /\ UNCHANGED propertyName

(* No more than this is promised of a call that is refused.                *)
Refuse ==
  /\ lastCall' \in {"SetProperties", "SetProperty", "AppendProperty", "RemoveProperty"}
  /\ outcome' = "invalid_argument"
  /\ UNCHANGED <<propertyName, content>>

Put(node, property) ==
  Accept("SetProperty", node,
         {other \in content[node] : ~SameName(other, property)} \cup {property})

Add(node, property) ==
  /\ \A other \in content[node] : ~SameName(other, property)
  /\ Accept("AppendProperty", node, content[node] \cup {property})

Remove(node, property) ==
  property \in content[node] /\ Accept("RemoveProperty", node, content[node] \ {property})

Replace(node, set) == UniqueNames(set) /\ Accept("SetProperties", node, set)

RemoveAll(node) == Accept("RemoveAllProperties", node, {})

Next ==
  \/ Refuse
  \/ \E node \in Nodes, property \in DOMAIN propertyName :
       Put(node, property) \/ Add(node, property) \/ Remove(node, property)
  \/ \E node \in Nodes : RemoveAll(node)
  \/ \E node \in Nodes, set \in SUBSET DOMAIN propertyName : Replace(node, set)

Spec == Init /\ [][Next]_mapVars
=============================================================================
