------------------------------ MODULE GameTree ------------------------------
(***************************************************************************)
(* The game tree of libsgfc++: SgfcNode objects linked by a weak pointer   *)
(* to the parent and by strong (reference counting) pointers to the first  *)
(* child and the next sibling, SgfcTreeBuilder which relinks them, the     *)
(* strong root pointer of SgfcGame, and the handles (shared_ptr) that the  *)
(* library client holds.                                                   *)
(*                                                                         *)
(* One action is one call of the library.  A call that the code rejects    *)
(* with std::invalid_argument, or that finds the node already in place,    *)
(* returns before the first assignment: it is a stuttering step, and the   *)
(* conditions are the guards of the action.  When the last reference to a  *)
(* node goes away its destructor runs before the call returns, so every    *)
(* action ends with Settle.                                                *)
(***************************************************************************)
EXTENDS FiniteSets

CONSTANTS
  Node,     \* the node objects a client can create
  Null      \* nullptr

ASSUME NodeAssumption == IsFiniteSet(Node) /\ Null \notin Node

VARIABLES
  alive,    \* the node objects that exist
  held,     \* the nodes the client holds a handle on
  rootNode, \* SgfcGame::rootNode
  tree,     \* the links of all nodes; those of a node not alive are Null
  status    \* "defined" until a call runs into undefined behaviour

vars == <<alive, held, rootNode, tree, status>>

NodeOrNull == Node \cup {Null}

Links == [Node -> NodeOrNull]

Trees == [parent : Links, firstChild : Links, nextSibling : Links]

NoLinks == [n \in Node |-> Null]

-----------------------------------------------------------------------------
(* Walking the tree (SgfcNode).                                            *)

(* What a "while" loop visits that starts at start and follows link until  *)
(* it meets nullptr: the smallest set with start that link does not leave. *)
Walk(link, start) ==
  {n \in Node : \A S \in SUBSET Node :
     /\ start \in S \cup {Null}
     /\ \A m \in S : link[m] \in S \cup {Null}
     => n \in S}

ChildrenOf(t, n) == Walk(t.nextSibling, t.firstChild[n])

Ancestors(t, n) == Walk(t.parent, t.parent[n])

(* Mutant: only looks one level up.                                        *)
IsParentOf(t, n, m) == n = t.parent[m]

IsAncestorOf(t, n, m) == n \in Ancestors(t, m)

IsRoot(t, n) == t.parent[n] = Null

OneOf(S) == IF S = {} THEN Null ELSE CHOOSE n \in S : TRUE

GetLastChild(t, n) == OneOf({c \in ChildrenOf(t, n) : t.nextSibling[c] = Null})

GetPreviousSibling(t, n) ==
  IF IsRoot(t, n) \/ t.firstChild[t.parent[n]] = n
    THEN Null
    ELSE OneOf({c \in ChildrenOf(t, t.parent[n]) : t.nextSibling[c] = n})

-----------------------------------------------------------------------------
(* Relinking the tree (the private methods of SgfcTreeBuilder).  Each one  *)
(* maps the links before the call to the links after it; next to it stands *)
(* the condition under which it calls a method on nullptr.                 *)

(* The setters SetParent, SetFirstChild and SetNextSibling of SgfcNode.     *)
Assign(link, n, m) == [x \in Node |-> IF x = n THEN m ELSE link[x]]

(* Mutant: unlinks n without closing the gap among its siblings.           *)
RemoveWithoutRelinking(t, n) ==
  [parent      |-> Assign(t.parent, n, Null),
   firstChild  |-> IF ~IsRoot(t, n) /\ t.firstChild[t.parent[n]] = n
                     THEN Assign(t.firstChild, t.parent[n], Null) ELSE t.firstChild,
   nextSibling |-> Assign(t.nextSibling, n, Null)]

(* RemoveNodeFromCurrentLocation does nothing to a node without parent: a  *)
(* next sibling that such a node still has is not cleared.                 *)
RemoveNodeFromCurrentLocation(t, n) ==
  LET p    == t.parent[n]
      prev == GetPreviousSibling(t, n)
      next == t.nextSibling[n]
  IN  IF IsRoot(t, n) THEN t
      ELSE [parent      |-> Assign(t.parent, n, Null),
            firstChild  |-> IF t.firstChild[p] = n
                              THEN Assign(t.firstChild, p, next) ELSE t.firstChild,
            nextSibling |-> Assign(Assign(t.nextSibling, prev, next), n, Null)]

RemoveDereferencesNull(t, n) ==
  /\ ~IsRoot(t, n)
  /\ t.firstChild[t.parent[n]] # n
  /\ GetPreviousSibling(t, n) = Null

(* Mutant: makes a root of n only.                                         *)
RemoveFirstOfRow(t, n) ==
  IF n = Null THEN t ELSE RemoveNodeFromCurrentLocation(t, n)

(* RemoveNodeAndAllNextSiblingsFromParent makes a root of n and of every   *)
(* node behind it.                                                         *)
RemoveNodeAndAllNextSiblingsFromParent(t, n) ==
  LET row  == Walk(t.nextSibling, n)
      prev == GetPreviousSibling(t, n)
  IN  IF n = Null THEN t
      ELSE [parent      |-> [m \in Node |-> IF m \in row THEN Null ELSE t.parent[m]],
            firstChild  |-> [m \in Node |-> IF m = t.parent[n] /\ t.firstChild[m] = n
                                            THEN Null ELSE t.firstChild[m]],
            nextSibling |-> [m \in Node |-> IF m \in row \cup {prev}
                                            THEN Null ELSE t.nextSibling[m]]]

(* Its loop clears the link to the next sibling, which destroys a sibling  *)
(* that nothing else refers to, and then goes on with a raw pointer to it. *)
RemovesUnreferencedSibling(t, n) ==
  LET row == Walk(t.nextSibling, n)
  IN  /\ n # Null
      /\ \E m \in row \ {n} :
           /\ m \notin held \cup {rootNode}
           /\ \A x \in alive \ row : m \notin {t.firstChild[x], t.nextSibling[x]}

InsertNodeAtNewLocation(t, n, p, next) ==
  LET prev == IF next = Null THEN GetLastChild(t, p) ELSE GetPreviousSibling(t, next)
  IN  IF t.firstChild[p] = next
      THEN [parent      |-> Assign(t.parent, n, p),
            firstChild  |-> Assign(t.firstChild, p, n),
            nextSibling |-> Assign(t.nextSibling, n, next)]
      ELSE [parent      |-> Assign(t.parent, n, p),
            firstChild  |-> t.firstChild,
            nextSibling |-> Assign(Assign(t.nextSibling, prev, n), n, next)]

InsertDereferencesNull(t, p, next) ==
  /\ t.firstChild[p] # next
  /\ Null = IF next = Null THEN GetLastChild(t, p) ELSE GetPreviousSibling(t, next)

-----------------------------------------------------------------------------
(* Reference counting.                                                     *)

(* Mutant: the next sibling is a weak pointer, too.                        *)
SurvivorsOfFirstChildren(t, nodes, handles) ==
  UNION {S \in SUBSET nodes :
           \A n \in S : n \in handles \/ \E m \in S : n = t.firstChild[m]}

(* A node survives if a handle or a surviving node refers to it: the       *)
(* largest set in which every node has such a reference.  A cycle of       *)
(* strong references would survive without any handle.                     *)
Survivors(t, nodes, handles) ==
  UNION {S \in SUBSET nodes :
           \A n \in S : \/ n \in handles
                        \/ \E m \in S : n \in {t.firstChild[m], t.nextSibling[m]}}

(* Destroyed nodes lose their links, and a weak parent pointer to a        *)
(* destroyed node expires: from then on the child is a root.               *)
Prune(t, nodes) ==
  [parent      |-> [n \in Node |-> IF n \in nodes /\ t.parent[n] \in nodes
                                   THEN t.parent[n] ELSE Null],
   firstChild  |-> [n \in Node |-> IF n \in nodes THEN t.firstChild[n] ELSE Null],
   nextSibling |-> [n \in Node |-> IF n \in nodes THEN t.nextSibling[n] ELSE Null]]

(* A call ends with links t, client handles h and game root r.             *)
Settle(t, nodes, h, r) ==
  /\ alive' = Survivors(t, nodes, h \cup {r})
  /\ tree' = Prune(t, alive')
  /\ held' = h
  /\ rootNode' = r
  /\ UNCHANGED status

Crash(kind) ==
  /\ status' = kind
  /\ UNCHANGED <<alive, held, rootNode, tree>>

(* The end of a builder operation: cut says that the removed row of        *)
(* siblings loses an unreferenced member, null that a null pointer is used.*)
Finish(t, cut, null) ==
  IF cut THEN Crash("use after free")
  ELSE IF null THEN Crash("null dereference")
  ELSE Settle(t, alive, held, rootNode)

-----------------------------------------------------------------------------
Init ==
  /\ alive = {}
  /\ held = {}
  /\ rootNode = Null
  /\ tree = [parent |-> NoLinks, firstChild |-> NoLinks, nextSibling |-> NoLinks]
  /\ status = "defined"

(* The client's side: SgfcPlusPlusFactory::CreateNode, the getters of      *)
(* SgfcNode and SgfcGame that hand out a new handle, and the end of a      *)
(* handle's life.                                                          *)
CreateNode(n) ==
  /\ n \in Node \ alive
  /\ Settle(tree, alive \cup {n}, held \cup {n}, rootNode)

GetNode(n) ==
  /\ n \in Node \ held
  /\ n \in {rootNode} \cup UNION {{tree.parent[m], tree.firstChild[m], tree.nextSibling[m]} : m \in held}
  /\ Settle(tree, alive, held \cup {n}, rootNode)

DropHandle(n) ==
  /\ n \in held
  /\ Settle(tree, alive, held \ {n}, rootNode)

SetRootNode(n) ==
  /\ n \in (held \cup {Null}) \ {rootNode}
  /\ Settle(tree, alive, held, n)

(* The public methods of SgfcTreeBuilder.                                  *)
SetFirstChild(n, c) ==
  /\ n \in held /\ c \in held \cup {Null} /\ n # c
  /\ c # tree.firstChild[n]
  /\ c # Null => ~IsAncestorOf(tree, c, n)
  /\ LET old == tree.firstChild[n]
         t1  == RemoveNodeAndAllNextSiblingsFromParent(tree, old)
         t2  == RemoveNodeFromCurrentLocation(t1, c)
     IN  IF c = Null
           THEN Finish(t1, RemovesUnreferencedSibling(tree, old), FALSE)
           ELSE Finish(InsertNodeAtNewLocation(t2, c, n, t2.firstChild[n]),
                       RemovesUnreferencedSibling(tree, old),
                       \/ RemoveDereferencesNull(t1, c)
                       \/ InsertDereferencesNull(t2, n, t2.firstChild[n]))

(* Moves c to a place under n, before next or (Null) behind all children.  *)
MoveNode(c, n, next) ==
  LET t == RemoveNodeFromCurrentLocation(tree, c)
  IN  Finish(InsertNodeAtNewLocation(t, c, n, next), FALSE,
             RemoveDereferencesNull(tree, c) \/ InsertDereferencesNull(t, n, next))

AppendChild(n, c) ==
  /\ n \in held /\ c \in held /\ n # c
  /\ ~(tree.parent[c] = n /\ tree.nextSibling[c] = Null)
  /\ ~IsAncestorOf(tree, c, n)
  /\ MoveNode(c, n, Null)

InsertChild(n, c, ref) ==
  /\ n \in held /\ c \in held /\ ref \in held \cup {Null} /\ n # c
  /\ ref # Null => tree.parent[ref] = n
  /\ ~(tree.parent[c] = n /\ tree.nextSibling[c] = ref)
  /\ ~IsAncestorOf(tree, c, n)
  /\ MoveNode(c, n, ref)

RemoveChild(n, c) ==
  /\ n \in held /\ c \in held
  /\ tree.parent[c] = n
  /\ Finish(RemoveNodeFromCurrentLocation(tree, c), FALSE, RemoveDereferencesNull(tree, c))

(* Mutant: removes the old child first.                                    *)
ReplaceRemovedChild(n, new, old) ==
  /\ n \in held /\ new \in held /\ old \in held /\ n # new
  /\ tree.parent[old] = n
  /\ new # old
  /\ ~IsAncestorOf(tree, new, n)
  /\ LET t1 == RemoveNodeFromCurrentLocation(tree, new)
         t2 == RemoveNodeFromCurrentLocation(t1, old)
     IN  Finish(InsertNodeAtNewLocation(t2, new, n, old), FALSE,
                InsertDereferencesNull(t2, n, old))

ReplaceChild(n, new, old) ==
  /\ n \in held /\ new \in held /\ old \in held /\ n # new
  /\ tree.parent[old] = n
  /\ new # old
  /\ ~IsAncestorOf(tree, new, n)
  /\ LET t1 == RemoveNodeFromCurrentLocation(tree, new)
         t2 == InsertNodeAtNewLocation(t1, new, n, old)
     IN  Finish(RemoveNodeFromCurrentLocation(t2, old), FALSE,
                \/ RemoveDereferencesNull(tree, new)
                \/ InsertDereferencesNull(t1, n, old)
                \/ RemoveDereferencesNull(t2, old))

SetNextSibling(n, s) ==
  /\ n \in held /\ s \in held \cup {Null} /\ n # s
  /\ ~IsRoot(tree, n)
  /\ s # Null => ~IsAncestorOf(tree, s, n)
  /\ s # tree.nextSibling[n]
  /\ LET old == tree.nextSibling[n]
         t1  == RemoveNodeAndAllNextSiblingsFromParent(tree, old)
         t2  == RemoveNodeFromCurrentLocation(t1, s)
         p   == t2.parent[n]
     IN  IF s = Null
           THEN Finish(t1, RemovesUnreferencedSibling(tree, old), FALSE)
           ELSE Finish(InsertNodeAtNewLocation(t2, s, p, t2.nextSibling[n]),
                       RemovesUnreferencedSibling(tree, old),
                       \/ RemoveDereferencesNull(t1, s)
                       \/ p = Null
                       \/ InsertDereferencesNull(t2, p, t2.nextSibling[n]))

SetParent(n, p) ==
  /\ n \in held /\ p \in held \cup {Null} /\ n # p
  /\ tree.parent[n] # p
  /\ p # Null => ~IsAncestorOf(tree, n, p)
  /\ IF p = Null
       THEN Finish(RemoveNodeFromCurrentLocation(tree, n), FALSE, RemoveDereferencesNull(tree, n))
       ELSE MoveNode(n, p, Null)

ClientStep(n) == CreateNode(n) \/ GetNode(n) \/ DropHandle(n)

BuilderStep(n, m) ==
  \/ SetFirstChild(n, m)
  \/ AppendChild(n, m)
  \/ RemoveChild(n, m)
  \/ SetNextSibling(n, m)
  \/ SetParent(n, m)
  \/ \E k \in NodeOrNull : InsertChild(n, m, k) \/ ReplaceChild(n, m, k)

Next ==
  /\ status = "defined"
  /\ \/ \E n \in Node : ClientStep(n)
     \/ \E n \in NodeOrNull : SetRootNode(n)
     \/ \E n \in Node, m \in NodeOrNull : BuilderStep(n, m)

Spec == Init /\ [][Next]_vars

-----------------------------------------------------------------------------
(* Types, and memory safety: handles and links lead to existing nodes.     *)
TypeOK ==
  /\ alive \in SUBSET Node
  /\ held \in SUBSET alive
  /\ rootNode \in alive \cup {Null}
  /\ tree \in Trees
  /\ \A n \in Node :
       {tree.parent[n], tree.firstChild[n], tree.nextSibling[n]} \subseteq alive \cup {Null}
  /\ status \in {"defined", "use after free", "null dereference"}

(* Whatever sequence of calls built and rebuilt the trees: walking the     *)
(* children of n meets exactly the nodes whose parent is n (GetChildren    *)
(* and GetParent agree).                                                   *)
ParentAndChildrenAgree ==
  \A n, m \in Node : tree.parent[m] = n <=> m \in ChildrenOf(tree, n)

(* The siblings below one parent form one list: no two of them have the    *)
(* same next sibling, and none leads back to the first child, so that      *)
(* GetLastChild and GetChildren end.                                       *)
SiblingsFormList ==
  \A m, k \in Node :
    tree.parent[m] # Null /\ tree.nextSibling[m] # Null =>
      /\ tree.nextSibling[m] # tree.firstChild[tree.parent[m]]
      /\ tree.parent[k] = tree.parent[m] /\ tree.nextSibling[k] = tree.nextSibling[m] => k = m

LinksConsistent == ParentAndChildrenAgree /\ SiblingsFormList

(* No node is its own ancestor: the loops of IsDescendantOf, IsAncestorOf, *)
(* GetRoot and GetGameInfoNode end.                                        *)
Acyclic == \A n \in Node : n \notin Ancestors(tree, n)

Reachable ==
  {n \in Node : \A S \in SUBSET Node :
     /\ held \cup {rootNode} \subseteq S \cup {Null}
     /\ \A m \in S : {tree.firstChild[m], tree.nextSibling[m]} \subseteq S \cup {Null}
     => n \in S}

(* No call leaves a cycle of strong references behind: every node that no  *)
(* handle of the client and no root of a game leads to has been destroyed. *)
NoLeak == alive \subseteq Reachable

(* In every state and for all arguments, the one builder call that uses a  *)
(* null pointer is InsertChild with the child as its own reference child.  *)
OnlySelfReferenceCrashes ==
  [][status' = "null dereference" =>
       \A n \in Node, m, k \in NodeOrNull :
         /\ ~(SetFirstChild(n, m) \/ AppendChild(n, m) \/ RemoveChild(n, m))
         /\ ~(SetNextSibling(n, m) \/ SetParent(n, m) \/ ReplaceChild(n, m, k))
         /\ InsertChild(n, m, k) => k = m]_vars

(* Said by the documentation and refuted by the code (see README.md): the  *)
(* nodes removed by SetFirstChild and SetNextSibling are discarded once no *)
(* one holds a reference to them, without being used afterwards ...        *)
NoUseAfterFree == status # "use after free"

(* ... InsertChild accepts every child of the node as reference child ...  *)
NoNullDereference == status # "null dereference"

(* ... and a root node has no siblings.                                    *)
RootsHaveNoSiblings == \A n \in alive : IsRoot(tree, n) => tree.nextSibling[n] = Null
=============================================================================
