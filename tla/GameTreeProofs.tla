--------------------------- MODULE GameTreeProofs ---------------------------
(***************************************************************************)
(* Proofs about GameTree, for any finite set of nodes: the links agree and *)
(* have no cycle, no call leaves a node behind that only a cycle of        *)
(* references keeps alive, one call only uses a null pointer, and the      *)
(* calls implement the operations of OrderedForest.                        *)
(***************************************************************************)
EXTENDS GameTreeRefinement, FiniteSetTheorems, SequenceTheorems, TLAPS

USE DEF NodeOrNull, Links, Trees

-----------------------------------------------------------------------------
(* Walks.                                                                  *)

(* S contains start and is not left by following link.                     *)
Closed(link, start, S) ==
  /\ start \in S \cup {Null}
  /\ \A m \in S : link[m] \in S \cup {Null}

(* What a walk visits is in every closed set ...                           *)
LEMMA WalkLeast ==
  ASSUME NEW link, NEW start, NEW S \in SUBSET Node, Closed(link, start, S)
  PROVE  Walk(link, start) \subseteq S
BY DEF Walk, Closed

(* ... and a node that is in every closed set is visited.                  *)
LEMMA WalkGreatest ==
  ASSUME NEW link, NEW start, NEW n \in Node,
         \A S \in SUBSET Node : Closed(link, start, S) => n \in S
  PROVE  n \in Walk(link, start)
BY DEF Walk, Closed

(* A walk is itself closed.                                                *)
LEMMA WalkClosed ==
  ASSUME NEW link \in Links, NEW start \in NodeOrNull
  PROVE  /\ Walk(link, start) \in SUBSET Node
         /\ Closed(link, start, Walk(link, start))
<1> DEFINE W == Walk(link, start)
<1>1. W \in SUBSET Node
  BY DEF Walk
<1>2. start \in W \cup {Null}
  <2> SUFFICES ASSUME start # Null PROVE start \in W
    OBVIOUS
  <2> QED BY WalkGreatest DEF Closed
<1>3. ASSUME NEW m \in W PROVE link[m] \in W \cup {Null}
  <2> SUFFICES ASSUME link[m] # Null PROVE link[m] \in W
    OBVIOUS
  <2>1. m \in Node /\ link[m] \in Node
    BY <1>1
  <2>2. ASSUME NEW S \in SUBSET Node, Closed(link, start, S) PROVE link[m] \in S
    <3>1. m \in S
      BY <2>2, WalkLeast
    <3> QED BY <3>1, <2>2 DEF Closed
  <2> QED BY <2>1, <2>2, WalkGreatest
<1> QED BY <1>1, <1>2, <1>3 DEF Closed

(* A walk from nullptr visits nothing.                                     *)
LEMMA WalkNull ==
  ASSUME NEW link
  PROVE  Walk(link, Null) = {}
<1>1. Closed(link, Null, {})
  BY DEF Closed
<1> QED BY <1>1, WalkLeast

(* The node picked from a nonempty set is in it.                           *)
LEMMA OneOfMember ==
  ASSUME NEW S, S # {}
  PROVE  OneOf(S) \in S
BY DEF OneOf

-----------------------------------------------------------------------------
(* Types.                                                                  *)

(* All links of t lead to members of A.                                    *)
Linked(t, A) ==
  /\ t \in Trees
  /\ \A n \in Node : {t.parent[n], t.firstChild[n], t.nextSibling[n]} \subseteq A \cup {Null}

(* A setter of SgfcNode keeps the links well typed.                        *)
LEMMA AssignType ==
  ASSUME NEW link \in Links, NEW n, NEW m \in NodeOrNull
  PROVE  Assign(link, n, m) \in Links
BY DEF Assign

(* RemoveNodeFromCurrentLocation adds no link out of A.                    *)
LEMMA RemoveLinked ==
  ASSUME NEW A \in SUBSET Node, NEW t, Linked(t, A), NEW n \in Node
  PROVE  Linked(RemoveNodeFromCurrentLocation(t, n), A)
<1> DEFINE prev == GetPreviousSibling(t, n)
<1> HIDE DEF prev
<1>1. /\ t.parent \in Links /\ t.firstChild \in Links /\ t.nextSibling \in Links
      /\ t.parent[n] \in A \cup {Null} /\ t.nextSibling[n] \in A \cup {Null}
  BY DEF Linked
<1> QED BY <1>1 DEF Linked, RemoveNodeFromCurrentLocation, Assign, prev

(* RemoveNodeAndAllNextSiblingsFromParent adds no link out of A.           *)
LEMMA RemoveRowLinked ==
  ASSUME NEW A \in SUBSET Node, NEW t, Linked(t, A), NEW n \in NodeOrNull
  PROVE  Linked(RemoveNodeAndAllNextSiblingsFromParent(t, n), A)
BY DEF Linked, RemoveNodeAndAllNextSiblingsFromParent

(* InsertNodeAtNewLocation adds no link out of A when it is given nodes of *)
(* A.                                                                      *)
LEMMA InsertLinked ==
  ASSUME NEW A \in SUBSET Node, NEW t, Linked(t, A),
         NEW n \in A, NEW p \in A, NEW next \in A \cup {Null}
  PROVE  Linked(InsertNodeAtNewLocation(t, n, p, next), A)
BY DEF Linked, InsertNodeAtNewLocation, Assign

(* The survivors are among the nodes, include those with a handle, and     *)
(* keep what they refer to alive.                                          *)
LEMMA SurvivorsClosed ==
  ASSUME NEW A \in SUBSET Node, NEW t, Linked(t, A), NEW h
  PROVE  /\ Survivors(t, A, h) \in SUBSET A
         /\ h \cap A \subseteq Survivors(t, A, h)
         /\ \A n \in Survivors(t, A, h) :
              {t.firstChild[n], t.nextSibling[n]} \subseteq Survivors(t, A, h) \cup {Null}
<1> DEFINE Kept(S) == \A n \in S : \/ n \in h
                                   \/ \E m \in S : n \in {t.firstChild[m], t.nextSibling[m]}
           X == Survivors(t, A, h)
<1>1. X = UNION {S \in SUBSET A : Kept(S)}
  BY DEF Survivors
<1>2. ASSUME NEW Z \in SUBSET A, Kept(Z)
      PROVE  Z \subseteq X
  BY <1>1, <1>2
<1>3. ASSUME NEW n \in X, NEW c \in {t.firstChild[n], t.nextSibling[n]}, c # Null
      PROVE  c \in X
  <2>1. PICK S \in SUBSET A : Kept(S) /\ n \in S
    BY <1>1
  <2>2. c \in A
    BY <2>1, <1>3 DEF Linked
  <2>3. Kept(S \cup {c})
    BY <2>1, <1>3
  <2> QED BY <2>2, <2>3, <1>2
<1>4. h \cap A \subseteq X
  <2>1. Kept(h \cap A)
    OBVIOUS
  <2> HIDE DEF Kept, X
  <2> QED BY <1>2, <2>1
<1>5. X \in SUBSET A
  BY <1>1
<1> HIDE DEF X
<1>6. \A n \in X : {t.firstChild[n], t.nextSibling[n]} \subseteq X \cup {Null}
  BY <1>3
<1> QED BY <1>4, <1>5, <1>6 DEF X

(* After pruning, the links of the survivors lead to survivors.            *)
LEMMA PruneLinked ==
  ASSUME NEW A \in SUBSET Node, NEW t, Linked(t, A), NEW X \in SUBSET A,
         \A n \in X : {t.firstChild[n], t.nextSibling[n]} \subseteq X \cup {Null}
  PROVE  Linked(Prune(t, X), X)
BY DEF Linked, Prune

(* TypeOK is a conjunction of facts about handles, links and status.       *)
LEMMA TypeOKLinked ==
  TypeOK <=> /\ alive \in SUBSET Node /\ held \in SUBSET alive /\ rootNode \in alive \cup {Null}
             /\ Linked(tree, alive)
             /\ status \in {"defined", "use after free", "null dereference"}
BY DEF TypeOK, Linked

(* A call that ends leaves handles and links within the survivors.         *)
LEMMA SettleType ==
  ASSUME NEW A \in SUBSET Node, NEW t, Linked(t, A), NEW h \in SUBSET A, NEW r \in A \cup {Null},
         TypeOK, Settle(t, A, h, r)
  PROVE  TypeOK'
<1> DEFINE X == Survivors(t, A, h \cup {r})
<1>1. /\ X \in SUBSET A
      /\ (h \cup {r}) \cap A \subseteq X
      /\ \A n \in X : {t.firstChild[n], t.nextSibling[n]} \subseteq X \cup {Null}
  BY SurvivorsClosed
<1>2. /\ alive' = X /\ tree' = Prune(t, X) /\ held' = h /\ rootNode' = r /\ status' = status
  BY DEF Settle
<1> HIDE DEF X
<1>3. Linked(Prune(t, X), X)
  BY <1>1, PruneLinked
<1>4. Linked(tree, alive)' 
  BY <1>2, <1>3 DEF Linked
<1> QED BY <1>1, <1>2, <1>4, TypeOKLinked DEF TypeOK, Linked

(* So does the end of a builder operation, whether it is regular or        *)
(* undefined behaviour.                                                    *)
LEMMA FinishType ==
  ASSUME NEW t, Linked(t, alive), NEW cut, NEW null, TypeOK, Finish(t, cut, null)
  PROVE  TypeOK'
<1>1. CASE Settle(t, alive, held, rootNode)
  BY <1>1, SettleType, TypeOKLinked
<1>2. CASE Crash("use after free") \/ Crash("null dereference")
  BY <1>2 DEF Crash, TypeOK
<1> QED BY <1>1, <1>2 DEF Finish

(* AppendChild, InsertChild and SetParent keep the types.                  *)
LEMMA MoveType ==
  ASSUME NEW c \in held, NEW n \in held, NEW next \in held \cup {Null}, TypeOK, MoveNode(c, n, next)
  PROVE  TypeOK'
<1> DEFINE t == RemoveNodeFromCurrentLocation(tree, c)
<1>1. alive \in SUBSET Node /\ held \in SUBSET alive /\ Linked(tree, alive)
  BY TypeOKLinked
<1>2. Linked(t, alive)
  BY <1>1, RemoveLinked
<1> HIDE DEF t
<1>3. Linked(InsertNodeAtNewLocation(t, c, n, next), alive)
  BY <1>1, <1>2, InsertLinked
<1> QED BY <1>3, FinishType DEF MoveNode, t

(* Every step keeps handles and links within the nodes that exist.         *)
LEMMA TypeStep == TypeOK /\ [Next]_vars => TypeOK'
<1> SUFFICES ASSUME TypeOK, [Next]_vars PROVE TypeOK'
  OBVIOUS
<1>0. /\ alive \in SUBSET Node /\ held \in SUBSET alive /\ rootNode \in alive \cup {Null}
      /\ Linked(tree, alive)
      /\ status \in {"defined", "use after free", "null dereference"}
  BY TypeOKLinked
<1>1. ASSUME NEW n \in Node, CreateNode(n) PROVE TypeOK'
  <2>1. alive \cup {n} \in SUBSET Node /\ Linked(tree, alive \cup {n})
    BY <1>0 DEF Linked
  <2> QED BY <1>0, <1>1, <2>1, SettleType DEF CreateNode
<1>2. ASSUME NEW n \in Node, GetNode(n) PROVE TypeOK'
  <2>1. n = rootNode \/ \E m \in held : n \in {tree.parent[m], tree.firstChild[m], tree.nextSibling[m]}
    BY <1>2 DEF GetNode
  <2>2. n \in alive
    BY <1>0, <2>1, NodeAssumption DEF Linked
  <2> QED BY <1>0, <1>2, <2>2, SettleType DEF GetNode
<1>3. ASSUME NEW n \in Node, DropHandle(n) PROVE TypeOK'
  BY <1>0, <1>3, SettleType DEF DropHandle
<1>4. ASSUME NEW n \in NodeOrNull, SetRootNode(n) PROVE TypeOK'
  BY <1>0, <1>4, SettleType DEF SetRootNode
<1>5. ASSUME NEW n \in Node, NEW c \in NodeOrNull, SetFirstChild(n, c) PROVE TypeOK'
  <2> DEFINE old == tree.firstChild[n]
             t1  == RemoveNodeAndAllNextSiblingsFromParent(tree, old)
             t2  == RemoveNodeFromCurrentLocation(t1, c)
             t3  == InsertNodeAtNewLocation(t2, c, n, t2.firstChild[n])
  <2>1. n \in alive /\ c \in alive \cup {Null}
    BY <1>0, <1>5 DEF SetFirstChild
  <2>2. Linked(t1, alive)
    <3>1. old \in NodeOrNull
      BY <1>0 DEF Linked
    <3> QED BY <1>0, <3>1, RemoveRowLinked
  <2>3. CASE c = Null
    <3> HIDE DEF t1
    <3> QED BY <1>5, <2>2, <2>3, FinishType DEF SetFirstChild, t1
  <2>4. CASE c # Null
    <3>1. Linked(t2, alive)
      BY <1>0, <2>1, <2>2, <2>4, RemoveLinked
    <3> HIDE DEF t2
    <3>2. t2.firstChild[n] \in alive \cup {Null}
      BY <1>0, <2>1, <3>1 DEF Linked
    <3>3. Linked(t3, alive)
      BY <1>0, <2>1, <2>4, <3>1, <3>2, InsertLinked
    <3> HIDE DEF t3
    <3>4. \E cut, null : Finish(t3, cut, null)
      BY <1>5, <2>4 DEF SetFirstChild, t3, t2
    <3> QED BY <3>3, <3>4, FinishType
  <2> QED BY <2>3, <2>4
<1>6. ASSUME NEW n \in Node, NEW c \in NodeOrNull, AppendChild(n, c) PROVE TypeOK'
  BY <1>6, MoveType DEF AppendChild
<1>7. ASSUME NEW n \in Node, NEW c \in NodeOrNull, NEW ref \in NodeOrNull, InsertChild(n, c, ref)
      PROVE  TypeOK'
  BY <1>7, MoveType DEF InsertChild
<1>8. ASSUME NEW n \in Node, NEW c \in NodeOrNull, RemoveChild(n, c) PROVE TypeOK'
  BY <1>0, <1>8, RemoveLinked, FinishType DEF RemoveChild
<1>9. ASSUME NEW n \in Node, NEW new \in NodeOrNull, NEW old \in NodeOrNull, ReplaceChild(n, new, old)
      PROVE  TypeOK'
  <2> DEFINE t1 == RemoveNodeFromCurrentLocation(tree, new)
             t2 == InsertNodeAtNewLocation(t1, new, n, old)
             t3 == RemoveNodeFromCurrentLocation(t2, old)
  <2>1. n \in alive /\ new \in alive /\ old \in alive
    BY <1>0, <1>9 DEF ReplaceChild
  <2>2. Linked(t1, alive)
    BY <1>0, <2>1, RemoveLinked
  <2> HIDE DEF t1
  <2>3. Linked(t2, alive)
    BY <1>0, <2>1, <2>2, InsertLinked
  <2> HIDE DEF t2
  <2>4. Linked(t3, alive)
    BY <1>0, <2>1, <2>3, RemoveLinked
  <2> HIDE DEF t3
  <2>5. \E cut, null : Finish(t3, cut, null)
    BY <1>9 DEF ReplaceChild, t3, t2, t1
  <2> QED BY <2>4, <2>5, FinishType
<1>10. ASSUME NEW n \in Node, NEW s \in NodeOrNull, SetNextSibling(n, s) PROVE TypeOK'
  <2> DEFINE old == tree.nextSibling[n]
             t1  == RemoveNodeAndAllNextSiblingsFromParent(tree, old)
             t2  == RemoveNodeFromCurrentLocation(t1, s)
             p   == t2.parent[n]
             t3  == InsertNodeAtNewLocation(t2, s, p, t2.nextSibling[n])
  <2>1. n \in alive /\ s \in alive \cup {Null}
    BY <1>0, <1>10 DEF SetNextSibling
  <2>2. Linked(t1, alive)
    <3>1. old \in NodeOrNull
      BY <1>0 DEF Linked
    <3> QED BY <1>0, <3>1, RemoveRowLinked
  <2>3. CASE s = Null
    <3> HIDE DEF t1
    <3> QED BY <1>10, <2>2, <2>3, FinishType DEF SetNextSibling, t1
  <2>4. CASE s # Null
    <3>1. Linked(t2, alive)
      BY <1>0, <2>1, <2>2, <2>4, RemoveLinked
    <3> HIDE DEF t2
    <3>2. t2.nextSibling[n] \in alive \cup {Null} /\ p \in alive \cup {Null}
      BY <1>0, <2>1, <3>1 DEF Linked
    <3>3. Finish(t3, RemovesUnreferencedSibling(tree, old),
                 \/ RemoveDereferencesNull(t1, s)
                 \/ p = Null
                 \/ InsertDereferencesNull(t2, p, t2.nextSibling[n]))
      BY <1>10, <2>4 DEF SetNextSibling, t2
    <3> HIDE DEF t3, old, t1
    <3>4. CASE p = Null
      <4>1. Crash("use after free") \/ Crash("null dereference")
        BY <3>3, <3>4 DEF Finish
      <4> QED BY <1>0, <4>1 DEF Crash, TypeOK
    <3>5. CASE p # Null
      <4>1. Linked(t3, alive)
        BY <1>0, <2>1, <2>4, <3>1, <3>2, <3>5, InsertLinked DEF t3
      <4> QED BY <4>1, <3>3, FinishType
    <3> QED BY <3>4, <3>5
  <2> QED BY <2>3, <2>4
<1>11. ASSUME NEW n \in Node, NEW p \in NodeOrNull, SetParent(n, p) PROVE TypeOK'
  <2>1. CASE p = Null
    BY <1>0, <1>11, <2>1, RemoveLinked, FinishType DEF SetParent
  <2>2. CASE p # Null
    BY <1>11, <2>2, MoveType DEF SetParent
  <2> QED BY <2>1, <2>2
<1>12. CASE UNCHANGED vars
  BY <1>12 DEF vars, TypeOK
<1> QED BY <1>1, <1>2, <1>3, <1>4, <1>5, <1>6, <1>7, <1>8, <1>9, <1>10, <1>11, <1>12
        DEF Next, ClientStep, BuilderStep

(* Handles and links lead to existing nodes in every reachable state, for  *)
(* any number of nodes: the reference counts never free a linked node.     *)
THEOREM TypeCorrect == Spec => []TypeOK
<1>1. Init => TypeOK
  BY NodeAssumption DEF Init, TypeOK, NoLinks
<1> QED BY <1>1, TypeStep, PTL DEF Spec

-----------------------------------------------------------------------------
(* Consistent links.  Written out for the links t, LinksConsistent becomes *)
(* four facts; the first three of them are local to two or three nodes.    *)

FirstChildIsChild(t) ==
  \A n \in Node : t.firstChild[n] # Null => t.parent[t.firstChild[n]] = n

SiblingsHaveSameParent(t) ==
  \A m \in Node : t.parent[m] # Null /\ t.nextSibling[m] # Null =>
                    t.parent[t.nextSibling[m]] = t.parent[m]

NoSharedSibling(t) ==
  \A m, k \in Node :
    t.parent[m] # Null /\ t.nextSibling[m] # Null =>
      /\ t.nextSibling[m] # t.firstChild[t.parent[m]]
      /\ t.parent[k] = t.parent[m] /\ t.nextSibling[k] = t.nextSibling[m] => k = m

ChildrenAreListed(t) ==
  \A m \in Node : t.parent[m] # Null => m \in ChildrenOf(t, t.parent[m])

Consistent(t) ==
  /\ t \in Trees
  /\ FirstChildIsChild(t)
  /\ SiblingsHaveSameParent(t)
  /\ NoSharedSibling(t)
  /\ ChildrenAreListed(t)

(* What GetChildren returns for q has q as its parent.                     *)
LEMMA ChildHasParent ==
  ASSUME NEW t, Consistent(t), NEW q \in Node, NEW c \in ChildrenOf(t, q)
  PROVE  c \in Node /\ t.parent[c] = q
<1> DEFINE S == {z \in Node : t.parent[z] = q}
<1>1. Closed(t.nextSibling, t.firstChild[q], S)
  <2>1. t.firstChild[q] \in S \cup {Null}
    BY DEF Consistent, FirstChildIsChild
  <2>2. ASSUME NEW m \in S PROVE t.nextSibling[m] \in S \cup {Null}
    BY NodeAssumption DEF Consistent, SiblingsHaveSameParent
  <2> QED BY <2>1, <2>2 DEF Closed
<1>2. ChildrenOf(t, q) \subseteq S
  BY <1>1, WalkLeast DEF ChildrenOf
<1> QED BY <1>2

(* A child is in every set that holds the first child and is closed under  *)
(* the links to the next siblings.                                         *)
LEMMA ChildInRow ==
  ASSUME NEW t, Consistent(t), NEW m \in Node, t.parent[m] # Null,
         NEW S \in SUBSET Node, Closed(t.nextSibling, t.firstChild[t.parent[m]], S)
  PROVE  m \in S
BY WalkLeast DEF ChildrenOf, Consistent, ChildrenAreListed

(* No child is its own next sibling.                                       *)
LEMMA NotOwnSibling ==
  ASSUME NEW t, Consistent(t), NEW n \in Node, t.parent[n] # Null
  PROVE  t.nextSibling[n] # n
<1> SUFFICES ASSUME t.nextSibling[n] = n PROVE FALSE
  OBVIOUS
<1> DEFINE p == t.parent[n]
           W == ChildrenOf(t, p)
<1>1. p \in Node /\ t.firstChild \in Links /\ t.nextSibling \in Links
  BY DEF Consistent
<1>2. W \in SUBSET Node /\ Closed(t.nextSibling, t.firstChild[p], W)
  BY <1>1, WalkClosed DEF ChildrenOf
<1>3. t.firstChild[p] # n
  BY NodeAssumption DEF Consistent, NoSharedSibling
<1>4. ASSUME NEW z \in W, z # n PROVE t.nextSibling[z] # n
  <2>1. z \in Node /\ t.parent[z] = p
    BY <1>1, ChildHasParent
  <2> QED BY <1>4, <2>1, NodeAssumption DEF Consistent, NoSharedSibling
<1>5. Closed(t.nextSibling, t.firstChild[p], W \ {n})
  BY <1>2, <1>3, <1>4 DEF Closed
<1> HIDE DEF W
<1>6. n \in W \ {n}
  BY <1>2, <1>5, ChildInRow
<1> QED BY <1>6

(* GetPreviousSibling finds the node whose next sibling is n, unless n is  *)
(* the first child: RemoveNodeFromCurrentLocation then has a node to       *)
(* relink and uses no null pointer.                                        *)
LEMMA PreviousSibling ==
  ASSUME NEW t, Consistent(t), NEW n \in Node, t.parent[n] # Null,
         t.firstChild[t.parent[n]] # n
  PROVE  LET prev == GetPreviousSibling(t, n)
         IN  prev \in Node /\ t.parent[prev] = t.parent[n] /\ t.nextSibling[prev] = n
<1> DEFINE p == t.parent[n]
           W == ChildrenOf(t, p)
           C == {c \in W : t.nextSibling[c] = n}
<1>1. p \in Node /\ t.firstChild \in Links /\ t.nextSibling \in Links
  BY DEF Consistent
<1>2. W \in SUBSET Node /\ Closed(t.nextSibling, t.firstChild[p], W)
  BY <1>1, WalkClosed DEF ChildrenOf
<1>3. C # {}
  <2> SUFFICES ASSUME C = {} PROVE FALSE
    OBVIOUS
  <2>1. Closed(t.nextSibling, t.firstChild[p], W \ {n})
    BY <1>2 DEF Closed
  <2>2. n \in W \ {n}
    BY <1>2, <2>1, ChildInRow
  <2> QED BY <2>2
<1>4. GetPreviousSibling(t, n) = OneOf(C)
  BY DEF GetPreviousSibling, IsRoot
<1>5. OneOf(C) \in C
  BY <1>3, OneOfMember
<1>6. OneOf(C) \in ChildrenOf(t, p) /\ t.nextSibling[OneOf(C)] = n
  BY <1>5
<1>7. OneOf(C) \in Node /\ t.parent[OneOf(C)] = p
  BY <1>1, <1>6, ChildHasParent
<1> QED BY <1>4, <1>6, <1>7

(* Each kind of relinking keeps the links consistent.                      *)

(* RemoveNodeFromCurrentLocation takes n out of its row and keeps the      *)
(* links of all other nodes consistent; it does nothing to a root.         *)
LEMMA RemoveConsistent ==
  ASSUME NEW t, Consistent(t), NEW n \in Node
  PROVE  LET u == RemoveNodeFromCurrentLocation(t, n)
         IN  /\ Consistent(u)
             /\ u.parent = Assign(t.parent, n, Null)
             /\ t.parent[n] = Null => u = t
<1> DEFINE u    == RemoveNodeFromCurrentLocation(t, n)
           p    == t.parent[n]
           prev == GetPreviousSibling(t, n)
           next == t.nextSibling[n]
<1>t. /\ t \in Trees
      /\ t.parent \in Links /\ t.firstChild \in Links /\ t.nextSibling \in Links
  BY DEF Consistent
<1>1. CASE p = Null
  <2>1. u = t
    BY <1>1 DEF RemoveNodeFromCurrentLocation, IsRoot
  <2>2. Assign(t.parent, n, Null) = t.parent
    BY <1>t, <1>1 DEF Assign
  <2> QED BY <2>1, <2>2
<1>2. CASE p # Null
  <2>1. /\ p \in Node
        /\ t.firstChild[p] # n => prev \in Node /\ t.parent[prev] = p /\ t.nextSibling[prev] = n
        /\ t.firstChild[p] = n => prev = Null
    <3>1. p \in Node
      BY <1>t, <1>2
    <3>2. t.firstChild[p] = n => prev = Null
      BY DEF GetPreviousSibling
    <3>3. t.firstChild[p] # n => prev \in Node /\ t.parent[prev] = p /\ t.nextSibling[prev] = n
      BY <1>2, PreviousSibling
    <3> QED BY <3>1, <3>2, <3>3
  <2>2. /\ \A m \in Node : u.parent[m] = IF m = n THEN Null ELSE t.parent[m]
        /\ \A q \in Node : u.firstChild[q] = IF q = p /\ t.firstChild[p] = n THEN next ELSE t.firstChild[q]
        /\ \A m \in Node : u.nextSibling[m] = IF m = n THEN Null
                                              ELSE IF m = prev THEN next ELSE t.nextSibling[m]
        /\ u \in Trees /\ u.parent = Assign(t.parent, n, Null)
    <3>1. u = [parent      |-> Assign(t.parent, n, Null),
               firstChild  |-> IF t.firstChild[p] = n
                                 THEN Assign(t.firstChild, p, next) ELSE t.firstChild,
               nextSibling |-> Assign(Assign(t.nextSibling, prev, next), n, Null)]
      BY <1>2 DEF RemoveNodeFromCurrentLocation, IsRoot
    <3> HIDE DEF u, prev
    <3> QED BY <3>1, <1>t DEF Assign
  <2> HIDE DEF u, prev
  <2>3. FirstChildIsChild(u)
    BY <1>t, <2>1, <2>2, NodeAssumption
    DEF Consistent, FirstChildIsChild, SiblingsHaveSameParent, NoSharedSibling
  <2>4. SiblingsHaveSameParent(u)
    BY <1>t, <2>1, <2>2, NodeAssumption DEF Consistent, SiblingsHaveSameParent, NoSharedSibling
  <2>5. NoSharedSibling(u)
    BY <1>t, <2>1, <2>2, NodeAssumption
    DEF Consistent, SiblingsHaveSameParent, NoSharedSibling, FirstChildIsChild
  <2>6. ChildrenAreListed(u)
    <3> SUFFICES ASSUME NEW m \in Node, u.parent[m] # Null, NEW S \in SUBSET Node,
                        Closed(u.nextSibling, u.firstChild[u.parent[m]], S)
                 PROVE  m \in S
      BY WalkGreatest DEF ChildrenAreListed, ChildrenOf
    <3> DEFINE q == t.parent[m]
               T == {z \in S \ {n} : t.parent[z] = q}
               R == IF q = p /\ (t.firstChild[p] = n \/ prev \in S) THEN T \cup {n} ELSE T
    <3>1. m # n /\ u.parent[m] = q /\ q \in Node
      BY <1>t, <2>2
    <3>c. /\ u.firstChild[q] \in S \cup {Null}
          /\ \A z \in S : u.nextSibling[z] \in S \cup {Null}
      BY <3>1 DEF Closed
    <3>2. t.firstChild[q] \in R \cup {Null}
      BY <1>t, <2>1, <2>2, <3>1, <3>c DEF Consistent, FirstChildIsChild
    <3>3. ASSUME NEW z \in R PROVE t.nextSibling[z] \in R \cup {Null}
      <4>1. z \in Node /\ t.parent[z] = q
        BY <1>t, <3>1
      <4>2. t.nextSibling[z] # Null => t.parent[t.nextSibling[z]] = q
        BY <4>1, <3>1, NodeAssumption DEF Consistent, SiblingsHaveSameParent
      <4>3. CASE z = n
        <5>1. q = p /\ (t.firstChild[p] = n \/ prev \in S)
          BY <4>3
        <5>2. next \in S \cup {Null}
          BY <1>t, <2>1, <2>2, <3>1, <3>c, <5>1
        <5>3. next # n
          BY <1>2, NotOwnSibling
        <5> QED BY <4>2, <4>3, <5>2, <5>3
      <4>4. CASE z # n /\ t.nextSibling[z] = n
        BY <1>t, <1>2, <2>1, <2>2, <3>1, <4>1, <4>2, <4>4, NodeAssumption DEF Consistent, NoSharedSibling
      <4>5. CASE z # n /\ t.nextSibling[z] # n
        <5>1. z \in S /\ z # prev
          BY <2>1, <4>1, <4>5, NodeAssumption
        <5>2. t.nextSibling[z] \in S \cup {Null}
          BY <2>2, <3>c, <4>1, <4>5, <5>1
        <5> QED BY <4>2, <4>5, <5>2
      <4> QED BY <4>3, <4>4, <4>5
    <3>4. m \in R
      <4>1. R \in SUBSET Node /\ Closed(t.nextSibling, t.firstChild[q], R)
        BY <3>2, <3>3 DEF Closed
      <4> HIDE DEF R
      <4> QED BY <3>1, <4>1, ChildInRow, NodeAssumption
    <3> QED BY <3>1, <3>4
  <2> QED BY <1>2, <2>2, <2>3, <2>4, <2>5, <2>6 DEF Consistent, u
<1> QED BY <1>1, <1>2

(* The place of an insertion: below p, before next or behind all children. *)
(* Unless n becomes the first child there is a node it is put behind.      *)
LEMMA InsertPlace ==
  ASSUME NEW t, Consistent(t), NEW p \in Node, NEW next \in NodeOrNull,
         next # Null => t.parent[next] = p,
         ~InsertDereferencesNull(t, p, next), t.firstChild[p] # next
  PROVE  LET prev == IF next = Null THEN GetLastChild(t, p) ELSE GetPreviousSibling(t, next)
         IN  prev \in Node /\ t.parent[prev] = p /\ t.nextSibling[prev] = next
<1> DEFINE prev == IF next = Null THEN GetLastChild(t, p) ELSE GetPreviousSibling(t, next)
<1>1. CASE next = Null
  <2> DEFINE C == {c \in ChildrenOf(t, p) : t.nextSibling[c] = Null}
  <2>1. prev = OneOf(C) /\ prev # Null
    BY <1>1 DEF InsertDereferencesNull, GetLastChild
  <2>2. C # {}
    BY <2>1 DEF OneOf
  <2>3. prev \in ChildrenOf(t, p) /\ t.nextSibling[prev] = Null
    BY <2>1, <2>2, OneOfMember
  <2> QED BY <1>1, <2>3, ChildHasParent
<1>2. CASE next # Null
  BY <1>2, PreviousSibling, NodeAssumption
<1> QED BY <1>1, <1>2

LEMMA InsertConsistent ==
  ASSUME NEW t, Consistent(t), NEW n \in Node, t.parent[n] = Null,
         NEW p \in Node, p # n, NEW next \in NodeOrNull,
         next # Null => t.parent[next] = p,
         ~InsertDereferencesNull(t, p, next)
  PROVE  LET u == InsertNodeAtNewLocation(t, n, p, next)
         IN  Consistent(u) /\ u.parent = Assign(t.parent, n, p)
<1> DEFINE u     == InsertNodeAtNewLocation(t, n, p, next)
           first == t.firstChild[p] = next
           prev  == IF next = Null THEN GetLastChild(t, p) ELSE GetPreviousSibling(t, next)
<1>t. /\ t \in Trees
      /\ t.parent \in Links /\ t.firstChild \in Links /\ t.nextSibling \in Links
  BY DEF Consistent
<1>1. ~first => prev \in Node /\ t.parent[prev] = p /\ t.nextSibling[prev] = next
  BY InsertPlace
<1>2. /\ \A m \in Node : u.parent[m] = IF m = n THEN p ELSE t.parent[m]
      /\ \A q \in Node : u.firstChild[q] = IF q = p /\ first THEN n ELSE t.firstChild[q]
      /\ \A m \in Node : u.nextSibling[m] = IF m = n THEN next
                                            ELSE IF ~first /\ m = prev THEN n ELSE t.nextSibling[m]
      /\ u \in Trees /\ u.parent = Assign(t.parent, n, p)
  <2>1. CASE first
    <3>1. u = [parent      |-> Assign(t.parent, n, p),
               firstChild  |-> Assign(t.firstChild, p, n),
               nextSibling |-> Assign(t.nextSibling, n, next)]
      BY <2>1 DEF InsertNodeAtNewLocation
    <3> HIDE DEF u
    <3> QED BY <1>t, <2>1, <3>1 DEF Assign
  <2>2. CASE ~first
    <3>1. u = [parent      |-> Assign(t.parent, n, p),
               firstChild  |-> t.firstChild,
               nextSibling |-> Assign(Assign(t.nextSibling, prev, n), n, next)]
      BY <2>2 DEF InsertNodeAtNewLocation
    <3> HIDE DEF u, prev
    <3> QED BY <1>t, <2>2, <3>1 DEF Assign
  <2> QED BY <2>1, <2>2
<1> HIDE DEF u, prev
<1>3. FirstChildIsChild(u)
  BY <1>t, <1>1, <1>2, NodeAssumption DEF Consistent, FirstChildIsChild
<1>4. SiblingsHaveSameParent(u)
  BY <1>t, <1>1, <1>2, NodeAssumption DEF Consistent, SiblingsHaveSameParent
<1>5. NoSharedSibling(u)
  <2>1. ASSUME NEW m \in Node, u.parent[m] # Null, u.nextSibling[m] # Null
        PROVE  u.nextSibling[m] # u.firstChild[u.parent[m]]
    BY <1>t, <1>1, <1>2, <2>1, NodeAssumption
    DEF Consistent, FirstChildIsChild, SiblingsHaveSameParent, NoSharedSibling
  <2>2. ASSUME NEW m \in Node, NEW k \in Node, u.parent[m] # Null, u.nextSibling[m] # Null,
               u.parent[k] = u.parent[m], u.nextSibling[k] = u.nextSibling[m]
        PROVE  k = m
    BY <1>t, <1>1, <1>2, <2>2, NodeAssumption
    DEF Consistent, FirstChildIsChild, SiblingsHaveSameParent, NoSharedSibling
  <2> QED BY <2>1, <2>2 DEF NoSharedSibling
<1>6. ChildrenAreListed(u)
  <2> SUFFICES ASSUME NEW m \in Node, u.parent[m] # Null, NEW S \in SUBSET Node,
                      Closed(u.nextSibling, u.firstChild[u.parent[m]], S)
               PROVE  m \in S
    BY WalkGreatest DEF ChildrenAreListed, ChildrenOf
  <2> DEFINE q == u.parent[m]
             T == {z \in S : t.parent[z] = q}
  <2>c. /\ u.firstChild[q] \in S \cup {Null}
        /\ \A z \in S : u.nextSibling[z] \in S \cup {Null}
    BY DEF Closed
  <2>1. q \in Node
    BY <1>t, <1>2
  <2>2. t.firstChild[q] \in T \cup {Null}
    <3>1. t.firstChild[q] # Null => t.parent[t.firstChild[q]] = q
      BY <2>1 DEF Consistent, FirstChildIsChild
    <3> QED BY <1>t, <1>2, <2>c, <2>1, <3>1, NodeAssumption
  <2>3. ASSUME NEW z \in T PROVE t.nextSibling[z] \in T \cup {Null}
    <3>1. z \in Node /\ z \in S /\ t.parent[z] = q /\ z # n
      BY <2>1, NodeAssumption
    <3>2. t.nextSibling[z] # Null => t.parent[t.nextSibling[z]] = q
      BY <2>1, <3>1, NodeAssumption DEF Consistent, SiblingsHaveSameParent
    <3>3. CASE ~first /\ z = prev
      <4>1. n \in S
        BY <1>2, <2>c, <3>1, <3>3, NodeAssumption
      <4>2. next \in S \cup {Null}
        BY <1>2, <2>c, <4>1
      <4> QED BY <1>1, <3>2, <3>3, <4>2
    <3>4. CASE ~(~first /\ z = prev)
      BY <1>2, <2>c, <3>1, <3>2, <3>4
    <3> QED BY <3>3, <3>4
  <2>4. T \in SUBSET Node /\ Closed(t.nextSibling, t.firstChild[q], T)
    BY <2>2, <2>3 DEF Closed
  <2>5. ASSUME NEW k \in Node, t.parent[k] = q PROVE k \in S
    <3>1. k \in T
      <4> HIDE DEF T
      <4> QED BY <2>1, <2>4, <2>5, ChildInRow, NodeAssumption
    <3> QED BY <3>1
  <2>6. CASE m # n
    BY <1>2, <2>5, <2>6
  <2>7. CASE m = n /\ first
    BY <1>2, <2>c, <2>7, NodeAssumption
  <2>8. CASE m = n /\ ~first
    <3>1. prev \in S /\ prev # n
      BY <1>1, <1>2, <2>5, <2>8, NodeAssumption
    <3> QED BY <1>1, <1>2, <2>c, <2>8, <3>1, NodeAssumption
  <2> QED BY <2>6, <2>7, <2>8
<1> QED BY <1>2, <1>3, <1>4, <1>5, <1>6 DEF Consistent, u

(* The row that starts at a child n lies below n's parent, and all its     *)
(* nodes but n are behind another node of the row.                         *)
RowBelow(t, n, p, row) ==
  /\ row \in SUBSET Node /\ n \in row
  /\ \A m \in row : t.parent[m] = p /\ t.nextSibling[m] \in row \cup {Null}
  /\ \A m \in row \ {n} : m # t.firstChild[p]
  /\ \A m \in row \ {n} : \E k \in row : t.nextSibling[k] = m

LEMMA RowInsideParent ==
  ASSUME NEW t, Consistent(t), NEW n \in Node, t.parent[n] # Null
  PROVE  RowBelow(t, n, t.parent[n], Walk(t.nextSibling, n))
<1> DEFINE p   == t.parent[n]
           row == Walk(t.nextSibling, n)
           S   == {z \in Node : t.parent[z] = p}
<1>t. p \in Node /\ t.nextSibling \in Links
  BY DEF Consistent
<1>1. row \in SUBSET Node /\ Closed(t.nextSibling, n, row)
  BY <1>t, WalkClosed
<1>2. n \in row
  BY <1>1, NodeAssumption DEF Closed
<1>3. row \subseteq S
  <2>1. \A z \in S : t.nextSibling[z] \in S \cup {Null}
    BY <1>t, NodeAssumption DEF Consistent, SiblingsHaveSameParent
  <2>2. Closed(t.nextSibling, n, S)
    BY <2>1 DEF Closed
  <2> QED BY <2>2, WalkLeast
<1>4. ASSUME NEW m \in row \ {n} PROVE \E k \in row : t.nextSibling[k] = m
  <2> SUFFICES ASSUME \A k \in row : t.nextSibling[k] # m PROVE FALSE
    OBVIOUS
  <2>1. Closed(t.nextSibling, n, row \ {m})
    BY <1>1, <1>2 DEF Closed
  <2>2. row \subseteq row \ {m}
    <3>1. row \ {m} \in SUBSET Node
      BY <1>1
    <3> QED BY <2>1, <3>1, WalkLeast
  <2> QED BY <2>2
<1>5. ASSUME NEW m \in row \ {n} PROVE m # t.firstChild[p]
  <2>1. PICK k \in row : t.nextSibling[k] = m
    BY <1>4
  <2>2. k \in Node /\ t.parent[k] = p /\ m # Null
    BY <1>1, <1>3, NodeAssumption
  <2> QED BY <1>t, <2>1, <2>2, NodeAssumption DEF Consistent, NoSharedSibling
<1>6. \A m \in row : t.parent[m] = t.parent[n] /\ t.nextSibling[m] \in row \cup {Null}
  BY <1>1, <1>3 DEF Closed
<1> HIDE DEF row
<1>7. RowBelow(t, n, p, row)
  BY <1>1, <1>2, <1>4, <1>5, <1>6 DEF RowBelow
<1> QED BY <1>7 DEF row

(* RemoveNodeAndAllNextSiblingsFromParent keeps the links consistent and   *)
(* gives no node a new parent.                                             *)
LEMMA RemoveRowConsistent ==
  ASSUME NEW t, Consistent(t), NEW n \in NodeOrNull, n # Null => t.parent[n] # Null
  PROVE  LET u == RemoveNodeAndAllNextSiblingsFromParent(t, n)
         IN  /\ Consistent(u)
             /\ \A m \in Node : u.parent[m] \in {t.parent[m], Null}
<1> DEFINE u    == RemoveNodeAndAllNextSiblingsFromParent(t, n)
           p    == t.parent[n]
           prev == GetPreviousSibling(t, n)
           row  == Walk(t.nextSibling, n)
<1>t. /\ t \in Trees
      /\ t.parent \in Links /\ t.firstChild \in Links /\ t.nextSibling \in Links
  BY DEF Consistent
<1>1. CASE n = Null
  BY <1>1 DEF RemoveNodeAndAllNextSiblingsFromParent
<1>2. CASE n # Null
  <2>1. /\ n \in Node /\ p \in Node
        /\ t.firstChild[p] # n => prev \in Node /\ t.parent[prev] = p /\ t.nextSibling[prev] = n
        /\ t.firstChild[p] = n => prev = Null
    <3>1. n \in Node /\ p \in Node
      BY <1>t, <1>2
    <3>2. t.firstChild[p] = n => prev = Null
      BY DEF GetPreviousSibling
    <3>3. t.firstChild[p] # n => prev \in Node /\ t.parent[prev] = p /\ t.nextSibling[prev] = n
      BY <1>2, <3>1, PreviousSibling
    <3> QED BY <3>1, <3>2, <3>3
  <2>2. /\ row \in SUBSET Node /\ n \in row
        /\ \A m \in row : t.parent[m] = p /\ t.nextSibling[m] \in row \cup {Null}
        /\ \A m \in row \ {n} : m # t.firstChild[p]
        /\ \A m \in row \ {n} : \E k \in row : t.nextSibling[k] = m
    <3>1. RowBelow(t, n, p, row)
      BY <1>2, <2>1, RowInsideParent
    <3> HIDE DEF p, row
    <3> QED BY <3>1 DEF RowBelow
  <2>3. /\ \A m \in Node : u.parent[m] = IF m \in row THEN Null ELSE t.parent[m]
        /\ \A q \in Node : u.firstChild[q] = IF q = p /\ t.firstChild[q] = n
                                               THEN Null ELSE t.firstChild[q]
        /\ \A m \in Node : u.nextSibling[m] = IF m \in row \cup {prev} THEN Null ELSE t.nextSibling[m]
        /\ u \in Trees
    <3>1. u = [parent      |-> [m \in Node |-> IF m \in row THEN Null ELSE t.parent[m]],
               firstChild  |-> [m \in Node |-> IF m = p /\ t.firstChild[m] = n
                                               THEN Null ELSE t.firstChild[m]],
               nextSibling |-> [m \in Node |-> IF m \in row \cup {prev}
                                               THEN Null ELSE t.nextSibling[m]]]
      BY <1>2 DEF RemoveNodeAndAllNextSiblingsFromParent
    <3> HIDE DEF u, prev, row
    <3> QED BY <3>1, <1>t
  <2> HIDE DEF u, prev, row
  <2>4. FirstChildIsChild(u)
    BY <1>t, <2>1, <2>2, <2>3, NodeAssumption DEF Consistent, FirstChildIsChild
  (* Only prev leads into the row.                                         *)
  <2>5. ASSUME NEW m \in Node \ row, t.parent[m] # Null, t.nextSibling[m] \in row
        PROVE  m = prev
    <3>1. t.nextSibling[m] \in Node /\ t.parent[m] = p
      BY <2>2, <2>5, NodeAssumption DEF Consistent, SiblingsHaveSameParent
    <3>2. CASE t.nextSibling[m] = n
      BY <1>t, <2>1, <2>5, <3>1, <3>2, NodeAssumption DEF Consistent, NoSharedSibling
    <3>3. CASE t.nextSibling[m] # n
      <4>1. PICK k \in row : t.nextSibling[k] = t.nextSibling[m]
        BY <2>2, <2>5, <3>3
      <4> QED BY <2>2, <2>5, <3>1, <4>1, NodeAssumption DEF Consistent, NoSharedSibling
    <3> QED BY <3>2, <3>3
  <2>6. SiblingsHaveSameParent(u)
    BY <1>t, <2>2, <2>3, <2>5, NodeAssumption DEF Consistent, SiblingsHaveSameParent
  <2>7. NoSharedSibling(u)
    BY <1>t, <2>2, <2>3, <2>5, NodeAssumption DEF Consistent, NoSharedSibling
  <2>8. ChildrenAreListed(u)
    <3> SUFFICES ASSUME NEW m \in Node, u.parent[m] # Null, NEW S \in SUBSET Node,
                        Closed(u.nextSibling, u.firstChild[u.parent[m]], S)
                 PROVE  m \in S
      BY WalkGreatest DEF ChildrenAreListed, ChildrenOf
    <3> DEFINE q == t.parent[m]
               T == {z \in S \cup row : t.parent[z] = q}
    <3>1. m \notin row /\ u.parent[m] = q /\ q \in Node
      BY <1>t, <2>3
    <3>c. /\ u.firstChild[q] \in S \cup {Null}
          /\ \A z \in S : u.nextSibling[z] \in S \cup {Null}
      BY <3>1 DEF Closed
    <3>2. t.firstChild[q] \in T \cup {Null}
      <4>1. t.firstChild[q] # Null => t.parent[t.firstChild[q]] = q
        BY <3>1 DEF Consistent, FirstChildIsChild
      <4> QED BY <1>t, <2>2, <2>3, <3>1, <3>c, <4>1
    <3>3. ASSUME NEW z \in T PROVE t.nextSibling[z] \in T \cup {Null}
      <4>1. z \in Node /\ t.parent[z] = q
        BY <2>2
      <4>2. t.nextSibling[z] # Null => t.parent[t.nextSibling[z]] = q
        BY <4>1, <3>1, NodeAssumption DEF Consistent, SiblingsHaveSameParent
      <4>3. CASE z \in row
        BY <2>2, <4>2, <4>3
      <4>4. CASE z = prev
        BY <2>1, <2>2, <4>1, <4>2, <4>4, NodeAssumption
      <4>5. CASE z \notin row /\ z # prev
        BY <2>3, <3>c, <4>1, <4>2, <4>5
      <4> QED BY <4>3, <4>4, <4>5
    <3>4. m \in T
      <4>1. T \in SUBSET Node /\ Closed(t.nextSibling, t.firstChild[q], T)
        BY <2>2, <3>2, <3>3 DEF Closed
      <4> HIDE DEF T
      <4> QED BY <3>1, <4>1, ChildInRow, NodeAssumption
    <3> QED BY <3>1, <3>4
  <2> QED BY <2>3, <2>4, <2>6, <2>7, <2>8 DEF Consistent, u
<1> QED BY <1>1, <1>2

(* The end of a call.                                                      *)
LEMMA PruneConsistent ==
  ASSUME NEW t, Consistent(t), NEW X \in SUBSET Node,
         \A n \in X : {t.firstChild[n], t.nextSibling[n]} \subseteq X \cup {Null}
  PROVE  LET u == Prune(t, X)
         IN  /\ Consistent(u)
             /\ \A m \in Node : u.parent[m] \in {t.parent[m], Null}
<1> DEFINE u == Prune(t, X)
<1>t. t.parent \in Links /\ t.firstChild \in Links /\ t.nextSibling \in Links
  BY DEF Consistent
<1>1. /\ \A n \in Node : u.parent[n] = IF n \in X /\ t.parent[n] \in X THEN t.parent[n] ELSE Null
      /\ \A n \in Node : u.firstChild[n] = IF n \in X THEN t.firstChild[n] ELSE Null
      /\ \A n \in Node : u.nextSibling[n] = IF n \in X THEN t.nextSibling[n] ELSE Null
      /\ u \in Trees
  BY <1>t DEF Prune
<1> HIDE DEF u
<1>2. FirstChildIsChild(u)
  BY <1>t, <1>1, NodeAssumption DEF Consistent, FirstChildIsChild
<1>3. SiblingsHaveSameParent(u)
  BY <1>t, <1>1, NodeAssumption DEF Consistent, SiblingsHaveSameParent
<1>4. NoSharedSibling(u)
  BY <1>t, <1>1, NodeAssumption DEF Consistent, NoSharedSibling
<1>5. ChildrenAreListed(u)
  <2> SUFFICES ASSUME NEW m \in Node, u.parent[m] # Null, NEW S \in SUBSET Node,
                      Closed(u.nextSibling, u.firstChild[u.parent[m]], S)
               PROVE  m \in S
    BY WalkGreatest DEF ChildrenAreListed, ChildrenOf
  <2> DEFINE q == t.parent[m]
             T == S \cap X
  <2>1. m \in X /\ q \in X /\ u.parent[m] = q
    BY <1>1
  <2>2. Closed(t.nextSibling, t.firstChild[q], T)
    BY <1>1, <2>1 DEF Closed
  <2>3. m \in T
    <3>1. T \in SUBSET Node
      OBVIOUS
    <3> HIDE DEF T
    <3> QED BY <2>1, <2>2, <3>1, ChildInRow, NodeAssumption
  <2> QED BY <2>3
<1> QED BY <1>1, <1>2, <1>3, <1>4, <1>5 DEF Consistent, u

-----------------------------------------------------------------------------
(* No cycles of parents.  In this form it needs no walk.                   *)
NoCycle(t) ==
  \A S \in SUBSET Node : (\A n \in S : t.parent[n] \in S) => S = {}

(* Taking parents away closes no cycle ...                                 *)
LEMMA FewerParentsNoCycle ==
  ASSUME NEW t, NEW u, NoCycle(t), \A m \in Node : u.parent[m] \in {t.parent[m], Null}
  PROVE  NoCycle(u)
BY NodeAssumption DEF NoCycle

(* ... and shortens every walk up.                                         *)
LEMMA FewerParentsWalk ==
  ASSUME NEW l \in Links, NEW k \in Links, NEW s \in NodeOrNull,
         \A m \in Node : k[m] \in {l[m], Null}
  PROVE  Walk(k, s) \subseteq Walk(l, s)
<1> DEFINE W == Walk(l, s)
<1>1. W \in SUBSET Node /\ Closed(l, s, W)
  BY WalkClosed
<1> HIDE DEF W
<1>2. Closed(k, s, W)
  BY <1>1 DEF Closed
<1>3. Walk(k, s) \subseteq W
  BY <1>1, <1>2, WalkLeast
<1> QED BY <1>3 DEF W

(* A walk from a node visits that node and what a walk from its successor  *)
(* visits.                                                                 *)
LEMMA WalkStep ==
  ASSUME NEW l \in Links, NEW s \in Node
  PROVE  Walk(l, s) \subseteq {s} \cup Walk(l, l[s])
<1> DEFINE W == Walk(l, l[s])
<1>1. W \in SUBSET Node /\ Closed(l, l[s], W)
  BY WalkClosed
<1> HIDE DEF W
<1>2. Closed(l, s, {s} \cup W)
  BY <1>1 DEF Closed
<1>3. {s} \cup W \in SUBSET Node
  BY <1>1
<1>4. Walk(l, s) \subseteq {s} \cup W
  BY <1>2, <1>3, WalkLeast
<1> QED BY <1>4 DEF W

(* Giving n the parent p closes no cycle if n is neither p nor an ancestor *)
(* of p, which is what the builder checks beforehand.                      *)
LEMMA InsertNoCycle ==
  ASSUME NEW t, t \in Trees, NoCycle(t), NEW u, NEW n \in Node, NEW p \in Node,
         u.parent = Assign(t.parent, n, p), n \notin Walk(t.parent, p)
  PROVE  NoCycle(u)
<1> DEFINE W == Walk(t.parent, p)
<1>1. W \in SUBSET Node /\ Closed(t.parent, p, W)
  BY WalkClosed
<1> SUFFICES ASSUME NEW S \in SUBSET Node, \A m \in S : u.parent[m] \in S
             PROVE  S = {}
  BY DEF NoCycle
<1>2. \A m \in Node : u.parent[m] = IF m = n THEN p ELSE t.parent[m]
  BY DEF Assign
<1>3. n \notin S
  <2> SUFFICES ASSUME n \in S PROVE FALSE
    OBVIOUS
  <2>1. p \in S \cap W
    BY <1>1, <1>2, NodeAssumption DEF Closed
  <2> HIDE DEF W
  <2>2. n \notin W
    BY DEF W
  <2>3. \A m \in S \cap W : t.parent[m] \in S \cap W
    BY <1>1, <1>2, <2>2, NodeAssumption DEF Closed
  <2>4. S \cap W \in SUBSET Node
    OBVIOUS
  <2> QED BY <2>1, <2>3, <2>4 DEF NoCycle
<1> QED BY <1>2, <1>3 DEF NoCycle

(* A node that is its own ancestor lies on a cycle.                        *)
LEMMA NoCycleAcyclic ==
  ASSUME NEW t, t \in Trees, NoCycle(t), NEW n \in Node
  PROVE  n \notin Ancestors(t, n)
<1> SUFFICES ASSUME n \in Ancestors(t, n) PROVE FALSE
  OBVIOUS
<1> DEFINE A == Ancestors(t, n)
           T == {z \in A : n \in Walk(t.parent, z)}
<1>t. t.parent \in Links
  OBVIOUS
<1>1. A \in SUBSET Node /\ Closed(t.parent, t.parent[n], A)
  BY <1>t, WalkClosed DEF Ancestors
<1>2. t.parent[n] \in T
  <2>1. t.parent[n] # Null
    BY WalkNull DEF Ancestors
  <2>2. t.parent[n] \in A
    BY <1>1, <2>1 DEF Closed
  <2> QED BY <2>2 DEF Ancestors
<1>3. ASSUME NEW z \in T PROVE t.parent[z] \in T
  <2>1. CASE z = n
    BY <1>2, <2>1
  <2>2. CASE z # n
    <3>1. z \in Node
      BY <1>1
    <3>2. n \in Walk(t.parent, t.parent[z])
      BY <1>t, <2>2, <3>1, WalkStep
    <3>3. t.parent[z] # Null
      BY <3>2, WalkNull
    <3>4. t.parent[z] \in A
      BY <1>1, <3>3 DEF Closed
    <3> QED BY <3>2, <3>4
  <2> QED BY <2>1, <2>2
<1>4. T \in SUBSET Node
  BY <1>1
<1> HIDE DEF T
<1> QED BY <1>2, <1>3, <1>4 DEF NoCycle

-----------------------------------------------------------------------------
(* The inductive invariant.  LinksConsistent and Acyclic depend on each    *)
(* other: a node is linked in below p only if it is not an ancestor of p,  *)
(* and IsAncestorOf decides that by the parent links.                      *)
Sound(t) == Consistent(t) /\ NoCycle(t)

TreeInv == TypeOK /\ Sound(tree)

(* The three steps of the builder keep the trees sound: removing a node,   *)
(* ...                                                                     *)
LEMMA RemoveSound ==
  ASSUME NEW t, Sound(t), NEW n \in Node
  PROVE  LET u == RemoveNodeFromCurrentLocation(t, n)
         IN  Sound(u) /\ u.parent = Assign(t.parent, n, Null)
<1> DEFINE u == RemoveNodeFromCurrentLocation(t, n)
<1>1. Consistent(u) /\ u.parent = Assign(t.parent, n, Null)
  BY RemoveConsistent DEF Sound
<1>2. \A m \in Node : u.parent[m] \in {t.parent[m], Null}
  BY <1>1 DEF Assign
<1> HIDE DEF u
<1>3. NoCycle(u)
  BY <1>2, FewerParentsNoCycle DEF Sound
<1> QED BY <1>1, <1>3 DEF Sound, u

(* ... removing a row of siblings, ...                                     *)
LEMMA RemoveRowSound ==
  ASSUME NEW t, Sound(t), NEW n \in NodeOrNull, n # Null => t.parent[n] # Null
  PROVE  LET u == RemoveNodeAndAllNextSiblingsFromParent(t, n)
         IN  Sound(u) /\ \A m \in Node : u.parent[m] \in {t.parent[m], Null}
<1> DEFINE u == RemoveNodeAndAllNextSiblingsFromParent(t, n)
<1>1. Consistent(u) /\ \A m \in Node : u.parent[m] \in {t.parent[m], Null}
  BY RemoveRowConsistent DEF Sound
<1> HIDE DEF u
<1>2. NoCycle(u)
  BY <1>1, FewerParentsNoCycle DEF Sound
<1> QED BY <1>1, <1>2 DEF Sound, u

(* ... and inserting a node that has no parent where it is not an          *)
(* ancestor.                                                               *)
LEMMA InsertSound ==
  ASSUME NEW t, Sound(t), NEW n \in Node, t.parent[n] = Null,
         NEW p \in Node, p # n, NEW next \in NodeOrNull,
         next # Null => t.parent[next] = p, n \notin Walk(t.parent, p),
         ~InsertDereferencesNull(t, p, next)
  PROVE  Sound(InsertNodeAtNewLocation(t, n, p, next))
<1> DEFINE u == InsertNodeAtNewLocation(t, n, p, next)
<1>1. Consistent(u) /\ u.parent = Assign(t.parent, n, p)
  BY InsertConsistent DEF Sound
<1> HIDE DEF u
<1>2. NoCycle(u)
  BY <1>1, InsertNoCycle DEF Sound, Consistent
<1> QED BY <1>1, <1>2 DEF Sound, u

(* Destroying the nodes nothing refers to keeps the trees sound: a         *)
(* survivor keeps its children and its next siblings.                      *)
LEMMA SettleSound ==
  ASSUME NEW A \in SUBSET Node, NEW t, Linked(t, A), Sound(t), NEW h, NEW r, Settle(t, A, h, r)
  PROVE  Sound(tree')
<1> DEFINE X == Survivors(t, A, h \cup {r})
<1>1. /\ X \in SUBSET Node
      /\ \A n \in X : {t.firstChild[n], t.nextSibling[n]} \subseteq X \cup {Null}
  BY SurvivorsClosed
<1>2. tree' = Prune(t, X)
  BY DEF Settle
<1> HIDE DEF X
<1> DEFINE u == Prune(t, X)
<1>3. Consistent(u) /\ \A m \in Node : u.parent[m] \in {t.parent[m], Null}
  BY <1>1, PruneConsistent DEF Sound
<1> HIDE DEF u
<1>4. NoCycle(u)
  BY <1>3, FewerParentsNoCycle DEF Sound
<1> QED BY <1>2, <1>3, <1>4 DEF Sound, u

(* A call either crashes, and changes no link, or relinks without using a  *)
(* null pointer.                                                           *)
LEMMA FinishSound ==
  ASSUME NEW t, TreeInv, Linked(t, alive), NEW cut, NEW null \in BOOLEAN,
         Finish(t, cut, null), ~null => Sound(t)
  PROVE  Sound(tree')
<1>1. CASE Settle(t, alive, held, rootNode) /\ ~null
  BY <1>1, SettleSound DEF TreeInv, TypeOK
<1>2. CASE Crash("use after free") \/ Crash("null dereference")
  BY <1>2 DEF Crash, TreeInv
<1> QED BY <1>1, <1>2 DEF Finish

(* Without its own subtree, a node is above nothing else.                  *)
LEMMA NotAboveAfterRemoval ==
  ASSUME NEW l \in Links, NEW k \in Links, NEW c \in Node, NEW n \in Node, c # n,
         c \notin Walk(l, l[n]), \A m \in Node : k[m] \in {l[m], Null}
  PROVE  c \notin Walk(k, n)
<1>1. Walk(k, n) \subseteq Walk(l, n)
  BY FewerParentsWalk
<1>2. Walk(l, n) \subseteq {n} \cup Walk(l, l[n])
  BY WalkStep
<1> QED BY <1>1, <1>2

(* AppendChild, InsertChild and SetParent keep the trees sound.            *)
LEMMA MoveSound ==
  ASSUME TreeInv, NEW c \in held, NEW n \in held, c # n, NEW next \in held \cup {Null},
         next # Null => tree.parent[next] = n, ~IsAncestorOf(tree, c, n), MoveNode(c, n, next)
  PROVE  Sound(tree')
<1> DEFINE t == RemoveNodeFromCurrentLocation(tree, c)
           u == InsertNodeAtNewLocation(t, c, n, next)
           null == RemoveDereferencesNull(tree, c) \/ InsertDereferencesNull(t, n, next)
<1>1. alive \in SUBSET Node /\ held \in SUBSET alive /\ Linked(tree, alive) /\ Sound(tree)
  BY TypeOKLinked DEF TreeInv
<1>2. Linked(t, alive) /\ Sound(t) /\ t.parent = Assign(tree.parent, c, Null)
  BY <1>1, RemoveLinked, RemoveSound
<1>3. Finish(u, FALSE, null)
  BY DEF MoveNode
<1>4. null \in BOOLEAN
  BY DEF RemoveDereferencesNull, InsertDereferencesNull
<1> HIDE DEF t
<1>5. /\ \A m \in Node : t.parent[m] = IF m = c THEN Null ELSE tree.parent[m]
      /\ tree.parent \in Links /\ t.parent \in Links
  BY <1>1, <1>2 DEF Assign, Linked
<1>6. Linked(u, alive)
  BY <1>1, <1>2, InsertLinked
<1>7. ASSUME ~InsertDereferencesNull(t, n, next) PROVE Sound(u)
  <2>1. c \notin Walk(t.parent, n)
    BY <1>1, <1>5, NotAboveAfterRemoval DEF IsAncestorOf, Ancestors
  <2>2. next # c
    <3> SUFFICES ASSUME next = c PROVE FALSE
      OBVIOUS
    <3>1. c \in Node /\ n \in Node /\ t.parent[c] = Null
      BY <1>1, <1>5
    <3>2. t.firstChild[n] # c
      BY <1>2, <3>1, NodeAssumption DEF Sound, Consistent, FirstChildIsChild
    <3>3. GetPreviousSibling(t, c) = Null
      BY <3>1 DEF GetPreviousSibling, IsRoot
    <3> QED BY <1>7, <3>1, <3>2, <3>3, NodeAssumption DEF InsertDereferencesNull
  <2>3. next # Null => t.parent[next] = n
    BY <1>1, <1>5, <2>2
  <2> QED BY <1>1, <1>2, <1>5, <1>7, <2>1, <2>3, InsertSound
<1> HIDE DEF u
<1> QED BY <1>3, <1>4, <1>6, <1>7, FinishSound

(* So does every step of the client and of the builder.                    *)
LEMMA SoundStep == TreeInv /\ [Next]_vars => Sound(tree')
<1> SUFFICES ASSUME TreeInv, [Next]_vars PROVE Sound(tree')
  OBVIOUS
<1>0. /\ alive \in SUBSET Node /\ held \in SUBSET alive /\ rootNode \in alive \cup {Null}
      /\ Linked(tree, alive) /\ Sound(tree) /\ tree \in Trees
      /\ tree.parent \in Links /\ tree.firstChild \in Links /\ tree.nextSibling \in Links
  BY TypeOKLinked DEF TreeInv, Linked
<1>1. ASSUME NEW n \in Node, ClientStep(n) PROVE Sound(tree')
  <2>1. CASE CreateNode(n)
    <3>1. alive \cup {n} \in SUBSET Node /\ Linked(tree, alive \cup {n})
      BY <1>0 DEF Linked
    <3> QED BY <1>0, <2>1, <3>1, SettleSound DEF CreateNode
  <2>2. CASE GetNode(n) \/ DropHandle(n)
    BY <1>0, <2>2, SettleSound DEF GetNode, DropHandle
  <2> QED BY <1>1, <2>1, <2>2 DEF ClientStep
<1>2. ASSUME NEW n \in NodeOrNull, SetRootNode(n) PROVE Sound(tree')
  BY <1>0, <1>2, SettleSound DEF SetRootNode
<1>3. ASSUME NEW n \in Node, NEW c \in NodeOrNull, SetFirstChild(n, c) PROVE Sound(tree')
  <2> DEFINE old == tree.firstChild[n]
             t1  == RemoveNodeAndAllNextSiblingsFromParent(tree, old)
             t2  == RemoveNodeFromCurrentLocation(t1, c)
             next == t2.firstChild[n]
             t3  == InsertNodeAtNewLocation(t2, c, n, next)
             null == RemoveDereferencesNull(t1, c) \/ InsertDereferencesNull(t2, n, next)
  <2>1. n \in alive /\ c \in alive \cup {Null} /\ c # n /\ (c # Null => ~IsAncestorOf(tree, c, n))
    BY <1>0, <1>3 DEF SetFirstChild
  <2>2. old \in NodeOrNull /\ (old # Null => tree.parent[old] # Null)
    BY <1>0, NodeAssumption DEF Sound, Consistent, FirstChildIsChild
  <2>3. Linked(t1, alive) /\ Sound(t1) /\ \A m \in Node : t1.parent[m] \in {tree.parent[m], Null}
    BY <1>0, <2>2, RemoveRowLinked, RemoveRowSound
  <2>4. CASE c = Null
    <3>1. Finish(t1, RemovesUnreferencedSibling(tree, old), FALSE)
      BY <1>3, <2>4 DEF SetFirstChild
    <3> HIDE DEF t1
    <3> QED BY <2>3, <3>1, FinishSound
  <2>5. CASE c # Null
    <3>1. c \in Node
      BY <1>0, <2>1, <2>5
    <3>2. Linked(t2, alive) /\ Sound(t2) /\ t2.parent = Assign(t1.parent, c, Null)
      BY <1>0, <2>3, <3>1, RemoveLinked, RemoveSound
    <3>3. Finish(t3, RemovesUnreferencedSibling(tree, old), null)
      BY <1>3, <2>5 DEF SetFirstChild
    <3>4. null \in BOOLEAN
      BY DEF RemoveDereferencesNull, InsertDereferencesNull
    <3> HIDE DEF t1, t2
    <3>5. /\ t2.parent \in Links /\ t2.parent[c] = Null
          /\ \A m \in Node : t2.parent[m] \in {tree.parent[m], Null}
      BY <1>0, <2>3, <3>1, <3>2 DEF Assign, Linked
    <3>6. next \in alive \cup {Null} /\ (next # Null => t2.parent[next] = n)
      BY <1>0, <3>2 DEF Linked, Sound, Consistent, FirstChildIsChild
    <3>7. Linked(t3, alive)
      BY <1>0, <2>1, <3>2, <3>6, <2>5, InsertLinked
    <3>8. ASSUME ~InsertDereferencesNull(t2, n, next) PROVE Sound(t3)
      <4>1. c \notin Walk(t2.parent, n)
        BY <1>0, <2>1, <2>5, <3>1, <3>5, NotAboveAfterRemoval DEF IsAncestorOf, Ancestors
      <4> HIDE DEF next
      <4> QED BY <1>0, <2>1, <3>1, <3>2, <3>5, <3>6, <3>8, <4>1, InsertSound
    <3> HIDE DEF t3, next
    <3> QED BY <3>3, <3>4, <3>7, <3>8, FinishSound
  <2> QED BY <2>4, <2>5
<1>4. ASSUME NEW n \in Node, NEW c \in NodeOrNull, AppendChild(n, c) PROVE Sound(tree')
  BY <1>4, MoveSound DEF AppendChild
<1>5. ASSUME NEW n \in Node, NEW c \in NodeOrNull, NEW ref \in NodeOrNull, InsertChild(n, c, ref)
      PROVE  Sound(tree')
  BY <1>5, MoveSound DEF InsertChild
<1>6. ASSUME NEW n \in Node, NEW c \in NodeOrNull, RemoveChild(n, c) PROVE Sound(tree')
  <2> DEFINE u == RemoveNodeFromCurrentLocation(tree, c)
  <2>1. c \in Node /\ Finish(u, FALSE, RemoveDereferencesNull(tree, c))
    BY <1>0, <1>6 DEF RemoveChild
  <2>2. Linked(u, alive) /\ Sound(u)
    BY <1>0, <2>1, RemoveLinked, RemoveSound
  <2>3. RemoveDereferencesNull(tree, c) \in BOOLEAN
    BY DEF RemoveDereferencesNull
  <2> HIDE DEF u
  <2> QED BY <2>1, <2>2, <2>3, FinishSound
<1>7. ASSUME NEW n \in Node, NEW new \in NodeOrNull, NEW old \in NodeOrNull, ReplaceChild(n, new, old)
      PROVE  Sound(tree')
  <2> DEFINE t1 == RemoveNodeFromCurrentLocation(tree, new)
             t2 == InsertNodeAtNewLocation(t1, new, n, old)
             t3 == RemoveNodeFromCurrentLocation(t2, old)
             null == \/ RemoveDereferencesNull(tree, new)
                     \/ InsertDereferencesNull(t1, n, old)
                     \/ RemoveDereferencesNull(t2, old)
  <2>1. /\ n \in alive /\ new \in alive /\ old \in alive /\ new # n /\ new # old
        /\ tree.parent[old] = n /\ ~IsAncestorOf(tree, new, n)
    BY <1>0, <1>7 DEF ReplaceChild
  <2>2. Linked(t1, alive) /\ Sound(t1) /\ t1.parent = Assign(tree.parent, new, Null)
    BY <1>0, <2>1, RemoveLinked, RemoveSound
  <2>3. Finish(t3, FALSE, null)
    BY <1>7 DEF ReplaceChild
  <2>4. null \in BOOLEAN
    BY DEF RemoveDereferencesNull, InsertDereferencesNull
  <2> HIDE DEF t1
  <2>5. /\ \A m \in Node : t1.parent[m] = IF m = new THEN Null ELSE tree.parent[m]
        /\ t1.parent \in Links
    BY <1>0, <2>2 DEF Assign, Linked
  <2>6. Linked(t2, alive)
    BY <1>0, <2>1, <2>2, InsertLinked
  <2>7. ASSUME ~InsertDereferencesNull(t1, n, old) PROVE Sound(t2)
    <3>1. new \notin Walk(t1.parent, n)
      BY <1>0, <2>1, <2>5, NotAboveAfterRemoval DEF IsAncestorOf, Ancestors
    <3> QED BY <1>0, <2>1, <2>2, <2>5, <2>7, <3>1, InsertSound
  <2> HIDE DEF t2
  <2>8. Linked(t3, alive) /\ (~null => Sound(t3))
    BY <1>0, <2>1, <2>6, <2>7, RemoveLinked, RemoveSound
  <2> HIDE DEF t3
  <2> QED BY <2>3, <2>4, <2>8, FinishSound
<1>8. ASSUME NEW n \in Node, NEW s \in NodeOrNull, SetNextSibling(n, s) PROVE Sound(tree')
  <2> DEFINE old == tree.nextSibling[n]
             t1  == RemoveNodeAndAllNextSiblingsFromParent(tree, old)
             t2  == RemoveNodeFromCurrentLocation(t1, s)
             p   == t2.parent[n]
             next == t2.nextSibling[n]
             t3  == InsertNodeAtNewLocation(t2, s, p, next)
             null == \/ RemoveDereferencesNull(t1, s)
                     \/ p = Null
                     \/ InsertDereferencesNull(t2, p, next)
  <2>1. /\ n \in alive /\ s \in alive \cup {Null} /\ s # n /\ tree.parent[n] # Null
        /\ s # Null => ~IsAncestorOf(tree, s, n)
    BY <1>0, <1>8 DEF SetNextSibling, IsRoot
  <2>2. old \in NodeOrNull /\ (old # Null => tree.parent[old] # Null)
    BY <1>0, <2>1 DEF Sound, Consistent, SiblingsHaveSameParent
  <2>3. Linked(t1, alive) /\ Sound(t1) /\ \A m \in Node : t1.parent[m] \in {tree.parent[m], Null}
    BY <1>0, <2>2, RemoveRowLinked, RemoveRowSound
  <2>4. CASE s = Null
    <3>1. Finish(t1, RemovesUnreferencedSibling(tree, old), FALSE)
      BY <1>8, <2>4 DEF SetNextSibling
    <3> HIDE DEF t1
    <3> QED BY <2>3, <3>1, FinishSound
  <2>5. CASE s # Null
    <3>1. s \in Node /\ s \notin Walk(tree.parent, tree.parent[n])
      BY <1>0, <2>1, <2>5 DEF IsAncestorOf, Ancestors
    <3>2. Linked(t2, alive) /\ Sound(t2) /\ t2.parent = Assign(t1.parent, s, Null)
      BY <1>0, <2>3, <3>1, RemoveLinked, RemoveSound
    <3>3. Finish(t3, RemovesUnreferencedSibling(tree, old), null)
      BY <1>8, <2>5 DEF SetNextSibling
    <3>4. null \in BOOLEAN
      BY DEF RemoveDereferencesNull, InsertDereferencesNull
    <3> HIDE DEF t1, t2
    <3>5. /\ t2.parent \in Links /\ t2.parent[s] = Null
          /\ \A m \in Node : t2.parent[m] \in {tree.parent[m], Null}
      BY <1>0, <2>3, <3>1, <3>2 DEF Assign, Linked
    <3>6. CASE p = Null
      <4>1. Crash("use after free") \/ Crash("null dereference")
        BY <3>3, <3>6 DEF Finish
      <4> QED BY <1>0, <4>1 DEF Crash
    <3>7. CASE p # Null
      <4>1. p = tree.parent[n] /\ p \in alive
        BY <1>0, <2>1, <3>2, <3>5, <3>7 DEF Linked
      <4>2. p # s
        <5>1. Closed(tree.parent, p, Walk(tree.parent, p)) /\ p \in Node
          BY <1>0, <4>1, WalkClosed
        <5> QED BY <3>1, <3>7, <4>1, <5>1 DEF Closed
      <4>3. s \notin Walk(t2.parent, p)
        BY <1>0, <3>1, <3>5, <4>1, FewerParentsWalk
      <4>4. next \in alive \cup {Null} /\ (next # Null => t2.parent[next] = p)
        BY <1>0, <2>1, <3>2, <3>7 DEF Linked, Sound, Consistent, SiblingsHaveSameParent
      <4> HIDE DEF next, p
      <4>5. Linked(t3, alive)
        BY <1>0, <2>1, <2>5, <3>2, <4>1, <4>4, InsertLinked
      <4>6. ASSUME ~InsertDereferencesNull(t2, p, next) PROVE Sound(t3)
        BY <1>0, <3>1, <3>2, <3>5, <4>1, <4>2, <4>3, <4>4, <4>6, InsertSound
      <4> HIDE DEF t3
      <4> QED BY <3>3, <3>4, <4>5, <4>6, FinishSound
    <3> QED BY <3>6, <3>7
  <2> QED BY <2>4, <2>5
<1>9. ASSUME NEW n \in Node, NEW p \in NodeOrNull, SetParent(n, p) PROVE Sound(tree')
  <2>1. CASE p = Null
    <3> DEFINE u == RemoveNodeFromCurrentLocation(tree, n)
    <3>1. Finish(u, FALSE, RemoveDereferencesNull(tree, n))
      BY <1>9, <2>1 DEF SetParent
    <3>2. Linked(u, alive) /\ Sound(u)
      BY <1>0, RemoveLinked, RemoveSound
    <3>3. RemoveDereferencesNull(tree, n) \in BOOLEAN
      BY DEF RemoveDereferencesNull
    <3> HIDE DEF u
    <3> QED BY <3>1, <3>2, <3>3, FinishSound
  <2>2. CASE p # Null
    BY <1>9, <2>2, MoveSound DEF SetParent
  <2> QED BY <2>1, <2>2
<1>10. CASE UNCHANGED vars
  BY <1>0, <1>10 DEF vars
<1> QED BY <1>1, <1>2, <1>3, <1>4, <1>5, <1>6, <1>7, <1>8, <1>9, <1>10 DEF Next, BuilderStep

LEMMA InitTreeInv == Init => TreeInv
<1> SUFFICES ASSUME Init PROVE TreeInv
  OBVIOUS
<1>1. TypeOK
  BY NodeAssumption DEF Init, TypeOK, NoLinks
<1>2. Consistent(tree)
  BY NodeAssumption DEF Init, NoLinks, Consistent, FirstChildIsChild, SiblingsHaveSameParent,
                        NoSharedSibling, ChildrenAreListed
<1>3. NoCycle(tree)
  BY NodeAssumption DEF Init, NoLinks, NoCycle
<1> QED BY <1>1, <1>2, <1>3 DEF TreeInv, Sound

(* The inductive invariant holds in every reachable state.                 *)
LEMMA TreeInvariant == Spec => []TreeInv
<1>1. TreeInv /\ [Next]_vars => TreeInv'
  BY TypeStep, SoundStep DEF TreeInv, Sound, Consistent, FirstChildIsChild, SiblingsHaveSameParent,
     NoSharedSibling, ChildrenAreListed, NoCycle
<1> QED BY <1>1, InitTreeInv, PTL DEF Spec

(* Whatever calls a client makes: the children a node lists are exactly    *)
(* the nodes that name it as their parent, each of them once.              *)
THEOREM LinksAlwaysConsistent == Spec => []LinksConsistent
<1>1. TreeInv => LinksConsistent
  <2> SUFFICES ASSUME TreeInv PROVE LinksConsistent
    OBVIOUS
  <2>1. Consistent(tree) /\ tree.parent \in Links
    BY DEF TreeInv, Sound, Consistent
  <2>2. ASSUME NEW n \in Node, NEW m \in Node, tree.parent[m] = n PROVE m \in ChildrenOf(tree, n)
    BY <2>1, <2>2, NodeAssumption DEF Consistent, ChildrenAreListed
  <2>3. ASSUME NEW n \in Node, NEW m \in Node, m \in ChildrenOf(tree, n) PROVE tree.parent[m] = n
    BY <2>1, <2>3, ChildHasParent
  <2>4. SiblingsFormList
    BY <2>1 DEF Consistent, NoSharedSibling, SiblingsFormList
  <2> QED BY <2>2, <2>3, <2>4 DEF LinksConsistent, ParentAndChildrenAgree
<1> QED BY <1>1, TreeInvariant, PTL

(* No call makes a node its own ancestor.                                  *)
THEOREM AlwaysAcyclic == Spec => []Acyclic
<1>1. TreeInv => Acyclic
  BY NoCycleAcyclic DEF TreeInv, Sound, Consistent, Acyclic
<1> QED BY <1>1, TreeInvariant, PTL

-----------------------------------------------------------------------------
(* Null pointers.                                                          *)

(* A row of siblings that is not empty has a last one: the links to the    *)
(* next sibling never merge nor lead back to the first child, so that they *)
(* cannot map a finite row into itself.                                    *)
LEMMA LastChild ==
  ASSUME NEW t, Consistent(t), NEW p \in Node, t.firstChild[p] # Null
  PROVE  GetLastChild(t, p) # Null
<1> DEFINE W == ChildrenOf(t, p)
           f == [c \in W |-> t.nextSibling[c]]
<1>1. /\ t.firstChild \in Links /\ t.nextSibling \in Links
      /\ W \in SUBSET Node /\ Closed(t.nextSibling, t.firstChild[p], W)
  <2>1. t.firstChild \in Links /\ t.nextSibling \in Links
    BY DEF Consistent
  <2> QED BY <2>1, WalkClosed DEF ChildrenOf
<1>2. t.firstChild[p] \in W
  BY <1>1 DEF Closed
<1>3. ASSUME NEW c \in W PROVE c \in Node /\ t.parent[c] = p
  BY <1>3, ChildHasParent
<1>4. \E c \in W : t.nextSibling[c] = Null
  <2> SUFFICES ASSUME \A c \in W : t.nextSibling[c] # Null PROVE FALSE
    OBVIOUS
  <2> HIDE DEF W
  <2>1. f \in [W -> W]
    BY <1>1 DEF Closed
  <2>2. IsInjective(f)
    BY <1>3, NodeAssumption DEF IsInjective, Consistent, NoSharedSibling
  <2>3. f \in Injection(W, W)
    BY <2>1, <2>2 DEF Injection
  <2>4. IsFiniteSet(W)
    BY <1>1, NodeAssumption, FS_Subset
  <2>5. f \in Surjection(W, W)
    BY <2>3, <2>4, FS_Injection
  <2>6. PICK c \in W : t.nextSibling[c] = t.firstChild[p]
    BY <1>2, <2>5 DEF Surjection
  <2> QED BY <1>3, <2>6, NodeAssumption DEF Consistent, NoSharedSibling
<1>5. GetLastChild(t, p) \in W
  BY <1>4, OneOfMember DEF GetLastChild
<1> QED BY <1>1, <1>5, NodeAssumption

(* Taking out a node uses no null pointer ...                              *)
LEMMA RemoveSafe ==
  ASSUME NEW t, Consistent(t), NEW n \in Node
  PROVE  ~RemoveDereferencesNull(t, n)
BY PreviousSibling, NodeAssumption DEF RemoveDereferencesNull, IsRoot

(* ... and neither does inserting one before a child or behind all.        *)
LEMMA InsertSafe ==
  ASSUME NEW t, Consistent(t), NEW p \in Node, NEW next \in NodeOrNull,
         next # Null => t.parent[next] = p
  PROVE  ~InsertDereferencesNull(t, p, next)
<1>1. CASE next = Null
  BY <1>1, LastChild DEF InsertDereferencesNull
<1>2. CASE next # Null
  <2>1. next \in Node /\ t.parent[next] = p /\ t.parent[next] # Null
    BY <1>2, NodeAssumption
  <2>2. t.firstChild[p] # next => GetPreviousSibling(t, next) # Null
    BY <2>1, PreviousSibling, NodeAssumption
  <2> QED BY <1>2, <2>2 DEF InsertDereferencesNull
<1> QED BY <1>1, <1>2

(* A call ends with a null dereference only if it used a null pointer.     *)
LEMMA FinishDefined ==
  ASSUME NEW t, NEW cut, NEW null, status = "defined", Finish(t, cut, null), ~null
  PROVE  status' # "null dereference"
BY DEF Finish, Crash, Settle

(* AppendChild, SetParent, and InsertChild before another child than the   *)
(* one it moves.                                                           *)
LEMMA MoveDefined ==
  ASSUME TreeInv, status = "defined", NEW c \in held, NEW n \in held,
         NEW next \in NodeOrNull, next # c, next # Null => tree.parent[next] = n,
         MoveNode(c, n, next)
  PROVE  status' # "null dereference"
<1> DEFINE t == RemoveNodeFromCurrentLocation(tree, c)
<1>1. c \in Node /\ n \in Node /\ Consistent(tree) /\ tree.parent \in Links
  BY TypeOKLinked DEF TreeInv, Sound, Linked
<1>2. Consistent(t) /\ t.parent = Assign(tree.parent, c, Null)
  BY <1>1, RemoveConsistent
<1> HIDE DEF t
<1>3. next # Null => t.parent[next] = n
  BY <1>1, <1>2 DEF Assign
<1>4. ~RemoveDereferencesNull(tree, c) /\ ~InsertDereferencesNull(t, n, next)
  BY <1>1, <1>2, <1>3, RemoveSafe, InsertSafe
<1> QED BY <1>4, FinishDefined DEF MoveNode, t

(* What the calls may rely on.                                             *)
LEMMA LinksKnown ==
  ASSUME TreeInv
  PROVE  /\ alive \in SUBSET Node /\ held \in SUBSET Node /\ Consistent(tree) /\ Sound(tree)
         /\ tree.parent \in Links /\ tree.firstChild \in Links /\ tree.nextSibling \in Links
BY TypeOKLinked DEF TreeInv, Sound, Linked

LEMMA SetFirstChildDefined ==
  ASSUME TreeInv, status = "defined", NEW n \in Node, NEW c \in NodeOrNull, SetFirstChild(n, c)
  PROVE  status' # "null dereference"
<1> DEFINE old == tree.firstChild[n]
           t1  == RemoveNodeAndAllNextSiblingsFromParent(tree, old)
           t2  == RemoveNodeFromCurrentLocation(t1, c)
           next == t2.firstChild[n]
<1>1. old \in NodeOrNull /\ (old # Null => tree.parent[old] # Null)
  BY LinksKnown, NodeAssumption DEF Consistent, FirstChildIsChild
<1>2. Consistent(t1)
  BY <1>1, LinksKnown, RemoveRowConsistent
<1>3. CASE c = Null
  <2>1. Finish(t1, RemovesUnreferencedSibling(tree, old), FALSE)
    BY <1>3 DEF SetFirstChild
  <2> QED BY <2>1, FinishDefined
<1>4. CASE c # Null
  <2>1. Finish(InsertNodeAtNewLocation(t2, c, n, next), RemovesUnreferencedSibling(tree, old),
               RemoveDereferencesNull(t1, c) \/ InsertDereferencesNull(t2, n, next))
    BY <1>4 DEF SetFirstChild
  <2>2. ~RemoveDereferencesNull(t1, c) /\ ~InsertDereferencesNull(t2, n, next)
    BY <1>2, <1>4, RemoveSafe DEF InsertDereferencesNull
  <2> QED BY <2>1, <2>2, FinishDefined
<1> QED BY <1>3, <1>4

(* A child is not in the row of the siblings behind it: it keeps its       *)
(* parent when they are removed.                                           *)
LEMMA NotBehindItself ==
  ASSUME NEW t, Consistent(t), NEW n \in Node, t.parent[n] # Null
  PROVE  RemoveNodeAndAllNextSiblingsFromParent(t, t.nextSibling[n]).parent[n] = t.parent[n]
<1> DEFINE p   == t.parent[n]
           old == t.nextSibling[n]
           row == Walk(t.nextSibling, old)
           W   == ChildrenOf(t, p)
<1>t. p \in Node /\ t.parent \in Links /\ t.firstChild \in Links /\ t.nextSibling \in Links
  BY DEF Consistent
<1>1. CASE old = Null
  BY <1>1 DEF RemoveNodeAndAllNextSiblingsFromParent
<1>2. CASE old # Null
  <2>1. t.parent[old] = p /\ old \in Node
    BY <1>t, <1>2 DEF Consistent, SiblingsHaveSameParent
  <2>2. n \notin row
    <3> SUFFICES ASSUME n \in row PROVE FALSE
      OBVIOUS
    <3>1. /\ row \in SUBSET Node
          /\ \A m \in row : t.parent[m] = p /\ t.nextSibling[m] \in row \cup {Null}
          /\ \A m \in row \ {old} : m # t.firstChild[p]
          /\ \A m \in row \ {old} : \E k \in row : t.nextSibling[k] = m
      <4>1. old \in Node /\ t.parent[old] # Null /\ t.parent[old] = p
        BY <1>t, <2>1, NodeAssumption
      <4>2. RowBelow(t, old, p, row)
        <5> HIDE DEF p, old
        <5> QED BY <4>1, RowInsideParent
      <4> HIDE DEF p, old, row
      <4> QED BY <4>2 DEF RowBelow
    <3> HIDE DEF row
    (* The nodes outside the row would be all children, without n.         *)
    <3> DEFINE S == {z \in Node : t.parent[z] = p} \ row
    <3>2. t.firstChild[p] \in S \cup {Null}
      BY <1>t, <1>2, <2>1, <3>1, NodeAssumption DEF Consistent, FirstChildIsChild, NoSharedSibling
    <3>3. ASSUME NEW z \in S PROVE t.nextSibling[z] \in S \cup {Null}
      <4> SUFFICES ASSUME t.nextSibling[z] # Null, t.nextSibling[z] \in row PROVE FALSE
        BY <1>t, NodeAssumption DEF Consistent, SiblingsHaveSameParent
      <4>1. PICK k \in row : t.nextSibling[k] = t.nextSibling[z]
        BY <3>1
      <4> QED BY <1>t, <3>1, <4>1, NodeAssumption DEF Consistent, NoSharedSibling
    <3>4. S \in SUBSET Node /\ Closed(t.nextSibling, t.firstChild[p], S)
      BY <3>2, <3>3 DEF Closed
    <3> HIDE DEF S
    <3>5. n \in S
      BY <3>4, ChildInRow
    <3> QED BY <3>5 DEF S
  <2> QED BY <1>t, <1>2, <2>2 DEF RemoveNodeAndAllNextSiblingsFromParent
<1> QED BY <1>1, <1>2

LEMMA SetNextSiblingDefined ==
  ASSUME TreeInv, status = "defined", NEW n \in Node, NEW s \in NodeOrNull, SetNextSibling(n, s)
  PROVE  status' # "null dereference"
<1> DEFINE old == tree.nextSibling[n]
           t1  == RemoveNodeAndAllNextSiblingsFromParent(tree, old)
           t2  == RemoveNodeFromCurrentLocation(t1, s)
           p   == t2.parent[n]
           next == t2.nextSibling[n]
<1>1. /\ s # n /\ tree.parent[n] # Null
      /\ old \in NodeOrNull /\ (old # Null => tree.parent[old] # Null)
  BY LinksKnown DEF SetNextSibling, IsRoot, Consistent, SiblingsHaveSameParent
<1>2. Consistent(t1)
  BY <1>1, LinksKnown, RemoveRowConsistent
(* The row that is removed is behind n, and n keeps its parent.            *)
<1>3. t1.parent[n] = tree.parent[n]
  BY <1>1, NotBehindItself, LinksKnown
<1>4. CASE s = Null
  <2>1. Finish(t1, RemovesUnreferencedSibling(tree, old), FALSE)
    BY <1>4 DEF SetNextSibling
  <2> QED BY <2>1, FinishDefined
<1>5. CASE s # Null
  <2>1. Finish(InsertNodeAtNewLocation(t2, s, p, next), RemovesUnreferencedSibling(tree, old),
               \/ RemoveDereferencesNull(t1, s)
               \/ p = Null
               \/ InsertDereferencesNull(t2, p, next))
    BY <1>5 DEF SetNextSibling
  <2>2. Consistent(t2) /\ t2.parent = Assign(t1.parent, s, Null)
    BY <1>2, <1>5, RemoveConsistent
  <2> HIDE DEF t1, t2
  <2>3. p = tree.parent[n] /\ p # Null /\ p \in Node
    BY <1>1, <1>3, <2>2, LinksKnown DEF Assign
  <2>4. next \in NodeOrNull /\ (next # Null => t2.parent[next] = p)
    BY <2>2, <2>3 DEF Consistent, SiblingsHaveSameParent
  <2>5. ~RemoveDereferencesNull(t1, s) /\ ~InsertDereferencesNull(t2, p, next)
    BY <1>2, <1>5, <2>2, <2>3, <2>4, RemoveSafe, InsertSafe
  <2> QED BY <2>1, <2>3, <2>5, FinishDefined
<1> QED BY <1>4, <1>5

LEMMA ReplaceChildDefined ==
  ASSUME TreeInv, status = "defined", NEW n \in Node, NEW new \in NodeOrNull,
         NEW old \in NodeOrNull, ReplaceChild(n, new, old)
  PROVE  status' # "null dereference"
<1> DEFINE t1 == RemoveNodeFromCurrentLocation(tree, new)
           t2 == InsertNodeAtNewLocation(t1, new, n, old)
           t3 == RemoveNodeFromCurrentLocation(t2, old)
<1>1. /\ n # new /\ new # old /\ new \in Node /\ old \in Node /\ tree.parent[old] = n
      /\ Finish(t3, FALSE, \/ RemoveDereferencesNull(tree, new)
                           \/ InsertDereferencesNull(t1, n, old)
                           \/ RemoveDereferencesNull(t2, old))
  BY LinksKnown DEF ReplaceChild
<1>2. Consistent(t1) /\ t1.parent = Assign(tree.parent, new, Null)
  BY <1>1, LinksKnown, RemoveConsistent
<1> HIDE DEF t1
<1>3. t1.parent[new] = Null /\ t1.parent[old] = n
  BY <1>1, <1>2, LinksKnown DEF Assign
<1>4. ~RemoveDereferencesNull(tree, new) /\ ~InsertDereferencesNull(t1, n, old)
  BY <1>1, <1>2, <1>3, LinksKnown, RemoveSafe, InsertSafe
<1>5. Consistent(t2)
  BY <1>1, <1>2, <1>3, <1>4, InsertConsistent
<1>6. ~RemoveDereferencesNull(t2, old)
  BY <1>1, <1>5, RemoveSafe
<1> QED BY <1>1, <1>4, <1>6, FinishDefined

(* Whatever the trees look like, the only call that uses a null pointer is *)
(* InsertChild with the child as its own reference child: the unchecked    *)
(* results of GetPreviousSibling and GetLastChild in SgfcTreeBuilder are   *)
(* never null in any other.                                                *)
THEOREM CrashesOnlyOnSelfReference == Spec => OnlySelfReferenceCrashes
<1> DEFINE Only == status' = "null dereference" =>
                     \A n \in Node, m, k \in NodeOrNull :
                       /\ ~(SetFirstChild(n, m) \/ AppendChild(n, m) \/ RemoveChild(n, m))
                       /\ ~(SetNextSibling(n, m) \/ SetParent(n, m) \/ ReplaceChild(n, m, k))
                       /\ InsertChild(n, m, k) => k = m
<1>1. TreeInv /\ [Next]_vars => [Only]_vars
  <2> SUFFICES ASSUME TreeInv, Next, status' = "null dereference",
                      NEW n \in Node, NEW m \in NodeOrNull, NEW k \in NodeOrNull
               PROVE  /\ ~(SetFirstChild(n, m) \/ AppendChild(n, m) \/ RemoveChild(n, m))
                      /\ ~(SetNextSibling(n, m) \/ SetParent(n, m) \/ ReplaceChild(n, m, k))
                      /\ InsertChild(n, m, k) => k = m
    OBVIOUS
  <2>0. status = "defined" /\ held \in SUBSET Node
    BY LinksKnown DEF Next
  <2>1. ~SetFirstChild(n, m)
    BY <2>0, SetFirstChildDefined
  <2>2. ~AppendChild(n, m)
    BY <2>0, MoveDefined, NodeAssumption DEF AppendChild
  <2>3. ~RemoveChild(n, m)
    <3> SUFFICES ASSUME RemoveChild(n, m) PROVE FALSE
      OBVIOUS
    <3> DEFINE u == RemoveNodeFromCurrentLocation(tree, m)
    <3>1. m \in Node /\ Finish(u, FALSE, RemoveDereferencesNull(tree, m))
      BY <2>0 DEF RemoveChild
    <3>2. ~RemoveDereferencesNull(tree, m)
      BY <3>1, LinksKnown, RemoveSafe
    <3> HIDE DEF u
    <3> QED BY <2>0, <3>1, <3>2 DEF Finish, Settle
  <2>4. ~SetNextSibling(n, m)
    BY <2>0, SetNextSiblingDefined
  <2>5. ~SetParent(n, m)
    <3> SUFFICES ASSUME SetParent(n, m) PROVE FALSE
      OBVIOUS
    <3>1. CASE m = Null
      <4> DEFINE u == RemoveNodeFromCurrentLocation(tree, n)
      <4>1. Finish(u, FALSE, RemoveDereferencesNull(tree, n))
        BY <3>1 DEF SetParent
      <4>2. ~RemoveDereferencesNull(tree, n)
        BY LinksKnown, RemoveSafe
      <4> HIDE DEF u
      <4> QED BY <2>0, <4>1, <4>2 DEF Finish, Settle
    <3>2. CASE m # Null
      BY <2>0, <3>2, MoveDefined, NodeAssumption DEF SetParent
    <3> QED BY <3>1, <3>2
  <2>6. ~ReplaceChild(n, m, k)
    BY <2>0, ReplaceChildDefined
  <2>7. InsertChild(n, m, k) => k = m
    BY <2>0, MoveDefined DEF InsertChild
  <2> QED BY <2>1, <2>2, <2>3, <2>4, <2>5, <2>6, <2>7
<1> QED BY <1>1, TreeInvariant, PTL DEF Spec, OnlySelfReferenceCrashes

-----------------------------------------------------------------------------
(* Reference counts.                                                       *)

(* Along the links to the next sibling there is no cycle either, also not  *)
(* among the roots, which keep such a link when a row of siblings loses    *)
(* its parent: no set of nodes in which each one is the next sibling of    *)
(* another.                                                                *)
NoSiblingCycle(t) ==
  \A S \in SUBSET Node : (\A m \in S : \E x \in S : t.nextSibling[x] = m) => S = {}

(* Every node that exists has a handle, or a node that exists refers to it.*)
Referenced ==
  \A n \in alive : \/ n \in held \cup {rootNode}
                   \/ \E m \in alive : n \in {tree.firstChild[m], tree.nextSibling[m]}

MemoryInv == TreeInv /\ NoSiblingCycle(tree) /\ Referenced

(* Clearing links closes no cycle.                                         *)
LEMMA FewerSiblings ==
  ASSUME NEW t, NEW u, NoSiblingCycle(t),
         \A m \in Node : u.nextSibling[m] \in {t.nextSibling[m], Null}
  PROVE  NoSiblingCycle(u)
<1> SUFFICES ASSUME NEW S \in SUBSET Node, \A m \in S : \E x \in S : u.nextSibling[x] = m
             PROVE  S = {}
  BY DEF NoSiblingCycle
<1>1. \A m \in S : \E x \in S : t.nextSibling[x] = m
  BY NodeAssumption
<1> QED BY <1>1 DEF NoSiblingCycle

(* RemoveNodeFromCurrentLocation: a cycle through the closed gap had been  *)
(* one through n.                                                          *)
LEMMA RemoveNoSiblingCycle ==
  ASSUME NEW t, Consistent(t), NoSiblingCycle(t), NEW n \in Node
  PROVE  NoSiblingCycle(RemoveNodeFromCurrentLocation(t, n))
<1> DEFINE u    == RemoveNodeFromCurrentLocation(t, n)
           prev == GetPreviousSibling(t, n)
           next == t.nextSibling[n]
<1>1. CASE t.parent[n] = Null
  BY <1>1 DEF RemoveNodeFromCurrentLocation, IsRoot
<1>2. CASE t.parent[n] # Null
  <2>1. \A m \in Node : u.nextSibling[m] = IF m = n THEN Null
                                           ELSE IF m = prev THEN next ELSE t.nextSibling[m]
    BY <1>2 DEF RemoveNodeFromCurrentLocation, IsRoot, Assign
  <2>2. prev = Null \/ (prev \in Node /\ t.nextSibling[prev] = n)
    BY <1>2, PreviousSibling DEF GetPreviousSibling
  <2> HIDE DEF u, prev
  <2> SUFFICES ASSUME NEW S \in SUBSET Node, \A m \in S : \E x \in S : u.nextSibling[x] = m
               PROVE  S = {}
    BY DEF NoSiblingCycle, u
  <2> DEFINE T == IF prev \in S THEN S \cup {n} ELSE S
  <2>3. ASSUME NEW m \in S PROVE \E x \in T : t.nextSibling[x] = m
    <3>1. PICK x \in S : u.nextSibling[x] = m
      OBVIOUS
    <3> QED BY <2>1, <3>1, NodeAssumption
  <2>4. prev \in S => \E x \in T : t.nextSibling[x] = n
    BY <2>2, NodeAssumption
  <2>5. \A m \in T : \E x \in T : t.nextSibling[x] = m
    BY <2>3, <2>4
  <2>6. T \in SUBSET Node
    OBVIOUS
  <2>7. T = {}
    <3> HIDE DEF T
    <3> QED BY <2>5, <2>6 DEF NoSiblingCycle
  <2> QED BY <2>7
<1> QED BY <1>1, <1>2

(* RemoveNodeAndAllNextSiblingsFromParent and the end of a call only clear *)
(* such links.                                                             *)
LEMMA RemoveRowNoSiblingCycle ==
  ASSUME NEW t, t \in Trees, NoSiblingCycle(t), NEW n
  PROVE  NoSiblingCycle(RemoveNodeAndAllNextSiblingsFromParent(t, n))
<1> DEFINE u == RemoveNodeAndAllNextSiblingsFromParent(t, n)
<1>1. \A m \in Node : u.nextSibling[m] \in {t.nextSibling[m], Null}
  BY DEF RemoveNodeAndAllNextSiblingsFromParent
<1> HIDE DEF u
<1>2. NoSiblingCycle(u)
  BY <1>1, FewerSiblings
<1> QED BY <1>2 DEF u

LEMMA PruneNoSiblingCycle ==
  ASSUME NEW t, t \in Trees, NoSiblingCycle(t), NEW X
  PROVE  NoSiblingCycle(Prune(t, X))
<1> DEFINE u == Prune(t, X)
<1>1. \A m \in Node : u.nextSibling[m] \in {t.nextSibling[m], Null}
  BY DEF Prune
<1> HIDE DEF u
<1>2. NoSiblingCycle(u)
  BY <1>1, FewerSiblings
<1> QED BY <1>2 DEF u

(* InsertNodeAtNewLocation: n may be a root that other roots lead to.  A   *)
(* cycle through n that comes from such a root is one among the roots; one *)
(* that comes from the previous sibling went past n before.                *)
LEMMA InsertNoSiblingCycle ==
  ASSUME NEW t, Consistent(t), NoSiblingCycle(t), NEW n \in Node, t.parent[n] = Null,
         NEW p \in Node, NEW next \in NodeOrNull, next # Null => t.parent[next] = p,
         ~InsertDereferencesNull(t, p, next)
  PROVE  NoSiblingCycle(InsertNodeAtNewLocation(t, n, p, next))
<1> DEFINE u     == InsertNodeAtNewLocation(t, n, p, next)
           first == t.firstChild[p] = next
           prev  == IF next = Null THEN GetLastChild(t, p) ELSE GetPreviousSibling(t, next)
<1>1. ~first => prev \in Node /\ t.parent[prev] = p /\ t.nextSibling[prev] = next
  BY InsertPlace
<1>2. \A m \in Node : u.nextSibling[m] = IF m = n THEN next
                                         ELSE IF ~first /\ m = prev THEN n ELSE t.nextSibling[m]
  BY DEF InsertNodeAtNewLocation, Assign
<1> HIDE DEF u, prev, first
<1> SUFFICES ASSUME NEW S \in SUBSET Node, \A m \in S : \E x \in S : u.nextSibling[x] = m
             PROVE  S = {}
  BY DEF NoSiblingCycle, u
<1>t. t.parent \in Links /\ t.nextSibling \in Links
  BY DEF Consistent
<1>3. CASE n \notin S
  <2>1. ASSUME NEW m \in S PROVE \E x \in S : t.nextSibling[x] = m
    BY <1>2, <1>3
  <2> QED BY <2>1 DEF NoSiblingCycle
<1>4. CASE \E y \in S : y # n /\ t.nextSibling[y] = n /\ ~(~first /\ y = prev)
  <2> DEFINE T == {x \in S : t.parent[x] = Null}
  <2>1. ASSUME NEW m \in T, NEW x \in S, t.nextSibling[x] = m PROVE x \in T
    BY <1>t, <2>1, NodeAssumption DEF Consistent, SiblingsHaveSameParent
  <2>2. ASSUME NEW m \in T PROVE \E x \in T : t.nextSibling[x] = m
    <3>1. CASE m = n
      BY <1>4, <2>1, <3>1
    <3>2. CASE m # n
      <4>1. PICK x \in S : u.nextSibling[x] = m
        OBVIOUS
      <4>2. t.nextSibling[x] = m
        BY <1>2, <3>2, <4>1, NodeAssumption
      <4> QED BY <2>1, <4>2
    <3> QED BY <3>1, <3>2
  <2>3. T = {}
    <3>1. T \in SUBSET Node
      OBVIOUS
    <3> HIDE DEF T
    <3> QED BY <2>2, <3>1 DEF NoSiblingCycle
  <2>4. \E x \in T : TRUE
    <3>1. PICK y \in S : y # n /\ t.nextSibling[y] = n /\ ~(~first /\ y = prev)
      BY <1>4
    <3>2. t.parent[y] = Null
      BY <1>t, <3>1, NodeAssumption DEF Consistent, SiblingsHaveSameParent
    <3> QED BY <3>1, <3>2
  <2> QED BY <2>3, <2>4
<1>5. CASE n \in S /\ ~(\E y \in S : y # n /\ t.nextSibling[y] = n /\ ~(~first /\ y = prev))
  <2>1. PICK y \in S : u.nextSibling[y] = n
    BY <1>5
  <2>2. y # n
    BY <1>2, <2>1, NodeAssumption
  <2>3. ~first /\ y = prev
    BY <1>2, <1>5, <2>1, <2>2
  <2> DEFINE R == S \ {n}
  <2>4. ASSUME NEW m \in R PROVE \E x \in R : t.nextSibling[x] = m
    <3>1. PICK x \in S : u.nextSibling[x] = m
      OBVIOUS
    <3>2. CASE x = n
      BY <1>1, <1>2, <2>2, <2>3, <3>1, <3>2
    <3>3. CASE x # n
      BY <1>2, <3>1, <3>3
    <3> QED BY <3>2, <3>3
  <2>5. R = {}
    <3>1. R \in SUBSET Node
      OBVIOUS
    <3> HIDE DEF R
    <3> QED BY <2>4, <3>1 DEF NoSiblingCycle
  <2> QED BY <2>2, <2>5
<1> QED BY <1>3, <1>4, <1>5

(* The nodes that survive a call are those that something refers to.       *)
LEMMA SettleMemory ==
  ASSUME NEW A \in SUBSET Node, NEW t, Linked(t, A), NoSiblingCycle(t), NEW h, NEW r,
         Settle(t, A, h, r)
  PROVE  NoSiblingCycle(tree') /\ Referenced'
<1> DEFINE X == Survivors(t, A, h \cup {r})
<1>1. alive' = X /\ tree' = Prune(t, X) /\ held' = h /\ rootNode' = r
  BY DEF Settle
<1>2. NoSiblingCycle(tree')
  BY <1>1, PruneNoSiblingCycle DEF Linked
<1>3. X \in SUBSET Node
  BY SurvivorsClosed
<1>4. ASSUME NEW n \in X
      PROVE  n \in h \cup {r} \/ \E m \in X : n \in {t.firstChild[m], t.nextSibling[m]}
  BY DEF Survivors
<1> HIDE DEF X
<1>5. ASSUME NEW m \in X
      PROVE  tree'.firstChild[m] = t.firstChild[m] /\ tree'.nextSibling[m] = t.nextSibling[m]
  BY <1>1, <1>3 DEF Prune
<1> QED BY <1>1, <1>2, <1>4, <1>5 DEF Referenced

LEMMA FinishMemory ==
  ASSUME NEW t, MemoryInv, Linked(t, alive), NEW cut, NEW null, Finish(t, cut, null),
         ~null => NoSiblingCycle(t)
  PROVE  NoSiblingCycle(tree') /\ Referenced'
<1>1. CASE Settle(t, alive, held, rootNode) /\ ~null
  BY <1>1, SettleMemory DEF MemoryInv, TreeInv, TypeOK
<1>2. CASE Crash("use after free") \/ Crash("null dereference")
  BY <1>2 DEF Crash, MemoryInv, Referenced
<1> QED BY <1>1, <1>2 DEF Finish

LEMMA MoveMemory ==
  ASSUME MemoryInv, NEW c \in held, NEW n \in held, NEW next \in held \cup {Null},
         next # Null => tree.parent[next] = n, MoveNode(c, n, next)
  PROVE  NoSiblingCycle(tree') /\ Referenced'
<1> DEFINE t == RemoveNodeFromCurrentLocation(tree, c)
           u == InsertNodeAtNewLocation(t, c, n, next)
<1>1. alive \in SUBSET Node /\ held \in SUBSET alive /\ Linked(tree, alive)
      /\ Consistent(tree) /\ NoSiblingCycle(tree) /\ tree.parent \in Links
  BY TypeOKLinked, LinksKnown DEF MemoryInv, TreeInv
<1>2. Linked(t, alive) /\ Consistent(t) /\ NoSiblingCycle(t) /\ t.parent = Assign(tree.parent, c, Null)
  BY <1>1, RemoveLinked, RemoveConsistent, RemoveNoSiblingCycle
<1>3. Finish(u, FALSE, RemoveDereferencesNull(tree, c) \/ InsertDereferencesNull(t, n, next))
  BY DEF MoveNode
<1> HIDE DEF t
<1>4. t.parent[c] = Null /\ (next # Null /\ next # c => t.parent[next] = n)
  BY <1>1, <1>2 DEF Assign
<1>5. Linked(u, alive)
  BY <1>1, <1>2, InsertLinked
<1>6. ASSUME ~InsertDereferencesNull(t, n, next) PROVE NoSiblingCycle(u)
  <2>1. next # c
    <3> SUFFICES ASSUME next = c PROVE FALSE
      OBVIOUS
    <3>1. t.firstChild[n] # c
      BY <1>1, <1>2, <1>4, NodeAssumption DEF Consistent, FirstChildIsChild
    <3>2. GetPreviousSibling(t, c) = Null
      BY <1>4 DEF GetPreviousSibling, IsRoot
    <3> QED BY <1>1, <1>6, <3>1, <3>2, NodeAssumption DEF InsertDereferencesNull
  <2> QED BY <1>1, <1>2, <1>4, <1>6, <2>1, InsertNoSiblingCycle
<1> HIDE DEF u
<1> QED BY <1>3, <1>5, <1>6, FinishMemory

LEMMA SetFirstChildMemory ==
  ASSUME MemoryInv, NEW n \in Node, NEW c \in NodeOrNull, SetFirstChild(n, c)
  PROVE  NoSiblingCycle(tree') /\ Referenced'
<1> DEFINE old == tree.firstChild[n]
           t1  == RemoveNodeAndAllNextSiblingsFromParent(tree, old)
           t2  == RemoveNodeFromCurrentLocation(t1, c)
           next == t2.firstChild[n]
           t3  == InsertNodeAtNewLocation(t2, c, n, next)
<1>0. alive \in SUBSET Node /\ held \in SUBSET alive /\ Linked(tree, alive)
      /\ tree \in Trees /\ Consistent(tree) /\ NoSiblingCycle(tree)
  BY TypeOKLinked, LinksKnown DEF MemoryInv, TreeInv, Linked
<1>1. old \in NodeOrNull /\ (old # Null => tree.parent[old] # Null) /\ n \in alive
  BY <1>0, NodeAssumption DEF Consistent, FirstChildIsChild, SetFirstChild
<1>2. Linked(t1, alive) /\ Consistent(t1) /\ NoSiblingCycle(t1)
  BY <1>0, <1>1, RemoveRowLinked, RemoveRowConsistent, RemoveRowNoSiblingCycle
<1>3. CASE c = Null
  <2>1. Finish(t1, RemovesUnreferencedSibling(tree, old), FALSE)
    BY <1>3 DEF SetFirstChild
  <2> HIDE DEF t1
  <2> QED BY <1>2, <2>1, FinishMemory
<1>4. CASE c # Null
  <2>1. Finish(t3, RemovesUnreferencedSibling(tree, old),
               RemoveDereferencesNull(t1, c) \/ InsertDereferencesNull(t2, n, next))
    BY <1>4 DEF SetFirstChild
  <2>2. c \in Node /\ c \in alive
    BY <1>0, <1>4 DEF SetFirstChild
  <2>3. /\ Linked(t2, alive) /\ Consistent(t2) /\ NoSiblingCycle(t2)
        /\ t2.parent = Assign(t1.parent, c, Null)
    BY <1>0, <1>2, <2>2, RemoveLinked, RemoveConsistent, RemoveNoSiblingCycle
  <2> HIDE DEF t1, t2
  <2>4. t2.parent[c] = Null
    BY <2>2, <2>3 DEF Assign
  <2>5. next \in alive \cup {Null} /\ (next # Null => t2.parent[next] = n)
    BY <2>3 DEF Linked, Consistent, FirstChildIsChild
  <2> HIDE DEF next
  <2>6. Linked(t3, alive)
    BY <1>0, <1>1, <2>2, <2>3, <2>5, InsertLinked
  <2>7. ~InsertDereferencesNull(t2, n, next) => NoSiblingCycle(t3)
    BY <1>0, <2>2, <2>3, <2>4, <2>5, InsertNoSiblingCycle
  <2> HIDE DEF t3
  <2> QED BY <2>1, <2>6, <2>7, FinishMemory
<1> QED BY <1>3, <1>4

LEMMA SetNextSiblingMemory ==
  ASSUME MemoryInv, NEW n \in Node, NEW s \in NodeOrNull, SetNextSibling(n, s)
  PROVE  NoSiblingCycle(tree') /\ Referenced'
<1> DEFINE old == tree.nextSibling[n]
           t1  == RemoveNodeAndAllNextSiblingsFromParent(tree, old)
           t2  == RemoveNodeFromCurrentLocation(t1, s)
           p   == t2.parent[n]
           next == t2.nextSibling[n]
           t3  == InsertNodeAtNewLocation(t2, s, p, next)
<1>0. alive \in SUBSET Node /\ held \in SUBSET alive /\ Linked(tree, alive)
      /\ tree \in Trees /\ Consistent(tree) /\ NoSiblingCycle(tree)
  BY TypeOKLinked, LinksKnown DEF MemoryInv, TreeInv, Linked
<1>1. /\ n \in alive /\ tree.parent[n] # Null
      /\ old \in NodeOrNull /\ (old # Null => tree.parent[old] # Null)
  BY <1>0 DEF SetNextSibling, IsRoot, Consistent, SiblingsHaveSameParent
<1>2. Linked(t1, alive) /\ Consistent(t1) /\ NoSiblingCycle(t1)
  BY <1>0, <1>1, RemoveRowLinked, RemoveRowConsistent, RemoveRowNoSiblingCycle
<1>3. CASE s = Null
  <2>1. Finish(t1, RemovesUnreferencedSibling(tree, old), FALSE)
    BY <1>3 DEF SetNextSibling
  <2> HIDE DEF t1
  <2> QED BY <1>2, <2>1, FinishMemory
<1>4. CASE s # Null
  <2>1. Finish(t3, RemovesUnreferencedSibling(tree, old),
               \/ RemoveDereferencesNull(t1, s)
               \/ p = Null
               \/ InsertDereferencesNull(t2, p, next))
    BY <1>4 DEF SetNextSibling
  <2>2. s \in Node /\ s \in alive
    BY <1>0, <1>4 DEF SetNextSibling
  <2>3. /\ Linked(t2, alive) /\ Consistent(t2) /\ NoSiblingCycle(t2)
        /\ t2.parent = Assign(t1.parent, s, Null)
    BY <1>0, <1>2, <2>2, RemoveLinked, RemoveConsistent, RemoveNoSiblingCycle
  <2> HIDE DEF t1, t2
  <2>4. t2.parent[s] = Null /\ p \in alive \cup {Null}
    BY <1>2, <2>2, <2>3 DEF Assign, Linked
  <2>5. CASE p = Null
    <3> HIDE DEF t3, p, next
    <3>1. Crash("use after free") \/ Crash("null dereference")
      BY <2>1, <2>5 DEF Finish
    <3> QED BY <3>1 DEF Crash, MemoryInv, Referenced
  <2>6. CASE p # Null
    <3>1. next \in alive \cup {Null} /\ (next # Null => t2.parent[next] = p)
      BY <2>3, <2>6 DEF Linked, Consistent, SiblingsHaveSameParent
    <3> HIDE DEF next, p
    <3>2. Linked(t3, alive)
      BY <1>0, <2>2, <2>3, <2>4, <2>6, <3>1, InsertLinked
    <3>3. ~InsertDereferencesNull(t2, p, next) => NoSiblingCycle(t3)
      BY <1>0, <2>2, <2>3, <2>4, <2>6, <3>1, InsertNoSiblingCycle
    <3> HIDE DEF t3
    <3> QED BY <2>1, <3>2, <3>3, FinishMemory
  <2> QED BY <2>5, <2>6
<1> QED BY <1>3, <1>4

LEMMA ReplaceChildMemory ==
  ASSUME MemoryInv, NEW n \in Node, NEW new \in NodeOrNull, NEW old \in NodeOrNull,
         ReplaceChild(n, new, old)
  PROVE  NoSiblingCycle(tree') /\ Referenced'
<1> DEFINE t1 == RemoveNodeFromCurrentLocation(tree, new)
           t2 == InsertNodeAtNewLocation(t1, new, n, old)
           t3 == RemoveNodeFromCurrentLocation(t2, old)
<1>0. alive \in SUBSET Node /\ held \in SUBSET alive /\ Linked(tree, alive)
      /\ tree.parent \in Links /\ Consistent(tree) /\ NoSiblingCycle(tree)
  BY TypeOKLinked, LinksKnown DEF MemoryInv, TreeInv
<1>1. /\ n # new /\ new # old /\ n \in alive /\ new \in alive /\ old \in alive /\ tree.parent[old] = n
      /\ Finish(t3, FALSE, \/ RemoveDereferencesNull(tree, new)
                           \/ InsertDereferencesNull(t1, n, old)
                           \/ RemoveDereferencesNull(t2, old))
  BY <1>0 DEF ReplaceChild
<1>2. /\ Linked(t1, alive) /\ Consistent(t1) /\ NoSiblingCycle(t1)
      /\ t1.parent = Assign(tree.parent, new, Null)
  BY <1>0, <1>1, RemoveLinked, RemoveConsistent, RemoveNoSiblingCycle
<1> HIDE DEF t1
<1>3. t1.parent[new] = Null /\ t1.parent[old] = n
  BY <1>0, <1>1, <1>2 DEF Assign
<1>4. ~InsertDereferencesNull(t1, n, old)
  BY <1>0, <1>1, <1>2, <1>3, InsertSafe
<1>5. Linked(t2, alive) /\ Consistent(t2) /\ NoSiblingCycle(t2)
  BY <1>0, <1>1, <1>2, <1>3, <1>4, InsertLinked, InsertConsistent, InsertNoSiblingCycle
<1> HIDE DEF t2
<1>6. Linked(t3, alive) /\ NoSiblingCycle(t3)
  BY <1>0, <1>1, <1>5, RemoveLinked, RemoveNoSiblingCycle
<1> HIDE DEF t3
<1> QED BY <1>1, <1>6, FinishMemory

LEMMA MemoryStep == MemoryInv /\ [Next]_vars => MemoryInv'
<1> SUFFICES ASSUME MemoryInv, [Next]_vars PROVE NoSiblingCycle(tree') /\ Referenced'
  BY TypeStep, SoundStep DEF MemoryInv, TreeInv, Sound, Consistent, FirstChildIsChild,
     SiblingsHaveSameParent, NoSharedSibling, ChildrenAreListed, NoCycle, NoSiblingCycle
<1>0. /\ alive \in SUBSET Node /\ held \in SUBSET alive /\ Linked(tree, alive)
      /\ tree \in Trees /\ Consistent(tree) /\ NoSiblingCycle(tree)
  BY TypeOKLinked, LinksKnown DEF MemoryInv, TreeInv, Linked
<1>1. ASSUME NEW n \in Node, ClientStep(n) PROVE NoSiblingCycle(tree') /\ Referenced'
  <2>1. CASE CreateNode(n)
    <3>1. alive \cup {n} \in SUBSET Node /\ Linked(tree, alive \cup {n})
      BY <1>0 DEF Linked
    <3> QED BY <1>0, <2>1, <3>1, SettleMemory DEF CreateNode
  <2>2. CASE GetNode(n) \/ DropHandle(n)
    BY <1>0, <2>2, SettleMemory DEF GetNode, DropHandle
  <2> QED BY <1>1, <2>1, <2>2 DEF ClientStep
<1>2. ASSUME NEW n \in NodeOrNull, SetRootNode(n) PROVE NoSiblingCycle(tree') /\ Referenced'
  BY <1>0, <1>2, SettleMemory DEF SetRootNode
<1>3. ASSUME NEW n \in Node, NEW c \in NodeOrNull,
             SetFirstChild(n, c) \/ SetNextSibling(n, c)
      PROVE  NoSiblingCycle(tree') /\ Referenced'
  BY <1>3, SetFirstChildMemory, SetNextSiblingMemory
<1>4. ASSUME NEW n \in Node, NEW c \in NodeOrNull, AppendChild(n, c)
      PROVE  NoSiblingCycle(tree') /\ Referenced'
  BY <1>4, MoveMemory DEF AppendChild
<1>5. ASSUME NEW n \in Node, NEW c \in NodeOrNull, NEW ref \in NodeOrNull, InsertChild(n, c, ref)
      PROVE  NoSiblingCycle(tree') /\ Referenced'
  BY <1>5, MoveMemory DEF InsertChild
<1>6. ASSUME NEW n \in Node, NEW c \in NodeOrNull, RemoveChild(n, c)
      PROVE  NoSiblingCycle(tree') /\ Referenced'
  <2> DEFINE u == RemoveNodeFromCurrentLocation(tree, c)
  <2>1. c \in Node /\ Finish(u, FALSE, RemoveDereferencesNull(tree, c))
    BY <1>0, <1>6 DEF RemoveChild
  <2>2. Linked(u, alive) /\ NoSiblingCycle(u)
    BY <1>0, <2>1, RemoveLinked, RemoveNoSiblingCycle
  <2> HIDE DEF u
  <2> QED BY <2>1, <2>2, FinishMemory
<1>7. ASSUME NEW n \in Node, NEW new \in NodeOrNull, NEW old \in NodeOrNull, ReplaceChild(n, new, old)
      PROVE  NoSiblingCycle(tree') /\ Referenced'
  BY <1>7, ReplaceChildMemory
<1>8. ASSUME NEW n \in Node, NEW p \in NodeOrNull, SetParent(n, p)
      PROVE  NoSiblingCycle(tree') /\ Referenced'
  <2>1. CASE p = Null
    <3> DEFINE u == RemoveNodeFromCurrentLocation(tree, n)
    <3>1. Finish(u, FALSE, RemoveDereferencesNull(tree, n))
      BY <1>8, <2>1 DEF SetParent
    <3>2. Linked(u, alive) /\ NoSiblingCycle(u)
      BY <1>0, RemoveLinked, RemoveNoSiblingCycle
    <3> HIDE DEF u
    <3> QED BY <3>1, <3>2, FinishMemory
  <2>2. CASE p # Null
    BY <1>8, <2>2, MoveMemory DEF SetParent
  <2> QED BY <2>1, <2>2
<1>9. CASE UNCHANGED vars
  BY <1>0, <1>9 DEF vars, Referenced, MemoryInv
<1> QED BY <1>1, <1>2, <1>3, <1>4, <1>5, <1>6, <1>7, <1>8, <1>9 DEF Next, BuilderStep

(* What a set of reachable nodes leads to is reachable.                    *)
LEMMA ReachableClosed ==
  ASSUME TypeOK
  PROVE  /\ Reachable \in SUBSET Node
         /\ held \cup {rootNode} \subseteq Reachable \cup {Null}
         /\ \A m \in Reachable : {tree.firstChild[m], tree.nextSibling[m]} \subseteq Reachable \cup {Null}
<1> DEFINE Holds(S) ==
             /\ held \cup {rootNode} \subseteq S \cup {Null}
             /\ \A m \in S : {tree.firstChild[m], tree.nextSibling[m]} \subseteq S \cup {Null}
<1>1. Reachable = {n \in Node : \A S \in SUBSET Node : Holds(S) => n \in S}
  BY DEF Reachable
<1>2. held \subseteq Node /\ rootNode \in NodeOrNull /\ tree.firstChild \in Links /\ tree.nextSibling \in Links
  BY DEF TypeOK
<1>3. held \cup {rootNode} \subseteq Reachable \cup {Null}
  BY <1>1, <1>2
<1>4. ASSUME NEW m \in Reachable, NEW c \in {tree.firstChild[m], tree.nextSibling[m]}, c # Null
      PROVE  c \in Reachable
  <2>1. m \in Node /\ c \in Node
    BY <1>1, <1>2, <1>4
  <2>2. ASSUME NEW S \in SUBSET Node, Holds(S) PROVE c \in S
    <3>1. m \in S
      BY <1>1, <2>2
    <3> QED BY <1>4, <2>2, <3>1
  <2> HIDE DEF Holds
  <2> QED BY <1>1, <2>1, <2>2
<1>5. \A m \in Reachable : {tree.firstChild[m], tree.nextSibling[m]} \subseteq Reachable \cup {Null}
  BY <1>4
<1> QED BY <1>1, <1>3, <1>5

(* No sequence of calls leaks a node.  Nodes that nothing reachable refers *)
(* to would refer to each other: the roots among them in a cycle of next   *)
(* siblings, and without a root their parents, too, would be among them.   *)
THEOREM NeverLeaks == Spec => []NoLeak
<1>1. Init => MemoryInv
  <2> SUFFICES ASSUME Init PROVE MemoryInv
    OBVIOUS
  <2>1. TreeInv
    BY InitTreeInv
  <2>2. NoSiblingCycle(tree) /\ Referenced
    BY NodeAssumption DEF Init, NoLinks, NoSiblingCycle, Referenced
  <2> QED BY <2>1, <2>2 DEF MemoryInv
<1>2. MemoryInv => NoLeak
  <2> SUFFICES ASSUME MemoryInv PROVE NoLeak
    OBVIOUS
  <2> DEFINE U == alive \ Reachable
  <2>0. /\ alive \in SUBSET Node /\ Linked(tree, alive) /\ Consistent(tree) /\ NoCycle(tree)
        /\ tree.parent \in Links /\ tree.firstChild \in Links /\ tree.nextSibling \in Links
    BY TypeOKLinked, LinksKnown DEF MemoryInv, TreeInv, Sound
  <2>1. /\ Reachable \in SUBSET Node
        /\ held \cup {rootNode} \subseteq Reachable \cup {Null}
        /\ \A m \in Reachable :
             {tree.firstChild[m], tree.nextSibling[m]} \subseteq Reachable \cup {Null}
    BY ReachableClosed DEF MemoryInv, TreeInv
  <2>2. ASSUME NEW m \in U PROVE \E x \in U : m \in {tree.firstChild[x], tree.nextSibling[x]}
    <3>1. m \notin held \cup {rootNode} /\ m # Null
      BY <2>0, <2>1, NodeAssumption
    <3> QED BY <2>1, <3>1 DEF MemoryInv, Referenced
  <2>3. ASSUME NEW m \in U PROVE tree.parent[m] # Null
    <3> DEFINE T == {z \in U : tree.parent[z] = Null}
    <3>1. ASSUME NEW z \in T PROVE \E x \in T : tree.nextSibling[x] = z
      <4>1. PICK x \in U : z \in {tree.firstChild[x], tree.nextSibling[x]}
        BY <2>2
      <4>2. tree.firstChild[x] # z
        BY <2>0, <3>1, NodeAssumption DEF Consistent, FirstChildIsChild
      <4>3. tree.parent[x] = Null
        BY <2>0, <3>1, <4>1, <4>2, NodeAssumption DEF Consistent, SiblingsHaveSameParent
      <4> QED BY <4>1, <4>2, <4>3
    <3>2. T = {}
      <4>1. T \in SUBSET Node
        BY <2>0
      <4> HIDE DEF T
      <4> QED BY <3>1, <4>1 DEF MemoryInv, NoSiblingCycle
    <3> QED BY <3>2
  <2>4. ASSUME NEW m \in U PROVE tree.parent[m] \in U
    <3> DEFINE p == tree.parent[m]
    <3>1. m \in Node /\ p \in alive /\ p \in Node
      BY <2>0, <2>3 DEF Linked
    <3> SUFFICES ASSUME p \in Reachable PROVE FALSE
      BY <3>1
    <3>2. Closed(tree.nextSibling, tree.firstChild[p], Reachable)
      BY <2>1 DEF Closed
    <3>3. m \in Reachable
      BY <2>0, <2>1, <2>3, <3>1, <3>2, ChildInRow
    <3> QED BY <3>3
  <2>5. U = {}
    <3>1. U \in SUBSET Node
      BY <2>0
    <3> HIDE DEF U
    <3> QED BY <2>0, <2>4, <3>1 DEF NoCycle
  <2> QED BY <2>5 DEF NoLeak
<1> QED BY <1>1, <1>2, MemoryStep, PTL DEF Spec

-----------------------------------------------------------------------------
(* Rows of siblings.  The links of a node to its first child and of its    *)
(* children to the next sibling make up a sequence.                        *)

(* The i-th node of seq, or Null behind its end.                           *)
Nth(seq, i) == IF i \in 1 .. Len(seq) THEN seq[i] ELSE Null

Distinct(seq) == \A i, j \in 1 .. Len(seq) : seq[i] = seq[j] => i = j

(* The links of p and its children are those of the sequence seq.          *)
IsRow(t, p, seq) ==
  /\ seq \in Seq(Node)
  /\ Distinct(seq)
  /\ t.firstChild[p] = Nth(seq, 1)
  /\ \A i \in 1 .. Len(seq) : t.parent[seq[i]] = p /\ t.nextSibling[seq[i]] = Nth(seq, i + 1)

(* The trees that the links t make up are the ordered trees ch.            *)
Listed(t, ch) ==
  /\ ch \in [Node -> Seq(Node)]
  /\ \A p \in Node : IsRow(t, p, ch[p])
  /\ \A m \in Node : t.parent[m] # Null =>
       \E i \in 1 .. Len(ch[t.parent[m]]) : ch[t.parent[m]][i] = m

(* seq without its k-th element, and with n as its k-th element.           *)
Removed(seq, k, r) ==
  /\ r \in Seq(Node) /\ Len(r) = Len(seq) - 1
  /\ \A i \in 1 .. Len(r) : r[i] = IF i < k THEN seq[i] ELSE seq[i + 1]

Inserted(seq, k, n, r) ==
  /\ r \in Seq(Node) /\ Len(r) = Len(seq) + 1
  /\ \A i \in 1 .. Len(r) : r[i] = IF i < k THEN seq[i] ELSE IF i = k THEN n ELSE seq[i - 1]

(* No element of a row occurs twice when one is taken out.                 *)
LEMMA RemovedDistinct ==
  ASSUME NEW s \in Seq(Node), Distinct(s), NEW k \in 1 .. Len(s), NEW r, Removed(s, k, r)
  PROVE  Distinct(r)
<1> DEFINE At(i) == IF i < k THEN i ELSE i + 1
<1>1. ASSUME NEW i \in 1 .. Len(r) PROVE At(i) \in 1 .. Len(s) /\ r[i] = s[At(i)]
  <2>1. /\ Len(s) \in Nat /\ k \in 1 .. Len(s) /\ i \in 1 .. Len(s) - 1
        /\ r[i] = IF i < k THEN s[i] ELSE s[i + 1]
    BY DEF Removed
  <2>2. CASE i < k
    BY <2>1, <2>2
  <2>3. CASE ~(i < k)
    BY <2>1, <2>3
  <2> QED BY <2>2, <2>3
<1>2. ASSUME NEW i \in 1 .. Len(r), NEW j \in 1 .. Len(r), At(i) = At(j) PROVE i = j
  <2>1. i \in Int /\ j \in Int /\ k \in Int
    BY DEF Removed
  <2> QED BY <1>2, <2>1
<1> HIDE DEF At
<1>3. ASSUME NEW i \in 1 .. Len(r), NEW j \in 1 .. Len(r), r[i] = r[j] PROVE i = j
  <2>1. At(i) = At(j)
    BY <1>1, <1>3 DEF Distinct
  <2> QED BY <1>2, <2>1
<1> QED BY <1>3 DEF Distinct

(* A nonempty set of numbers has a least element.                          *)
LEMMA LeastNumber ==
  ASSUME NEW S, S \subseteq Nat, S # {}
  PROVE  \E i \in S : \A j \in S : i <= j
<1> DEFINE Less == {p \in Nat \X Nat : p[1] < p[2]}
<1>1. IsWellFoundedOn(Less, Nat)
  <2>1. Less = OpToRel(<, Nat)
    BY DEF OpToRel
  <2> QED BY <2>1, NatLessThanWellFounded
<1>2. PICK i \in S : \A j \in S : ~(<<j, i>> \in Less)
  <2> HIDE DEF Less
  <2> QED BY <1>1, WFMin
<1>3. ASSUME NEW j \in S PROVE i <= j
  <2>1. i \in Nat /\ j \in Nat
    OBVIOUS
  <2>2. ~(j < i)
    BY <1>2, <2>1
  <2> QED BY <2>1, <2>2
<1> QED BY <1>3

(* There are at most as many distinct nodes in a row as nodes.             *)
LEMMA RowLength ==
  ASSUME NEW seq \in Seq(Node), Distinct(seq)
  PROVE  Len(seq) <= Cardinality(Node) /\ Cardinality(Node) \in Nat
<1>1. IsFiniteSet(Node) /\ Cardinality(Node) \in Nat
  BY NodeAssumption, FS_CardinalityType
<1>2. IsFiniteSet(1 .. Len(seq)) /\ Cardinality(1 .. Len(seq)) = Len(seq)
  <2>1. Len(seq) \in Nat
    OBVIOUS
  <2> QED BY <2>1, FS_Interval
<1>3. seq \in Injection(1 .. Len(seq), Node)
  BY DEF Injection, IsInjective, Distinct
<1>4. Cardinality(1 .. Len(seq)) <= Cardinality(Node)
  BY <1>1, <1>2, <1>3, FS_Injection
<1> QED BY <1>1, <1>2, <1>4

(* GetChildren collects the row.                                           *)
LEMMA GetChildrenCollects ==
  ASSUME NEW t, NEW p \in Node, NEW seq, IsRow(t, p, seq)
  PROVE  GetChildren(t, p) = seq
<1> DEFINE C == Cardinality(Node)
           child == [k \in 1 .. C |-> Nth(seq, k)]
           Link(f, k) == IF k = 1 THEN t.firstChild[p]
                         ELSE IF f[k - 1] = Null THEN Null ELSE t.nextSibling[f[k - 1]]
           IsChild(f) == f = [k \in 1 .. C |->
                                IF k = 1 THEN t.firstChild[p]
                                ELSE IF f[k - 1] = Null THEN Null ELSE t.nextSibling[f[k - 1]]]
           found == CHOOSE f : IsChild(f)
<1>1. C \in Nat /\ Len(seq) <= C /\ Len(seq) \in Nat /\ seq \in Seq(Node)
  BY RowLength DEF IsRow
<1> HIDE DEF C
<1>2. ASSUME NEW k \in 1 .. C, k # 1
      PROVE  Nth(seq, k) = IF Nth(seq, k - 1) = Null THEN Null ELSE t.nextSibling[Nth(seq, k - 1)]
  <2>1. CASE k - 1 \in 1 .. Len(seq)
    <3>1. Nth(seq, k - 1) = seq[k - 1] /\ seq[k - 1] \in Node
      BY <1>1, <2>1 DEF Nth
    <3>2. t.nextSibling[seq[k - 1]] = Nth(seq, (k - 1) + 1) /\ (k - 1) + 1 = k
      BY <2>1 DEF IsRow
    <3> QED BY <3>1, <3>2, NodeAssumption
  <2>2. CASE k - 1 \notin 1 .. Len(seq)
    <3>1. k \notin 1 .. Len(seq)
      BY <1>1, <1>2, <2>2
    <3> QED BY <2>2, <3>1 DEF Nth
  <2> QED BY <2>1, <2>2
<1>3. IsChild(child)
  <2>1. ASSUME NEW k \in 1 .. C PROVE child[k] = Link(child, k)
    <3>1. CASE k = 1
      BY <3>1 DEF IsRow
    <3>2. CASE k # 1
      <4>1. k - 1 \in 1 .. C
        BY <1>1, <3>2
      <4> QED BY <1>2, <3>2, <4>1
    <3> QED BY <3>1, <3>2
  <2>2. child = [k \in 1 .. C |-> Link(child, k)]
    <3> HIDE DEF Link
    <3>1. child = [k \in 1 .. C |-> child[k]]
      OBVIOUS
    <3> HIDE DEF child
    <3> QED BY <2>1, <3>1
  <2> HIDE DEF child
  <2> QED BY <2>2
<1>4. IsChild(found)
  <2> HIDE DEF IsChild, child
  <2> QED BY <1>3
<1>5. ASSUME NEW k \in 1 .. C PROVE found[k] = Nth(seq, k)
  <2> HIDE DEF found
  <2>1. \A i \in 1 .. C : found[i] = Link(found, i)
    BY <1>4
  <2> DEFINE Bad == {i \in 1 .. C : found[i] # Nth(seq, i)}
  <2>2. Bad = {}
    <3> SUFFICES ASSUME Bad # {} PROVE FALSE
      OBVIOUS
    <3>1. PICK i \in Bad : \A j \in Bad : i <= j
      <4>1. Bad \subseteq Nat
        BY <1>1
      <4> HIDE DEF Bad
      <4> QED BY <4>1, LeastNumber
    <3>2. i # 1
      BY <2>1 DEF IsRow
    <3>3. i \in 1 .. C /\ i - 1 \in 1 .. C /\ ~(i <= i - 1)
      BY <1>1, <3>2
    <3>4. found[i - 1] = Nth(seq, i - 1)
      BY <3>1, <3>3
    <3> QED BY <1>2, <2>1, <3>2, <3>3, <3>4
  <2> QED BY <2>2
<1>6. {i \in 1 .. C : found[i] # Null} = 1 .. Len(seq)
  <2> HIDE DEF found
  <2>1. ASSUME NEW i \in 1 .. C PROVE found[i] # Null <=> i \in 1 .. Len(seq)
    BY <1>1, <1>5, NodeAssumption DEF Nth
  <2> QED BY <1>1, <2>1
<1>7. GetChildren(t, p) = [k \in {i \in 1 .. C : found[i] # Null} |-> found[k]]
  BY DEF GetChildren, C
<1> HIDE DEF found
<1>8. GetChildren(t, p) = [k \in 1 .. Len(seq) |-> found[k]]
  BY <1>6, <1>7
<1>9. ASSUME NEW k \in 1 .. Len(seq) PROVE found[k] = seq[k]
  BY <1>1, <1>5 DEF Nth
<1>10. seq = [k \in 1 .. Len(seq) |-> seq[k]]
  BY <1>1
<1> QED BY <1>8, <1>9, <1>10

(* The refinement mapping is determined by the links.                      *)
Rows(t) == [n \in Node |-> GetChildren(t, n)]

LEMMA RowsAreListed ==
  ASSUME NEW t, NEW ch, Listed(t, ch)
  PROVE  Rows(t) = ch
<1>1. \A n \in Node : GetChildren(t, n) = ch[n]
  BY GetChildrenCollects DEF Listed
<1>2. ch = [n \in Node |-> ch[n]]
  BY DEF Listed
<1> QED BY <1>1, <1>2 DEF Rows

(* What the trees say about the place of a node: the i-th child of p ...   *)
LEMMA ChildAt ==
  ASSUME NEW t, NEW ch, Listed(t, ch), NEW p \in Node, NEW i \in 1 .. Len(ch[p])
  PROVE  /\ ch[p] \in Seq(Node) /\ Len(ch[p]) \in Nat /\ ch[p][i] \in Node /\ Distinct(ch[p])
         /\ t.parent[ch[p][i]] = p
         /\ t.nextSibling[ch[p][i]] = Nth(ch[p], i + 1)
         /\ t.firstChild[p] = Nth(ch[p], 1)
BY DEF Listed, IsRow

(* ... stands there only.                                                  *)
LEMMA OnePlace ==
  ASSUME NEW t, NEW ch, Listed(t, ch),
         NEW p \in Node, NEW i \in 1 .. Len(ch[p]), NEW q \in Node, NEW j \in 1 .. Len(ch[q]),
         ch[p][i] = ch[q][j]
  PROVE  p = q /\ i = j
<1>1. t.parent[ch[p][i]] = p /\ t.parent[ch[q][j]] = q /\ Distinct(ch[p])
  BY ChildAt
<1> QED BY <1>1 DEF Distinct

(* A row whose links are not touched.                                      *)
LEMMA RowKept ==
  ASSUME NEW t, NEW u, NEW p \in Node, NEW seq, IsRow(t, p, seq),
         u.firstChild[p] = t.firstChild[p],
         \A i \in 1 .. Len(seq) : /\ u.parent[seq[i]] = t.parent[seq[i]]
                                  /\ u.nextSibling[seq[i]] = t.nextSibling[seq[i]]
  PROVE  IsRow(u, p, seq)
BY DEF IsRow

(* Only the row of p changes, ...                                          *)
LEMMA RelistListed ==
  ASSUME NEW t, t \in Trees, NEW ch, Listed(t, ch), NEW u, NEW p \in Node,
         NEW r, IsRow(u, p, r),
         \A q \in Node \ {p} :
           /\ u.firstChild[q] = t.firstChild[q]
           /\ \A i \in 1 .. Len(ch[q]) : /\ u.parent[ch[q][i]] = t.parent[ch[q][i]]
                                         /\ u.nextSibling[ch[q][i]] = t.nextSibling[ch[q][i]],
         \A m \in Node : u.parent[m] # p /\ u.parent[m] # Null => u.parent[m] = t.parent[m],
         \A m \in Node : u.parent[m] = p => \E i \in 1 .. Len(r) : r[i] = m
  PROVE  Listed(u, [ch EXCEPT ![p] = r])
<1> DEFINE new == [ch EXCEPT ![p] = r]
<1>1. /\ new \in [Node -> Seq(Node)] /\ new[p] = r
      /\ \A q \in Node \ {p} : new[q] = ch[q]
  BY DEF Listed, IsRow
<1> HIDE DEF new
<1>2. ASSUME NEW q \in Node PROVE IsRow(u, q, new[q])
  <2>1. CASE q = p
    BY <1>1, <2>1
  <2>2. CASE q # p
    <3>1. IsRow(u, q, ch[q])
      BY <2>2, RowKept DEF Listed
    <3> QED BY <1>1, <2>2, <3>1
  <2> QED BY <2>1, <2>2
<1>3. ASSUME NEW m \in Node, u.parent[m] # Null
      PROVE  \E i \in 1 .. Len(new[u.parent[m]]) : new[u.parent[m]][i] = m
  <2>1. CASE u.parent[m] = p
    BY <1>1, <2>1
  <2>2. CASE u.parent[m] # p
    <3>1. u.parent[m] = t.parent[m] /\ t.parent[m] # Null
      BY <1>3, <2>2
    <3>2. PICK i \in 1 .. Len(ch[t.parent[m]]) : ch[t.parent[m]][i] = m
      BY <3>1 DEF Listed
    <3>3. t.parent[m] \in Node
      BY <3>1
    <3> QED BY <1>1, <2>2, <3>1, <3>2, <3>3
  <2> QED BY <2>1, <2>2
<1> QED BY <1>1, <1>2, <1>3 DEF Listed, new

(* The previous sibling of the i-th child is the one before it.            *)
LEMMA PreviousIsBefore ==
  ASSUME NEW t, Consistent(t), NEW ch, Listed(t, ch), NEW p \in Node, NEW i \in 1 .. Len(ch[p])
  PROVE  /\ t.firstChild[p] = ch[p][i] <=> i = 1
         /\ GetPreviousSibling(t, ch[p][i]) = Nth(ch[p], i - 1)
<1> DEFINE s == ch[p]
           prev == GetPreviousSibling(t, s[i])
<1>1. /\ s \in Seq(Node) /\ Len(s) \in Nat /\ s[i] \in Node /\ Distinct(s)
      /\ t.parent[s[i]] = p /\ t.firstChild[p] = Nth(s, 1)
  BY ChildAt
<1> HIDE DEF s
<1>2. t.firstChild[p] = s[i] <=> i = 1
  BY <1>1 DEF Nth, Distinct, s
<1>3. CASE i = 1
  <2>1. prev = Null /\ Nth(s, i - 1) = Null
    BY <1>1, <1>2, <1>3 DEF GetPreviousSibling, Nth
  <2> QED BY <1>2, <2>1 DEF s
<1>4. CASE i # 1
  <2>1. prev \in Node /\ t.parent[prev] = p /\ t.nextSibling[prev] = s[i]
    BY <1>1, <1>2, <1>4, NodeAssumption, PreviousSibling
  <2> HIDE DEF prev
  <2>2. PICK j \in 1 .. Len(s) : s[j] = prev
    BY <2>1, NodeAssumption DEF Listed, s
  <2>3. t.nextSibling[s[j]] = Nth(s, j + 1)
    BY <2>2, ChildAt DEF s
  <2>4. j + 1 \in 1 .. Len(s) /\ s[j + 1] = s[i]
    BY <1>1, <2>1, <2>2, <2>3, NodeAssumption DEF Nth
  <2>5. j + 1 = i
    BY <1>1, <2>4 DEF Distinct, s
  <2>6. Nth(s, i - 1) = prev
    BY <2>2, <2>5 DEF Nth
  <2> QED BY <1>2, <2>6 DEF s, prev
<1> QED BY <1>3, <1>4

(* RemoveNodeFromCurrentLocation takes n out of its row ...                *)
LEMMA RemoveListed ==
  ASSUME NEW t, Consistent(t), NEW ch, Listed(t, ch),
         NEW p \in Node, NEW k \in 1 .. Len(ch[p]), NEW r, Removed(ch[p], k, r)
  PROVE  Listed(RemoveNodeFromCurrentLocation(t, ch[p][k]), [ch EXCEPT ![p] = r])
<1> DEFINE s == ch[p]
           n == s[k]
           u == RemoveNodeFromCurrentLocation(t, n)
<1>1. /\ s \in Seq(Node) /\ Len(s) \in Nat /\ Distinct(s) /\ n \in Node /\ t.parent[n] = p
      /\ t.nextSibling[n] = Nth(s, k + 1) /\ t.firstChild[p] = Nth(s, 1)
  BY ChildAt
<1>2. (t.firstChild[p] = n <=> k = 1) /\ GetPreviousSibling(t, n) = Nth(s, k - 1)
  BY PreviousIsBefore
<1>3. \A i \in 1 .. Len(s) : /\ s[i] \in Node /\ t.parent[s[i]] = p
                             /\ t.nextSibling[s[i]] = Nth(s, i + 1)
  BY ChildAt
<1>4. /\ \A m \in Node : u.parent[m] = IF m = n THEN Null ELSE t.parent[m]
      /\ \A q \in Node : u.firstChild[q] = IF q = p /\ k = 1 THEN Nth(s, k + 1) ELSE t.firstChild[q]
      /\ \A m \in Node : u.nextSibling[m] = IF m = n THEN Null
                                            ELSE IF m = Nth(s, k - 1) THEN Nth(s, k + 1)
                                            ELSE t.nextSibling[m]
  BY <1>1, <1>2, NodeAssumption DEF RemoveNodeFromCurrentLocation, IsRoot, Assign
<1> HIDE DEF u
<1>a. Removed(s, k, r)
  OBVIOUS
<1>k. k \in 1 .. Len(s)
  OBVIOUS
<1>n. n = s[k]
  OBVIOUS
<1> HIDE DEF s, n
<1>5. r \in Seq(Node) /\ Len(r) \in Nat /\ Len(r) = Len(s) - 1
      /\ \A i \in 1 .. Len(r) : r[i] = IF i < k THEN s[i] ELSE s[i + 1]
  BY <1>a DEF Removed
<1>6. IsRow(u, p, r)
  <2>1. Distinct(r)
    BY <1>1, <1>a, <1>k, RemovedDistinct
  <2>2. u.firstChild[p] = Nth(r, 1)
    <3>1. CASE k = 1
      BY <1>1, <1>4, <1>5, <1>k, <3>1 DEF Nth
    <3>2. CASE k # 1
      <4>1. 1 \in 1 .. Len(s) /\ 1 \in 1 .. Len(r) /\ r[1] = s[1]
        BY <1>1, <1>5, <1>k, <3>2
      <4> QED BY <1>1, <1>4, <3>2, <4>1 DEF Nth
    <3> QED BY <3>1, <3>2
  <2>3. ASSUME NEW i \in 1 .. Len(r)
        PROVE  u.parent[r[i]] = p /\ u.nextSibling[r[i]] = Nth(r, i + 1)
    <3>1. CASE i < k - 1
      <4>1. /\ i \in 1 .. Len(s) /\ i # k /\ i + 1 \in 1 .. Len(s) /\ i + 1 \in 1 .. Len(r)
            /\ k - 1 \in 1 .. Len(s) /\ i # k - 1 /\ i < k /\ i + 1 < k
        BY <1>1, <1>5, <1>k, <3>1
      <4>2. r[i] = s[i] /\ r[i + 1] = s[i + 1]
        BY <1>5, <4>1
      <4>3. s[i] # n
        BY <1>1, <1>k, <1>n, <4>1 DEF Distinct
      <4>4. s[i] # Nth(s, k - 1)
        BY <1>1, <4>1 DEF Distinct, Nth
      <4>5. Nth(s, i + 1) = Nth(r, i + 1)
        BY <4>1, <4>2 DEF Nth
      <4> QED BY <1>3, <1>4, <4>1, <4>2, <4>3, <4>4, <4>5
    <3>2. CASE i = k - 1
      <4>1. i \in 1 .. Len(s) /\ i # k /\ i < k /\ i + 1 = k
        BY <1>1, <1>5, <1>k, <3>2
      <4>2. r[i] = s[i] /\ s[i] # n /\ s[i] = Nth(s, k - 1)
        BY <1>1, <1>5, <1>k, <1>n, <3>2, <4>1 DEF Distinct, Nth
      <4>3. Nth(s, k + 1) = Nth(r, k)
        BY <1>1, <1>5, <1>k DEF Nth
      <4> QED BY <1>3, <1>4, <4>1, <4>2, <4>3
    <3>3. CASE i > k - 1
      <4>1. i + 1 \in 1 .. Len(s) /\ i + 1 # k /\ ~(i < k) /\ i + 1 # k - 1
        BY <1>1, <1>5, <1>k, <3>3
      <4>2. r[i] = s[i + 1] /\ s[i + 1] # n
        BY <1>1, <1>5, <1>k, <1>n, <4>1 DEF Distinct
      <4>3. s[i + 1] # Nth(s, k - 1)
        <5>1. CASE k - 1 \in 1 .. Len(s)
          BY <1>1, <4>1, <5>1 DEF Distinct, Nth
        <5>2. CASE k - 1 \notin 1 .. Len(s)
          BY <1>3, <4>1, <5>2, NodeAssumption DEF Nth
        <5> QED BY <5>1, <5>2
      <4>4. Nth(s, (i + 1) + 1) = Nth(r, i + 1)
        <5>1. CASE i + 1 \in 1 .. Len(r)
          <6>1. ~(i + 1 < k) /\ (i + 1) + 1 \in 1 .. Len(s)
            BY <1>1, <1>5, <1>k, <3>3, <5>1
          <6> QED BY <1>5, <5>1, <6>1 DEF Nth
        <5>2. CASE i + 1 \notin 1 .. Len(r)
          <6>1. (i + 1) + 1 \notin 1 .. Len(s)
            BY <1>1, <1>5, <5>2
          <6> QED BY <5>2, <6>1 DEF Nth
        <5> QED BY <5>1, <5>2
      <4> QED BY <1>3, <1>4, <4>1, <4>2, <4>3, <4>4
    <3> QED BY <1>1, <1>5, <1>k, <3>1, <3>2, <3>3
  <2> QED BY <1>5, <2>1, <2>2, <2>3 DEF IsRow
<1>7. ASSUME NEW q \in Node \ {p}
      PROVE  /\ u.firstChild[q] = t.firstChild[q]
             /\ \A i \in 1 .. Len(ch[q]) : /\ u.parent[ch[q][i]] = t.parent[ch[q][i]]
                                           /\ u.nextSibling[ch[q][i]] = t.nextSibling[ch[q][i]]
  <2>1. u.firstChild[q] = t.firstChild[q]
    BY <1>4
  <2>2. ASSUME NEW i \in 1 .. Len(ch[q])
        PROVE  /\ u.parent[ch[q][i]] = t.parent[ch[q][i]]
               /\ u.nextSibling[ch[q][i]] = t.nextSibling[ch[q][i]]
    <3>1. ch[q][i] \in Node /\ t.parent[ch[q][i]] = q
      BY ChildAt
    <3>2. ch[q][i] # n /\ ch[q][i] # Nth(s, k - 1)
      BY <1>1, <1>3, <3>1, NodeAssumption DEF Nth
    <3> QED BY <1>4, <3>1, <3>2
  <2> QED BY <2>1, <2>2
<1>8. ASSUME NEW m \in Node, u.parent[m] = p PROVE \E i \in 1 .. Len(r) : r[i] = m
  <2>1. m # n /\ t.parent[m] = p
    BY <1>4, <1>8, NodeAssumption
  <2>2. PICK j \in 1 .. Len(s) : s[j] = m
    BY <2>1, NodeAssumption DEF Listed, s
  <2>3. j # k
    BY <1>n, <2>1, <2>2
  <2>4. CASE j < k
    <3>1. j \in 1 .. Len(r) /\ r[j] = s[j]
      BY <1>1, <1>5, <1>k, <2>4
    <3> QED BY <2>2, <3>1
  <2>5. CASE j > k
    <3>1. j - 1 \in 1 .. Len(r) /\ r[j - 1] = s[j]
      BY <1>1, <1>5, <1>k, <2>5
    <3> QED BY <2>2, <3>1
  <2> QED BY <1>1, <1>k, <2>3, <2>4, <2>5
<1>9. \A m \in Node : u.parent[m] # p /\ u.parent[m] # Null => u.parent[m] = t.parent[m]
  BY <1>4
<1>10. Listed(u, [ch EXCEPT ![p] = r])
  BY <1>6, <1>7, <1>8, <1>9, RelistListed DEF Consistent
<1> QED BY <1>10 DEF u, n, s

(* ... and does nothing to a node without parent, which is in no row.      *)
LEMMA RootIsUnlisted ==
  ASSUME NEW t, NEW ch, Listed(t, ch), NEW n \in Node, t.parent[n] = Null,
         NEW p \in Node, NEW i \in 1 .. Len(ch[p])
  PROVE  ch[p][i] # n
BY ChildAt, NodeAssumption

(* The nodes from the k-th child of p on.                                  *)
From(seq, k) == {seq[i] : i \in k .. Len(seq)}

LEMMA RowFrom ==
  ASSUME NEW t, Consistent(t), NEW ch, Listed(t, ch), NEW p \in Node, NEW k \in 1 .. Len(ch[p])
  PROVE  Walk(t.nextSibling, ch[p][k]) = From(ch[p], k)
<1> DEFINE s == ch[p]
           W == Walk(t.nextSibling, s[k])
           T == From(s, k)
<1>1. s \in Seq(Node) /\ Len(s) \in Nat /\ t.nextSibling \in Links
  BY ChildAt DEF Consistent
<1>2. \A i \in 1 .. Len(s) : s[i] \in Node /\ t.nextSibling[s[i]] = Nth(s, i + 1)
  BY ChildAt
<1>k. k \in 1 .. Len(s)
  OBVIOUS
<1> HIDE DEF s
<1>3. W \subseteq T
  <2>1. T \in SUBSET Node
    BY <1>1, <1>2, <1>k DEF From
  <2>2. s[k] \in T
    BY <1>1, <1>k DEF From
  <2>3. ASSUME NEW m \in T PROVE t.nextSibling[m] \in T \cup {Null}
    <3>1. PICK i \in k .. Len(s) : m = s[i]
      BY DEF From
    <3>2. i \in 1 .. Len(s) /\ i + 1 \in Nat /\ i + 1 >= k
      BY <1>1, <1>k
    <3>3. CASE i + 1 \in 1 .. Len(s)
      <4>1. i + 1 \in k .. Len(s)
        BY <1>1, <1>k, <3>2, <3>3
      <4>2. t.nextSibling[m] = s[i + 1]
        BY <1>2, <3>1, <3>2, <3>3 DEF Nth
      <4> QED BY <4>1, <4>2 DEF From
    <3>4. CASE i + 1 \notin 1 .. Len(s)
      BY <1>2, <3>1, <3>2, <3>4 DEF Nth
    <3> QED BY <3>3, <3>4
  <2>4. Closed(t.nextSibling, s[k], T)
    BY <2>2, <2>3 DEF Closed
  <2> HIDE DEF T
  <2> QED BY <2>1, <2>4, WalkLeast
<1>4. T \subseteq W
  <2>1. Closed(t.nextSibling, s[k], W) /\ s[k] \in Node
    BY <1>1, <1>2, <1>k, WalkClosed
  <2> HIDE DEF W
  <2> DEFINE Bad == {i \in k .. Len(s) : s[i] \notin W}
  <2>2. Bad = {}
    <3> SUFFICES ASSUME Bad # {} PROVE FALSE
      OBVIOUS
    <3>1. PICK i \in Bad : \A j \in Bad : i <= j
      <4>1. Bad \subseteq Nat
        BY <1>1, <1>k
      <4> HIDE DEF Bad
      <4> QED BY <4>1, LeastNumber
    <3>2. i # k
      BY <2>1, NodeAssumption DEF Closed
    <3>3. i \in 1 .. Len(s) /\ i - 1 \in k .. Len(s) /\ i - 1 \in 1 .. Len(s) /\ ~(i <= i - 1)
          /\ (i - 1) + 1 = i
      BY <1>1, <1>k, <3>2
    <3>4. s[i - 1] \in W
      BY <3>1, <3>3
    <3>5. t.nextSibling[s[i - 1]] = s[i] /\ s[i] # Null
      BY <1>2, <3>3, NodeAssumption DEF Nth
    <3> QED BY <2>1, <3>4, <3>5 DEF Closed
  <2> QED BY <2>2 DEF From
<1> QED BY <1>3, <1>4 DEF s

(* RemoveNodeAndAllNextSiblingsFromParent cuts the row before n.           *)
Cut(seq, k, r) ==
  r \in Seq(Node) /\ Len(r) = k - 1 /\ \A i \in 1 .. k - 1 : r[i] = seq[i]

LEMMA RemoveRowListed ==
  ASSUME NEW t, Consistent(t), NEW ch, Listed(t, ch),
         NEW p \in Node, NEW k \in 1 .. Len(ch[p]), NEW r, Cut(ch[p], k, r)
  PROVE  Listed(RemoveNodeAndAllNextSiblingsFromParent(t, ch[p][k]), [ch EXCEPT ![p] = r])
<1> DEFINE s == ch[p]
           n == s[k]
           u == RemoveNodeAndAllNextSiblingsFromParent(t, n)
<1>1. /\ s \in Seq(Node) /\ Len(s) \in Nat /\ Distinct(s) /\ n \in Node /\ t.parent[n] = p
      /\ t.nextSibling[n] = Nth(s, k + 1) /\ t.firstChild[p] = Nth(s, 1)
  BY ChildAt
<1>2. /\ t.firstChild[p] = n <=> k = 1
      /\ GetPreviousSibling(t, n) = Nth(s, k - 1)
      /\ Walk(t.nextSibling, n) = From(s, k)
  BY PreviousIsBefore, RowFrom
<1>3. \A i \in 1 .. Len(s) : /\ s[i] \in Node /\ t.parent[s[i]] = p
                             /\ t.nextSibling[s[i]] = Nth(s, i + 1)
  BY ChildAt
<1>4. /\ \A m \in Node : u.parent[m] = IF m \in From(s, k) THEN Null ELSE t.parent[m]
      /\ \A q \in Node : u.firstChild[q] = IF q = p /\ k = 1 THEN Null ELSE t.firstChild[q]
      /\ \A m \in Node : u.nextSibling[m] = IF m \in From(s, k) \cup {Nth(s, k - 1)}
                                              THEN Null ELSE t.nextSibling[m]
  BY <1>1, <1>2, NodeAssumption DEF RemoveNodeAndAllNextSiblingsFromParent
<1> HIDE DEF u
<1>a. Cut(s, k, r)
  OBVIOUS
<1>k. k \in 1 .. Len(s)
  OBVIOUS
<1> HIDE DEF s, n
<1>5. r \in Seq(Node) /\ Len(r) = k - 1 /\ \A i \in 1 .. k - 1 : r[i] = s[i]
  BY <1>a DEF Cut
<1>6. ASSUME NEW i \in 1 .. k - 1 PROVE i \in 1 .. Len(s) /\ i < k /\ s[i] \notin From(s, k)
  <2>1. i \in 1 .. Len(s) /\ i < k /\ i \notin k .. Len(s)
    BY <1>1, <1>k
  <2>2. \A j \in k .. Len(s) : j \in 1 .. Len(s) /\ j # i
    BY <1>1, <1>k, <2>1
  <2> QED BY <1>1, <2>1, <2>2 DEF From, Distinct
<1>7. IsRow(u, p, r)
  <2>1. Distinct(r)
    BY <1>1, <1>5, <1>6 DEF Distinct
  <2>2. u.firstChild[p] = Nth(r, 1)
    <3>1. CASE k = 1
      BY <1>4, <1>5, <3>1 DEF Nth
    <3>2. CASE k # 1
      <4>1. 1 \in 1 .. Len(s) /\ 1 \in 1 .. k - 1
        BY <1>1, <1>k, <3>2
      <4> QED BY <1>1, <1>4, <1>5, <3>2, <4>1 DEF Nth
    <3> QED BY <3>1, <3>2
  <2>3. ASSUME NEW i \in 1 .. Len(r)
        PROVE  u.parent[r[i]] = p /\ u.nextSibling[r[i]] = Nth(r, i + 1)
    <3>1. i \in 1 .. Len(s) /\ i < k /\ r[i] = s[i] /\ s[i] \notin From(s, k)
      BY <1>5, <1>6
    <3>2. CASE i = k - 1
      <4>1. s[i] = Nth(s, k - 1) /\ Nth(r, i + 1) = Null
        BY <1>5, <3>1, <3>2 DEF Nth
      <4> QED BY <1>3, <1>4, <3>1, <4>1
    <3>3. CASE i # k - 1
      <4>1. /\ i + 1 \in 1 .. Len(s) /\ i + 1 \in 1 .. k - 1 /\ k - 1 \in 1 .. Len(s)
        BY <1>1, <1>k, <3>1, <3>3
      <4>2. s[i] # Nth(s, k - 1)
        BY <1>1, <3>1, <3>3, <4>1 DEF Distinct, Nth
      <4>3. Nth(s, i + 1) = Nth(r, i + 1)
        BY <1>5, <4>1 DEF Nth
      <4> QED BY <1>3, <1>4, <3>1, <4>2, <4>3
    <3> QED BY <3>2, <3>3
  <2> QED BY <1>5, <2>1, <2>2, <2>3 DEF IsRow
<1>8. ASSUME NEW q \in Node \ {p}
      PROVE  /\ u.firstChild[q] = t.firstChild[q]
             /\ \A i \in 1 .. Len(ch[q]) : /\ u.parent[ch[q][i]] = t.parent[ch[q][i]]
                                           /\ u.nextSibling[ch[q][i]] = t.nextSibling[ch[q][i]]
  <2>1. u.firstChild[q] = t.firstChild[q]
    BY <1>4
  <2>2. ASSUME NEW i \in 1 .. Len(ch[q])
        PROVE  /\ u.parent[ch[q][i]] = t.parent[ch[q][i]]
               /\ u.nextSibling[ch[q][i]] = t.nextSibling[ch[q][i]]
    <3>1. ch[q][i] \in Node /\ t.parent[ch[q][i]] = q
      BY ChildAt
    <3>2. ch[q][i] # Nth(s, k - 1)
      BY <1>3, <3>1, NodeAssumption DEF Nth
    <3>3. ch[q][i] \notin From(s, k)
      <4>1. \A j \in k .. Len(s) : j \in 1 .. Len(s)
        BY <1>1, <1>k
      <4> QED BY <1>3, <3>1, <4>1 DEF From
    <3> QED BY <1>4, <3>1, <3>2, <3>3
  <2> QED BY <2>1, <2>2
<1>9. ASSUME NEW m \in Node, u.parent[m] = p PROVE \E i \in 1 .. Len(r) : r[i] = m
  <2>1. m \notin From(s, k) /\ t.parent[m] = p
    BY <1>4, <1>9, NodeAssumption
  <2>2. PICK j \in 1 .. Len(s) : s[j] = m
    BY <2>1, NodeAssumption DEF Listed, s
  <2>3. j \notin k .. Len(s)
    BY <2>1, <2>2 DEF From
  <2>4. j \in 1 .. k - 1
    BY <1>1, <1>k, <2>3
  <2> QED BY <1>5, <2>2, <2>4
<1>10. \A m \in Node : u.parent[m] # p /\ u.parent[m] # Null => u.parent[m] = t.parent[m]
  BY <1>4
<1>11. Listed(u, [ch EXCEPT ![p] = r])
  BY <1>7, <1>8, <1>9, <1>10, RelistListed DEF Consistent
<1> QED BY <1>11 DEF u, n, s

(* InsertNodeAtNewLocation puts n, which has no parent, at the k-th place. *)
LEMMA InsertListed ==
  ASSUME NEW t, Consistent(t), NEW ch, Listed(t, ch), NEW n \in Node, t.parent[n] = Null,
         NEW p \in Node, NEW k \in 1 .. Len(ch[p]) + 1, NEW r, Inserted(ch[p], k, n, r)
  PROVE  Listed(InsertNodeAtNewLocation(t, n, p, Nth(ch[p], k)), [ch EXCEPT ![p] = r])
<1> DEFINE s == ch[p]
           next == Nth(s, k)
           prev == IF next = Null THEN GetLastChild(t, p) ELSE GetPreviousSibling(t, next)
           u == InsertNodeAtNewLocation(t, n, p, next)
<1>1. s \in Seq(Node) /\ Len(s) \in Nat /\ Distinct(s) /\ t.firstChild[p] = Nth(s, 1)
  BY DEF Listed, IsRow
<1>2. \A i \in 1 .. Len(s) : /\ s[i] \in Node /\ t.parent[s[i]] = p /\ s[i] # n
                             /\ t.nextSibling[s[i]] = Nth(s, i + 1)
  BY ChildAt, NodeAssumption
<1>a. Inserted(s, k, n, r)
  OBVIOUS
<1>k. k \in 1 .. Len(s) + 1
  OBVIOUS
<1> HIDE DEF s
<1>3. next \in NodeOrNull /\ (next # Null => t.parent[next] = p)
  BY <1>2 DEF Nth
<1>4. t.firstChild[p] = next <=> k = 1
  BY <1>1, <1>2, <1>k, NodeAssumption DEF Nth, Distinct
<1>5. ASSUME k # 1 PROVE prev = s[k - 1] /\ k - 1 \in 1 .. Len(s)
  <2>1. ~InsertDereferencesNull(t, p, next)
    BY <1>3, InsertSafe
  <2>2. prev \in Node /\ t.parent[prev] = p /\ t.nextSibling[prev] = next
    <3> HIDE DEF next
    <3> QED BY <1>3, <1>4, <1>5, <2>1, InsertPlace
  <2> HIDE DEF prev
  <2>3. PICK j \in 1 .. Len(s) : s[j] = prev
    BY <2>2, NodeAssumption DEF Listed, s
  <2>4. Nth(s, j + 1) = Nth(s, k)
    BY <1>2, <2>2, <2>3
  <2>5. j + 1 = k
    <3>1. CASE k \in 1 .. Len(s)
      <4>1. j + 1 \in 1 .. Len(s) /\ s[j + 1] = s[k]
        BY <1>2, <2>4, <3>1, NodeAssumption DEF Nth
      <4> QED BY <1>1, <3>1, <4>1 DEF Distinct
    <3>2. CASE k \notin 1 .. Len(s)
      <4>1. j + 1 \notin 1 .. Len(s)
        BY <1>2, <2>4, <3>2, NodeAssumption DEF Nth
      <4> QED BY <1>1, <1>k, <3>2, <4>1
    <3> QED BY <3>1, <3>2
  <2> QED BY <1>1, <2>3, <2>5
<1>6. /\ \A m \in Node : u.parent[m] = IF m = n THEN p ELSE t.parent[m]
      /\ \A q \in Node : u.firstChild[q] = IF q = p /\ k = 1 THEN n ELSE t.firstChild[q]
      /\ \A m \in Node : u.nextSibling[m] = IF m = n THEN next
                                            ELSE IF k # 1 /\ m = s[k - 1] THEN n
                                            ELSE t.nextSibling[m]
  <2>1. CASE k = 1
    BY <1>4, <2>1 DEF InsertNodeAtNewLocation, Assign
  <2>2. CASE k # 1
    BY <1>4, <1>5, <2>2 DEF InsertNodeAtNewLocation, Assign
  <2> QED BY <2>1, <2>2
<1> HIDE DEF u
<1>7. r \in Seq(Node) /\ Len(r) = Len(s) + 1
      /\ \A i \in 1 .. Len(r) : r[i] = IF i < k THEN s[i] ELSE IF i = k THEN n ELSE s[i - 1]
  BY <1>a DEF Inserted
<1>8. IsRow(u, p, r)
  <2>1. Distinct(r)
    <3> SUFFICES ASSUME NEW i \in 1 .. Len(r), NEW j \in 1 .. Len(r), r[i] = r[j] PROVE i = j
      BY DEF Distinct
    <3> DEFINE a == IF i < k THEN i ELSE i - 1
               b == IF j < k THEN j ELSE j - 1
    <3>1. i # k => a \in 1 .. Len(s) /\ r[i] = s[a]
      BY <1>1, <1>7, <1>k
    <3>2. j # k => b \in 1 .. Len(s) /\ r[j] = s[b]
      BY <1>1, <1>7, <1>k
    <3>3. (i = k => r[i] = n) /\ (j = k => r[j] = n)
      BY <1>7, <1>k
    <3>4. CASE i = k \/ j = k
      <4> HIDE DEF a, b
      <4> QED BY <1>2, <3>1, <3>2, <3>3, <3>4
    <3>5. CASE i # k /\ j # k
      <4>1. a = b
        <5> HIDE DEF a, b
        <5> QED BY <1>1, <3>1, <3>2, <3>5 DEF Distinct
      <4> QED BY <1>k, <3>5, <4>1
    <3> QED BY <3>4, <3>5
  <2>2. u.firstChild[p] = Nth(r, 1)
    <3>1. CASE k = 1
      BY <1>1, <1>6, <1>7, <3>1 DEF Nth
    <3>2. CASE k # 1
      <4>1. 1 \in 1 .. Len(s) /\ 1 \in 1 .. Len(r) /\ r[1] = s[1]
        BY <1>1, <1>7, <1>k, <3>2
      <4> QED BY <1>1, <1>6, <3>2, <4>1 DEF Nth
    <3> QED BY <3>1, <3>2
  <2>3. ASSUME NEW i \in 1 .. Len(r)
        PROVE  u.parent[r[i]] = p /\ u.nextSibling[r[i]] = Nth(r, i + 1)
    <3>1. CASE i < k - 1
      <4>1. /\ i \in 1 .. Len(s) /\ i + 1 \in 1 .. Len(s) /\ i + 1 \in 1 .. Len(r)
            /\ k - 1 \in 1 .. Len(s) /\ i # k - 1 /\ i < k /\ i + 1 < k
        BY <1>1, <1>7, <1>k, <3>1
      <4>2. r[i] = s[i] /\ r[i + 1] = s[i + 1]
        BY <1>7, <4>1
      <4>3. s[i] # s[k - 1]
        BY <1>1, <4>1 DEF Distinct
      <4>4. Nth(s, i + 1) = Nth(r, i + 1)
        BY <4>1, <4>2 DEF Nth
      <4>5. s[i] \in Node /\ s[i] # n /\ t.parent[s[i]] = p /\ t.nextSibling[s[i]] = Nth(s, i + 1)
        BY <1>2, <4>1
      <4> HIDE DEF next
      <4> QED BY <1>6, <4>2, <4>3, <4>4, <4>5
    <3>2. CASE i = k - 1
      <4>1. /\ i \in 1 .. Len(s) /\ i + 1 \in 1 .. Len(r) /\ i + 1 = k /\ i < k /\ k # 1
        BY <1>1, <1>7, <1>k, <3>2
      <4>2. r[i] = s[k - 1] /\ r[i + 1] = n
        BY <1>7, <3>2, <4>1
      <4>3. Nth(r, i + 1) = n
        BY <4>1, <4>2 DEF Nth
      <4> QED BY <1>2, <1>6, <3>2, <4>1, <4>2, <4>3
    <3>3. CASE i = k
      <4>1. r[i] = n
        BY <1>7, <1>k, <3>3
      <4>2. Nth(r, i + 1) = Nth(s, k)
        <5>1. CASE i + 1 \in 1 .. Len(r)
          <6>1. ~(i + 1 < k) /\ i + 1 # k /\ (i + 1) - 1 = k /\ k \in 1 .. Len(s)
            BY <1>1, <1>7, <1>k, <3>3, <5>1
          <6> QED BY <1>7, <5>1, <6>1 DEF Nth
        <5>2. CASE i + 1 \notin 1 .. Len(r)
          <6>1. k \notin 1 .. Len(s)
            BY <1>1, <1>7, <3>3, <5>2
          <6> QED BY <5>2, <6>1 DEF Nth
        <5> QED BY <5>1, <5>2
      <4> QED BY <1>6, <4>1, <4>2
    <3>4. CASE i > k
      <4>1. i - 1 \in 1 .. Len(s) /\ ~(i < k) /\ i # k /\ i - 1 # k - 1
        BY <1>1, <1>7, <1>k, <3>4
      <4>2. r[i] = s[i - 1]
        BY <1>7, <4>1
      <4>3. k # 1 => s[i - 1] # s[k - 1]
        BY <1>1, <1>5, <4>1 DEF Distinct
      <4>4. Nth(r, i + 1) = Nth(s, (i - 1) + 1)
        <5>1. CASE i + 1 \in 1 .. Len(r)
          <6>1. ~(i + 1 < k) /\ i + 1 # k /\ (i + 1) - 1 = i /\ (i - 1) + 1 = i /\ i \in 1 .. Len(s)
            BY <1>1, <1>7, <1>k, <3>4, <5>1
          <6> QED BY <1>7, <5>1, <6>1 DEF Nth
        <5>2. CASE i + 1 \notin 1 .. Len(r)
          <6>1. (i - 1) + 1 \notin 1 .. Len(s)
            BY <1>1, <1>7, <5>2
          <6> QED BY <5>2, <6>1 DEF Nth
        <5> QED BY <5>1, <5>2
      <4>5. s[i - 1] \in Node /\ s[i - 1] # n /\ t.parent[s[i - 1]] = p
            /\ t.nextSibling[s[i - 1]] = Nth(s, (i - 1) + 1)
        BY <1>2, <4>1
      <4> HIDE DEF next
      <4> QED BY <1>6, <4>2, <4>3, <4>4, <4>5
    <3> QED BY <1>1, <1>7, <1>k, <3>1, <3>2, <3>3, <3>4
  <2> QED BY <1>7, <2>1, <2>2, <2>3 DEF IsRow
<1>9. ASSUME NEW q \in Node \ {p}
      PROVE  /\ u.firstChild[q] = t.firstChild[q]
             /\ \A i \in 1 .. Len(ch[q]) : /\ u.parent[ch[q][i]] = t.parent[ch[q][i]]
                                           /\ u.nextSibling[ch[q][i]] = t.nextSibling[ch[q][i]]
  <2>1. u.firstChild[q] = t.firstChild[q]
    BY <1>6
  <2>2. ASSUME NEW i \in 1 .. Len(ch[q])
        PROVE  /\ u.parent[ch[q][i]] = t.parent[ch[q][i]]
               /\ u.nextSibling[ch[q][i]] = t.nextSibling[ch[q][i]]
    <3>1. ch[q][i] \in Node /\ t.parent[ch[q][i]] = q /\ ch[q][i] # n
      BY ChildAt, NodeAssumption
    <3>2. k # 1 => ch[q][i] # s[k - 1]
      BY <1>2, <1>5, <3>1
    <3> QED BY <1>6, <3>1, <3>2
  <2> QED BY <2>1, <2>2
<1>10. ASSUME NEW m \in Node, u.parent[m] = p PROVE \E i \in 1 .. Len(r) : r[i] = m
  <2>1. CASE m = n
    <3>1. k \in 1 .. Len(r) /\ r[k] = n
      BY <1>7, <1>k
    <3> QED BY <2>1, <3>1
  <2>2. CASE m # n
    <3>1. t.parent[m] = p
      BY <1>6, <1>10, <2>2
    <3>2. PICK j \in 1 .. Len(s) : s[j] = m
      BY <3>1, NodeAssumption DEF Listed, s
    <3>3. CASE j < k
      <4>1. j \in 1 .. Len(r) /\ r[j] = s[j]
        BY <1>1, <1>7, <1>k, <3>3
      <4> QED BY <3>2, <4>1
    <3>4. CASE ~(j < k)
      <4>1. j + 1 \in 1 .. Len(r) /\ ~(j + 1 < k) /\ j + 1 # k /\ (j + 1) - 1 = j
        BY <1>1, <1>7, <1>k, <3>4
      <4>2. r[j + 1] = s[j]
        BY <1>7, <4>1
      <4> QED BY <3>2, <4>1, <4>2
    <3> QED BY <3>3, <3>4
  <2> QED BY <2>1, <2>2
<1>11. \A m \in Node : u.parent[m] # p /\ u.parent[m] # Null => u.parent[m] = t.parent[m]
  BY <1>6
<1>12. Listed(u, [ch EXCEPT ![p] = r])
  BY <1>8, <1>9, <1>10, <1>11, RelistListed DEF Consistent
<1> QED BY <1>12 DEF u, s

(* At the end of a call the trees lose the nodes that are destroyed; the   *)
(* row of a survivor survives.                                             *)
Surviving(ch, X) == [n \in Node |-> IF n \in X THEN ch[n] ELSE <<>>]

LEMMA PruneListed ==
  ASSUME NEW t, t \in Trees, NEW ch, Listed(t, ch), NEW X \in SUBSET Node,
         \A n \in X : {t.firstChild[n], t.nextSibling[n]} \subseteq X \cup {Null}
  PROVE  /\ Listed(Prune(t, X), Surviving(ch, X))
         /\ \A n \in X : \A i \in 1 .. Len(ch[n]) : ch[n][i] \in X
<1> DEFINE u == Prune(t, X)
           new == Surviving(ch, X)
<1>1. ASSUME NEW p \in X PROVE \A i \in 1 .. Len(ch[p]) : ch[p][i] \in X
  <2> DEFINE s == ch[p]
             Bad == {i \in 1 .. Len(s) : s[i] \notin X}
  <2>1. s \in Seq(Node) /\ Len(s) \in Nat /\ t.firstChild[p] = Nth(s, 1)
    BY DEF Listed, IsRow
  <2>2. \A i \in 1 .. Len(s) : s[i] \in Node /\ t.nextSibling[s[i]] = Nth(s, i + 1)
    BY ChildAt
  <2> HIDE DEF s
  <2>3. Bad = {}
    <3> SUFFICES ASSUME Bad # {} PROVE FALSE
      OBVIOUS
    <3>1. PICK i \in Bad : \A j \in Bad : i <= j
      <4>1. Bad \subseteq Nat
        BY <2>1
      <4> HIDE DEF Bad
      <4> QED BY <4>1, LeastNumber
    <3>2. i # 1
      BY <2>1, <2>2, NodeAssumption DEF Nth
    <3>3. i - 1 \in 1 .. Len(s) /\ ~(i <= i - 1) /\ (i - 1) + 1 = i /\ i \in 1 .. Len(s)
      BY <2>1, <3>2
    <3>4. s[i - 1] \in X
      BY <3>1, <3>3
    <3>5. t.nextSibling[s[i - 1]] = s[i] /\ s[i] # Null
      BY <2>2, <3>3, NodeAssumption DEF Nth
    <3> QED BY <3>4, <3>5
  <2> QED BY <2>3 DEF s
<1>2. /\ \A m \in Node : u.parent[m] = IF m \in X /\ t.parent[m] \in X THEN t.parent[m] ELSE Null
      /\ \A m \in Node : u.firstChild[m] = IF m \in X THEN t.firstChild[m] ELSE Null
      /\ \A m \in Node : u.nextSibling[m] = IF m \in X THEN t.nextSibling[m] ELSE Null
  BY DEF Prune
<1>3. /\ ch \in [Node -> Seq(Node)]
      /\ \A p \in X : new[p] = ch[p]
      /\ \A p \in Node \ X : new[p] = <<>>
      /\ new \in [Node -> Seq(Node)]
  BY DEF Listed, Surviving
<1> HIDE DEF u, new
<1>4. ASSUME NEW p \in Node PROVE IsRow(u, p, new[p])
  <2>1. CASE p \in X
    <3>1. IsRow(t, p, ch[p])
      BY DEF Listed
    <3>2. u.firstChild[p] = t.firstChild[p]
      BY <1>2, <2>1
    <3>3. ASSUME NEW i \in 1 .. Len(ch[p])
          PROVE  /\ u.parent[ch[p][i]] = t.parent[ch[p][i]]
                 /\ u.nextSibling[ch[p][i]] = t.nextSibling[ch[p][i]]
      <4>1. ch[p][i] \in Node /\ ch[p][i] \in X /\ t.parent[ch[p][i]] = p
        BY <1>1, <2>1, ChildAt
      <4> QED BY <1>2, <2>1, <4>1
    <3>4. IsRow(u, p, ch[p])
      BY <3>1, <3>2, <3>3, RowKept
    <3> QED BY <1>3, <2>1, <3>4
  <2>2. CASE p \notin X
    <3>1. new[p] = <<>> /\ u.firstChild[p] = Null
      BY <1>2, <1>3, <2>2
    <3> QED BY <3>1 DEF IsRow, Distinct, Nth
  <2> QED BY <2>1, <2>2
<1>5. ASSUME NEW m \in Node, u.parent[m] # Null
      PROVE  \E i \in 1 .. Len(new[u.parent[m]]) : new[u.parent[m]][i] = m
  <2>1. t.parent[m] \in X /\ u.parent[m] = t.parent[m]
    BY <1>2, <1>5
  <2>2. \E i \in 1 .. Len(ch[t.parent[m]]) : ch[t.parent[m]][i] = m
    BY <1>5, <2>1 DEF Listed
  <2> QED BY <1>3, <2>1, <2>2
<1>6. Listed(u, new)
  BY <1>3, <1>4, <1>5 DEF Listed
<1> QED BY <1>1, <1>6 DEF u, new

(* The end of a call in terms of the ordered trees ch it has built.        *)
LEMMA SettleRows ==
  ASSUME NEW t, NEW A \in SUBSET Node, Linked(t, A), NEW h \in SUBSET A, NEW r \in A \cup {Null},
         NEW ch, Listed(t, ch), Settle(t, A, h, r)
  PROVE  /\ Listed(tree', Rows(tree')) /\ Rows(tree') = Surviving(ch, alive')
         /\ alive' \in SUBSET A /\ h \subseteq alive' /\ r \in alive' \cup {Null}
         /\ held' = h /\ rootNode' = r /\ status' = status
         /\ \A n \in alive' : Forest!ToSet(ch[n]) \subseteq alive'
<1> DEFINE X == Survivors(t, A, h \cup {r})
<1>1. /\ X \in SUBSET A /\ (h \cup {r}) \cap A \subseteq X
      /\ \A n \in X : {t.firstChild[n], t.nextSibling[n]} \subseteq X \cup {Null}
  BY SurvivorsClosed
<1>2. alive' = X /\ tree' = Prune(t, X) /\ held' = h /\ rootNode' = r /\ status' = status
  BY DEF Settle
<1> HIDE DEF X
<1>3. /\ Listed(tree', Surviving(ch, X))
      /\ \A n \in X : \A i \in 1 .. Len(ch[n]) : ch[n][i] \in X
  BY <1>1, <1>2, PruneListed DEF Linked
<1>4. Rows(tree') = Surviving(ch, X)
  BY <1>3, RowsAreListed
<1>5. \A n \in X : Forest!ToSet(ch[n]) \subseteq X
  <2> SUFFICES ASSUME NEW n \in X PROVE Forest!ToSet(ch[n]) \subseteq X
    OBVIOUS
  <2>1. ch[n] \in Seq(Node)
    BY <1>1 DEF Listed
  <2> QED BY <1>3, <2>1 DEF Forest!ToSet
<1>6. h \subseteq X /\ r \in X \cup {Null}
  BY <1>1
<1> QED BY <1>1, <1>2, <1>3, <1>4, <1>5, <1>6

(* A call that only unlinks and relinks nodes that exist.                  *)
LEMMA SettleBecomes ==
  ASSUME alive \in SUBSET Node, NEW t, Linked(t, alive),
         NEW h \in SUBSET alive, NEW r \in alive \cup {Null},
         NEW ch, Listed(t, ch), Settle(t, alive, h, r)
  PROVE  /\ Listed(tree', Rows(tree')) /\ Forest!Become(ch)
         /\ held' = h /\ rootNode' = r /\ status' = status
<1>1. /\ Listed(tree', Rows(tree')) /\ Rows(tree') = Surviving(ch, alive')
      /\ alive' \in SUBSET alive /\ h \subseteq alive' /\ r \in alive' \cup {Null}
      /\ held' = h /\ rootNode' = r /\ status' = status
      /\ \A n \in alive' : Forest!ToSet(ch[n]) \subseteq alive'
  BY SettleRows
<1>2. [n \in Node |-> GetChildren(tree', n)] = [n \in Node |-> IF n \in alive' THEN ch[n] ELSE <<>>]
  BY <1>1 DEF Rows, Surviving
<1>3. Forest!Become(ch)
  BY <1>1, <1>2 DEF Forest!Become
<1> QED BY <1>1, <1>3

(* The sequence operators of OrderedForest.                                *)
LEMMA PlaceOf ==
  ASSUME NEW s \in Seq(Node), Distinct(s), NEW i \in 1 .. Len(s)
  PROVE  Forest!Place(s, s[i]) = i
<1>1. DOMAIN s = 1 .. Len(s)
  OBVIOUS
<1>2. \A j \in DOMAIN s : s[j] = s[i] => j = i
  BY <1>1 DEF Distinct
<1> QED BY <1>1, <1>2 DEF Forest!Place

(* What Before and After return, by length and elements.                   *)
LEMMA AroundPlace ==
  ASSUME NEW s \in Seq(Node), Distinct(s), NEW i \in 1 .. Len(s)
  PROVE  /\ Forest!Before(s, s[i]) \in Seq(Node) /\ Len(Forest!Before(s, s[i])) = i - 1
         /\ \A j \in 1 .. i - 1 : Forest!Before(s, s[i])[j] = s[j]
         /\ Forest!After(s, s[i]) \in Seq(Node) /\ Len(Forest!After(s, s[i])) = Len(s) - i
         /\ \A j \in 1 .. Len(s) - i : Forest!After(s, s[i])[j] = s[j + i]
<1> DEFINE n == Len(s)
<1>1. Forest!Before(s, s[i]) = SubSeq(s, 1, i - 1) /\ Forest!After(s, s[i]) = SubSeq(s, i + 1, n)
  BY PlaceOf DEF Forest!Before, Forest!After
<1>2. n \in Nat /\ i \in 1 .. n
  OBVIOUS
<1>3. SubSeq(s, 1, i - 1) \in Seq(Node) /\ Len(SubSeq(s, 1, i - 1)) = i - 1
      /\ \A j \in 1 .. i - 1 : SubSeq(s, 1, i - 1)[j] = s[j]
  <2>1. 1 .. i - 1 \subseteq 1 .. n
    BY <1>2
  <2>2. \A j \in 1 .. i - 1 : s[j] \in Node
    BY <2>1
  <2> QED BY <1>2, <2>1, <2>2
<1>4. SubSeq(s, i + 1, n) \in Seq(Node) /\ Len(SubSeq(s, i + 1, n)) = n - i
      /\ \A j \in 1 .. n - i : SubSeq(s, i + 1, n)[j] = s[j + i]
  <2> HIDE DEF n
  <2>1. i + 1 \in Int /\ n \in Int /\ \A j \in i + 1 .. n : j \in 1 .. n
    BY <1>2
  <2>2. \A j \in i + 1 .. n : s[j] \in Node
    BY <2>1 DEF n
  <2>3. /\ SubSeq(s, i + 1, n) \in Seq(Node)
        /\ Len(SubSeq(s, i + 1, n)) = IF i + 1 <= n THEN n - (i + 1) + 1 ELSE 0
        /\ \A j \in 1 .. n - (i + 1) + 1 : SubSeq(s, i + 1, n)[j] = s[(i + 1) + j - 1]
    BY <2>1, <2>2, SubSeqProperties
  <2>4. /\ n - (i + 1) + 1 = n - i /\ (~(i + 1 <= n) => n - i = 0)
        /\ \A j \in 1 .. n - i : (i + 1) + j - 1 = j + i
    BY <1>2
  <2> QED BY <2>3, <2>4
<1> QED BY <1>1, <1>3, <1>4

(* The elements of a concatenation.                                        *)
LEMMA Concatenated ==
  ASSUME NEW a \in Seq(Node), NEW b \in Seq(Node), NEW x, Len(a) = x, NEW y, Len(b) = y
  PROVE  /\ a \o b \in Seq(Node) /\ Len(a \o b) = x + y
         /\ \A i \in 1 .. x + y : (a \o b)[i] = IF i <= x THEN a[i] ELSE b[i - x]
BY ConcatProperties

(* Without takes out the only element that equals n, ...                   *)
LEMMA WithoutRemoves ==
  ASSUME NEW s \in Seq(Node), Distinct(s), NEW k \in 1 .. Len(s)
  PROVE  Removed(s, k, Forest!Without(s, s[k]))
<1> DEFINE a == Forest!Before(s, s[k])
           b == Forest!After(s, s[k])
           r == a \o b
<1>1. Forest!Without(s, s[k]) = r
  BY DEF Forest!Without, Forest!Contains
<1>2. /\ a \in Seq(Node) /\ Len(a) = k - 1 /\ \A j \in 1 .. k - 1 : a[j] = s[j]
      /\ b \in Seq(Node) /\ Len(b) = Len(s) - k /\ \A j \in 1 .. Len(s) - k : b[j] = s[j + k]
  BY AroundPlace
<1> HIDE DEF a, b
<1>3. /\ r \in Seq(Node) /\ Len(r) = (k - 1) + (Len(s) - k)
      /\ \A i \in 1 .. (k - 1) + (Len(s) - k) : r[i] = IF i <= k - 1 THEN a[i] ELSE b[i - (k - 1)]
  <2> DEFINE x == k - 1
             y == Len(s) - k
  <2>1. a \in Seq(Node) /\ b \in Seq(Node) /\ Len(a) = x /\ Len(b) = y
    BY <1>2
  <2> HIDE DEF x, y
  <2>2. r \in Seq(Node) /\ Len(r) = x + y
        /\ \A i \in 1 .. x + y : r[i] = IF i <= x THEN a[i] ELSE b[i - x]
    BY <2>1, Concatenated
  <2> QED BY <2>2 DEF x, y
<1> HIDE DEF r
<1>4. Len(s) \in Nat /\ Len(r) = Len(s) - 1
  BY <1>3
<1>5. ASSUME NEW i \in 1 .. Len(r) PROVE r[i] = IF i < k THEN s[i] ELSE s[i + 1]
  <2>1. i \in 1 .. (k - 1) + (Len(s) - k)
    BY <1>3
  <2>2. CASE i < k
    <3>1. i <= k - 1 /\ i \in 1 .. k - 1
      BY <1>4, <2>2
    <3> QED BY <1>2, <1>3, <2>1, <2>2, <3>1
  <2>3. CASE ~(i < k)
    <3>1. ~(i <= k - 1) /\ i - (k - 1) \in 1 .. Len(s) - k /\ (i - (k - 1)) + k = i + 1
      BY <1>4, <2>3
    <3> QED BY <1>2, <1>3, <2>1, <2>3, <3>1
  <2> QED BY <2>2, <2>3
<1> QED BY <1>1, <1>3, <1>4, <1>5 DEF Removed

(* ... and leaves a row as it is in which n does not occur.                *)
LEMMA WithoutAbsent ==
  ASSUME NEW s, NEW n, \A i \in 1 .. Len(s) : s[i] # n
  PROVE  Forest!Without(s, n) = s
BY DEF Forest!Without, Forest!Contains

(* Append puts n behind the last element.                                  *)
LEMMA AppendInserts ==
  ASSUME NEW s \in Seq(Node), NEW n \in Node
  PROVE  Inserted(s, Len(s) + 1, n, Append(s, n))
<1>1. Append(s, n) \in Seq(Node) /\ Len(Append(s, n)) = Len(s) + 1 /\ Len(s) \in Nat
  OBVIOUS
<1>2. \A i \in 1 .. Len(s) : Append(s, n)[i] = s[i]
  OBVIOUS
<1>3. Append(s, n)[Len(s) + 1] = n
  OBVIOUS
<1>4. ASSUME NEW i \in 1 .. Len(s) + 1
      PROVE  Append(s, n)[i] = IF i < Len(s) + 1 THEN s[i] ELSE IF i = Len(s) + 1 THEN n ELSE s[i - 1]
  <2>1. CASE i = Len(s) + 1
    <3>1. ~(i < Len(s) + 1)
      BY <1>1, <2>1
    <3> QED BY <1>3, <2>1, <3>1
  <2>2. CASE i # Len(s) + 1
    <3>1. i \in 1 .. Len(s) /\ i < Len(s) + 1
      BY <1>1, <2>2
    <3> QED BY <1>2, <3>1
  <2> QED BY <2>1, <2>2
<1> QED BY <1>1, <1>4 DEF Inserted

(* n and the k-th element in the place of the k-th element.                *)
LEMMA PairInserts ==
  ASSUME NEW s \in Seq(Node), Distinct(s), NEW k \in 1 .. Len(s), NEW n \in Node
  PROVE  Inserted(s, k, n, Forest!Before(s, s[k]) \o <<n, s[k]>> \o Forest!After(s, s[k]))
<1> DEFINE a == Forest!Before(s, s[k])
           b == Forest!After(s, s[k])
           c == a \o <<n, s[k]>>
           r == c \o b
<1>1. /\ a \in Seq(Node) /\ Len(a) = k - 1 /\ \A j \in 1 .. k - 1 : a[j] = s[j]
      /\ b \in Seq(Node) /\ Len(b) = Len(s) - k /\ \A j \in 1 .. Len(s) - k : b[j] = s[j + k]
  BY AroundPlace
<1> HIDE DEF a, b
<1>2. <<n, s[k]>> \in Seq(Node) /\ Len(<<n, s[k]>>) = 2 /\ <<n, s[k]>>[1] = n /\ <<n, s[k]>>[2] = s[k]
  OBVIOUS
<1>3. /\ c \in Seq(Node) /\ Len(c) = (k - 1) + 2
      /\ \A i \in 1 .. (k - 1) + 2 : c[i] = IF i <= k - 1 THEN a[i] ELSE <<n, s[k]>>[i - (k - 1)]
  <2> DEFINE x == k - 1
             y == 2
             two == <<n, s[k]>>
  <2>1. a \in Seq(Node) /\ two \in Seq(Node) /\ Len(a) = x /\ Len(two) = y
    BY <1>1, <1>2
  <2> HIDE DEF x, y, two
  <2>2. a \o two \in Seq(Node) /\ Len(a \o two) = x + y
        /\ \A i \in 1 .. x + y : (a \o two)[i] = IF i <= x THEN a[i] ELSE two[i - x]
    BY <2>1, Concatenated
  <2> QED BY <2>2 DEF x, y, two
<1> HIDE DEF c
<1>4. /\ r \in Seq(Node) /\ Len(r) = ((k - 1) + 2) + (Len(s) - k)
      /\ \A i \in 1 .. ((k - 1) + 2) + (Len(s) - k) :
           r[i] = IF i <= (k - 1) + 2 THEN c[i] ELSE b[i - ((k - 1) + 2)]
  <2> DEFINE x == (k - 1) + 2
             y == Len(s) - k
  <2>1. c \in Seq(Node) /\ b \in Seq(Node) /\ Len(c) = x /\ Len(b) = y
    BY <1>1, <1>3
  <2> HIDE DEF x, y
  <2>2. r \in Seq(Node) /\ Len(r) = x + y
        /\ \A i \in 1 .. x + y : r[i] = IF i <= x THEN c[i] ELSE b[i - x]
    BY <2>1, Concatenated
  <2> QED BY <2>2 DEF x, y
<1> HIDE DEF r
<1>5. Len(s) \in Nat /\ Len(r) = Len(s) + 1
  BY <1>4
<1>6. ASSUME NEW i \in 1 .. Len(r)
      PROVE  r[i] = IF i < k THEN s[i] ELSE IF i = k THEN n ELSE s[i - 1]
  <2>1. i \in 1 .. ((k - 1) + 2) + (Len(s) - k)
    BY <1>4
  <2>2. CASE i < k
    <3>1. i <= k - 1 /\ i \in 1 .. k - 1 /\ i <= (k - 1) + 2 /\ i \in 1 .. (k - 1) + 2
      BY <1>5, <2>2
    <3> QED BY <1>1, <1>3, <1>4, <2>1, <2>2, <3>1
  <2>3. CASE i = k
    <3>1. ~(i <= k - 1) /\ i <= (k - 1) + 2 /\ i \in 1 .. (k - 1) + 2 /\ i - (k - 1) = 1 /\ ~(i < k)
      BY <1>5, <2>3
    <3> QED BY <1>2, <1>3, <1>4, <2>1, <2>3, <3>1
  <2>4. CASE i = k + 1
    <3>1. ~(i <= k - 1) /\ i <= (k - 1) + 2 /\ i \in 1 .. (k - 1) + 2 /\ i - (k - 1) = 2
          /\ ~(i < k) /\ i # k /\ i - 1 = k
      BY <1>5, <2>4
    <3> QED BY <1>2, <1>3, <1>4, <2>1, <3>1
  <2>5. CASE i > k + 1
    <3>1. ~(i <= (k - 1) + 2) /\ i - ((k - 1) + 2) \in 1 .. Len(s) - k
          /\ (i - ((k - 1) + 2)) + k = i - 1 /\ ~(i < k) /\ i # k
      BY <1>5, <2>5
    <3> QED BY <1>1, <1>4, <2>1, <3>1
  <2> QED BY <1>5, <2>2, <2>3, <2>4, <2>5
<1> QED BY <1>4, <1>5, <1>6 DEF Inserted, r, c, a, b

(* n in the place of the k-th element: what is left when n was inserted    *)
(* before that and that is removed.                                        *)
LEMMA ReplaceRemoves ==
  ASSUME NEW s \in Seq(Node), Distinct(s), NEW k \in 1 .. Len(s), NEW n \in Node,
         NEW q, Inserted(s, k, n, q)
  PROVE  Removed(q, k + 1, Forest!Before(s, s[k]) \o <<n>> \o Forest!After(s, s[k]))
<1> DEFINE a == Forest!Before(s, s[k])
           b == Forest!After(s, s[k])
           c == a \o <<n>>
           r == c \o b
<1>1. /\ a \in Seq(Node) /\ Len(a) = k - 1 /\ \A j \in 1 .. k - 1 : a[j] = s[j]
      /\ b \in Seq(Node) /\ Len(b) = Len(s) - k /\ \A j \in 1 .. Len(s) - k : b[j] = s[j + k]
  BY AroundPlace
<1> HIDE DEF a, b
<1>2. <<n>> \in Seq(Node) /\ Len(<<n>>) = 1 /\ <<n>>[1] = n
  OBVIOUS
<1>3. /\ c \in Seq(Node) /\ Len(c) = (k - 1) + 1
      /\ \A i \in 1 .. (k - 1) + 1 : c[i] = IF i <= k - 1 THEN a[i] ELSE <<n>>[i - (k - 1)]
  BY <1>1, <1>2, Concatenated
<1> HIDE DEF c
<1>4. /\ r \in Seq(Node) /\ Len(r) = ((k - 1) + 1) + (Len(s) - k)
      /\ \A i \in 1 .. ((k - 1) + 1) + (Len(s) - k) :
           r[i] = IF i <= (k - 1) + 1 THEN c[i] ELSE b[i - ((k - 1) + 1)]
  <2> DEFINE x == (k - 1) + 1
             y == Len(s) - k
  <2>1. c \in Seq(Node) /\ b \in Seq(Node) /\ Len(c) = x /\ Len(b) = y
    BY <1>1, <1>3
  <2> HIDE DEF x, y
  <2>2. r \in Seq(Node) /\ Len(r) = x + y
        /\ \A i \in 1 .. x + y : r[i] = IF i <= x THEN c[i] ELSE b[i - x]
    BY <2>1, Concatenated
  <2> QED BY <2>2 DEF x, y
<1> HIDE DEF r
<1>5. q \in Seq(Node) /\ Len(s) \in Nat /\ Len(q) = Len(s) + 1 /\ Len(r) = Len(s)
      /\ \A i \in 1 .. Len(s) + 1 : q[i] = IF i < k THEN s[i] ELSE IF i = k THEN n ELSE s[i - 1]
  <2>1. q \in Seq(Node) /\ Len(s) \in Nat /\ Len(q) = Len(s) + 1
    BY DEF Inserted
  <2>2. Len(r) = Len(s)
    BY <1>4, <2>1
  <2>3. \A i \in 1 .. Len(q) : q[i] = IF i < k THEN s[i] ELSE IF i = k THEN n ELSE s[i - 1]
    BY DEF Inserted
  <2> QED BY <2>1, <2>2, <2>3
<1>6. ASSUME NEW i \in 1 .. Len(r) PROVE r[i] = IF i < k + 1 THEN q[i] ELSE q[i + 1]
  <2>1. i \in 1 .. ((k - 1) + 1) + (Len(s) - k) /\ i \in 1 .. Len(s) + 1 /\ i + 1 \in 1 .. Len(s) + 1
    BY <1>5
  <2>2. CASE i < k
    <3>1. i <= k - 1 /\ i \in 1 .. k - 1 /\ i <= (k - 1) + 1 /\ i \in 1 .. (k - 1) + 1 /\ i < k + 1
      BY <1>5, <2>2
    <3>2. r[i] = s[i]
      BY <1>1, <1>3, <1>4, <2>1, <3>1
    <3> QED BY <1>5, <2>1, <2>2, <3>1, <3>2
  <2>3. CASE i = k
    <3>1. ~(i <= k - 1) /\ i <= (k - 1) + 1 /\ i \in 1 .. (k - 1) + 1 /\ i - (k - 1) = 1
          /\ ~(i < k) /\ i < k + 1
      BY <1>5, <2>3
    <3>2. r[i] = n
      BY <1>2, <1>3, <1>4, <2>1, <3>1
    <3> QED BY <1>5, <2>1, <2>3, <3>1, <3>2
  <2>4. CASE i > k
    <3>1. ~(i <= (k - 1) + 1) /\ i - ((k - 1) + 1) \in 1 .. Len(s) - k
          /\ (i - ((k - 1) + 1)) + k = i /\ ~(i < k + 1) /\ ~(i + 1 < k) /\ i + 1 # k /\ (i + 1) - 1 = i
      BY <1>5, <2>4
    <3>2. r[i] = s[i]
      BY <1>1, <1>4, <2>1, <3>1
    <3> QED BY <1>5, <2>1, <3>1, <3>2
  <2> QED BY <1>5, <2>2, <2>3, <2>4
<1>7. r \in Seq(Node) /\ Len(r) = Len(q) - 1
  BY <1>4, <1>5
<1> QED BY <1>6, <1>7 DEF Removed, r, c, a, b

(* RemoveNodeFromCurrentLocation is Detach.                                *)
LEMMA RemoveDetaches ==
  ASSUME NEW t, Consistent(t), NEW ch, Listed(t, ch), NEW n \in Node
  PROVE  Listed(RemoveNodeFromCurrentLocation(t, n), Forest!Detach(ch, n))
<1>1. ch \in [Node -> Seq(Node)] /\ ch = [p \in Node |-> ch[p]]
  BY DEF Listed
<1>2. CASE t.parent[n] = Null
  <2>1. ASSUME NEW p \in Node PROVE Forest!Without(ch[p], n) = ch[p]
    BY <1>2, RootIsUnlisted, WithoutAbsent
  <2>2. Forest!Detach(ch, n) = ch
    BY <1>1, <2>1 DEF Forest!Detach
  <2>3. RemoveNodeFromCurrentLocation(t, n) = t
    BY <1>2 DEF RemoveNodeFromCurrentLocation, IsRoot
  <2> QED BY <2>2, <2>3
<1>3. CASE t.parent[n] # Null
  <2> DEFINE p == t.parent[n]
             r == Forest!Without(ch[p], n)
  <2>1. p \in Node
    BY <1>3 DEF Consistent
  <2>2. PICK k \in 1 .. Len(ch[p]) : ch[p][k] = n
    BY <1>3 DEF Listed
  <2> HIDE DEF p
  <2>3. ch[p] \in Seq(Node) /\ Distinct(ch[p])
    BY <2>1 DEF Listed, IsRow
  <2>4. Removed(ch[p], k, r)
    BY <2>2, <2>3, WithoutRemoves
  <2>5. ASSUME NEW q \in Node, q # p PROVE Forest!Without(ch[q], n) = ch[q]
    <3>1. \A i \in 1 .. Len(ch[q]) : ch[q][i] # n
      BY <2>1, <2>2, <2>5, OnePlace
    <3> QED BY <3>1, WithoutAbsent
  <2> HIDE DEF r
  <2>6. Listed(RemoveNodeFromCurrentLocation(t, n), [ch EXCEPT ![p] = r])
    BY <2>1, <2>2, <2>4, RemoveListed
  <2>7. Forest!Detach(ch, n) = [ch EXCEPT ![p] = r]
    BY <1>1, <2>1, <2>5 DEF Forest!Detach, r
  <2> QED BY <2>6, <2>7
<1> QED BY <1>2, <1>3

-----------------------------------------------------------------------------
(* The refinement.  Its invariant says that the links make up ordered      *)
(* trees, the ones that GetChildren returns.                               *)
ForestInv == MemoryInv /\ Listed(tree, Rows(tree))

(* What the proofs of the steps may rely on.                               *)
LEMMA ForestKnown ==
  ASSUME ForestInv
  PROVE  /\ alive \in SUBSET Node /\ held \in SUBSET alive /\ rootNode \in alive \cup {Null}
         /\ Linked(tree, alive) /\ Consistent(tree) /\ tree \in Trees
         /\ tree.parent \in Links /\ tree.firstChild \in Links /\ tree.nextSibling \in Links
         /\ Listed(tree, Rows(tree)) /\ Rows(tree) \in [Node -> Seq(Node)]
         /\ [n \in Node |-> GetChildren(tree, n)] = Rows(tree)
<1>1. TreeInv /\ Listed(tree, Rows(tree))
  BY DEF ForestInv, MemoryInv
<1>2. Rows(tree) \in [Node -> Seq(Node)]
  BY <1>1 DEF Listed
<1>3. Linked(tree, alive) /\ Consistent(tree) /\ tree \in Trees
  BY <1>1, TypeOKLinked DEF TreeInv, Sound, Linked
<1> QED BY <1>1, <1>2, <1>3, TypeOKLinked, LinksKnown DEF TreeInv, Rows

(* A node that is no ancestor of n is not above n in the ordered trees.    *)
LEMMA NotBelow ==
  ASSUME ForestInv, NEW n \in Node, NEW c \in Node, ~IsAncestorOf(tree, c, n)
  PROVE  n \notin Forest!Below(c)
<1> DEFINE S == {m \in Node : c \in Walk(tree.parent, tree.parent[m])}
           ch == Rows(tree)
           kids == [k \in Node |-> Forest!ToSet(ch[k])]
<1>1. /\ Listed(tree, ch) /\ tree.parent \in Links /\ ch \in [Node -> Seq(Node)]
      /\ [k \in Node |-> GetChildren(tree, k)] = ch
  BY ForestKnown
<1> HIDE DEF ch
<1>2. ASSUME NEW k \in Node, NEW m \in kids[k] PROVE m \in Node /\ tree.parent[m] = k
  <2>1. m \in Forest!ToSet(ch[k]) /\ ch[k] \in Seq(Node)
    BY <1>1, <1>2
  <2>2. PICK i \in 1 .. Len(ch[k]) : m = ch[k][i]
    BY <2>1 DEF Forest!ToSet
  <2> QED BY <1>1, <2>2, ChildAt
<1>3. ASSUME NEW k \in Node, k = c \/ k \in S PROVE kids[k] \subseteq S
  <2>1. c \in Walk(tree.parent, k)
    <3>1. Walk(tree.parent, k) \in SUBSET Node /\ Closed(tree.parent, k, Walk(tree.parent, k))
      BY <1>1, WalkClosed
    <3>2. k \in Walk(tree.parent, k)
      BY <3>1, NodeAssumption DEF Closed
    <3>3. Closed(tree.parent, tree.parent[k], Walk(tree.parent, k))
      BY <3>1, <3>2 DEF Closed
    <3>4. Walk(tree.parent, tree.parent[k]) \subseteq Walk(tree.parent, k)
      BY <3>1, <3>3, WalkLeast
    <3> QED BY <1>3, <3>2, <3>4
  <2> QED BY <1>2, <2>1
<1>4. n \notin S
  BY DEF IsAncestorOf, Ancestors
<1>5. S \in SUBSET Node /\ kids[c] \subseteq S /\ \A k \in S : kids[k] \subseteq S
  BY <1>3
<1>6. [k \in Node |-> Forest!ToSet([j \in Node |-> GetChildren(tree, j)][k])] = kids
  BY <1>1
<1> HIDE DEF S, kids
<1>7. Forest!Below(c) = {m \in Node : \A T \in SUBSET Node :
         kids[c] \subseteq T /\ (\A k \in T : kids[k] \subseteq T) => m \in T}
  BY <1>6 DEF Forest!Below
<1> QED BY <1>4, <1>5, <1>7

(* The abstract step of a call: it was called and the trees are ch, ...    *)
Step(c, ch) == Forest!Called(c) /\ Forest!Become(ch)

(* ... or nothing changes, because the call ended in undefined behaviour.  *)
Stutter == UNCHANGED <<alive, held, rootNode, tree, call>>

(* The end of a call that has built the links t, which are the trees ch:   *)
(* the call has done what Step says, or it has ended in undefined          *)
(* behaviour.                                                              *)
LEMMA FinishSteps ==
  ASSUME ForestInv, status = "defined", NEW t, Linked(t, alive), NEW ch, NEW cut, NEW null,
         ~null => Listed(t, ch), Finish(t, cut, null), NEW c, Returned(c)
  PROVE  /\ Listed(tree', Rows(tree'))
         /\ (Step(c, ch) /\ ~null) \/ Stutter
<1>1. CASE Settle(t, alive, held, rootNode) /\ ~null
  <2>1. /\ Listed(tree', Rows(tree')) /\ Forest!Become(ch)
        /\ held' = held /\ rootNode' = rootNode /\ status' = status
    BY <1>1, ForestKnown, SettleBecomes
  <2>2. Step(c, ch)
    BY <2>1 DEF Step, Forest!Called, Returned
  <2> QED BY <1>1, <2>1, <2>2
<1>2. CASE Crash("use after free") \/ Crash("null dereference")
  <2>1. Stutter
    BY <1>2 DEF Crash, Returned, Stutter
  <2>2. Rows(tree') = Rows(tree)
    BY <2>1 DEF Stutter
  <2> QED BY <2>1, <2>2, ForestKnown DEF Stutter
<1> QED BY <1>1, <1>2 DEF Finish

(* MoveNode puts c behind all children of n or before the child next; with *)
(* next = c it uses a null pointer.                                        *)
MovedRow(ch, c, n, next) ==
  IF next = Null THEN Append(ch[n], c)
  ELSE Forest!Before(ch[n], next) \o <<c, next>> \o Forest!After(ch[n], next)

(* The place of next among the children of n in the trees ch.              *)
LEMMA InsertMoves ==
  ASSUME NEW t, Consistent(t), NEW ch, Listed(t, ch), NEW c \in Node, t.parent[c] = Null,
         NEW n \in Node, NEW next \in NodeOrNull, next # Null => t.parent[next] = n
  PROVE  Listed(InsertNodeAtNewLocation(t, c, n, next),
                Forest!Relist(ch, n, MovedRow(ch, c, n, next)))
<1> DEFINE s == ch[n]
           r == MovedRow(ch, c, n, next)
<1>1. s \in Seq(Node) /\ Distinct(s) /\ Len(s) \in Nat
  BY DEF Listed, IsRow
<1>2. PICK k \in 1 .. Len(s) + 1 : Nth(s, k) = next /\ Inserted(s, k, c, r)
  <2>1. CASE next = Null
    <3>1. Nth(s, Len(s) + 1) = Null /\ Len(s) + 1 \in 1 .. Len(s) + 1
      BY <1>1 DEF Nth
    <3>2. Inserted(s, Len(s) + 1, c, r)
      BY <1>1, <2>1, AppendInserts DEF MovedRow
    <3> QED BY <2>1, <3>1, <3>2
  <2>2. CASE next # Null
    <3>1. PICK k \in 1 .. Len(s) : s[k] = next
      BY <2>2, NodeAssumption DEF Listed
    <3>2. Inserted(s, k, c, r)
      <4>1. Inserted(s, k, c, Forest!Before(s, s[k]) \o <<c, s[k]>> \o Forest!After(s, s[k]))
        BY <1>1, PairInserts
      <4> QED BY <2>2, <3>1, <4>1 DEF MovedRow
    <3>3. Nth(s, k) = next /\ k \in 1 .. Len(s) + 1
      BY <1>1, <3>1 DEF Nth
    <3> QED BY <3>2, <3>3
  <2> QED BY <2>1, <2>2
<1> HIDE DEF r
<1>3. Listed(InsertNodeAtNewLocation(t, c, n, Nth(s, k)), [ch EXCEPT ![n] = r])
  BY <1>2, InsertListed
<1> QED BY <1>2, <1>3 DEF Forest!Relist, r

(* A call that moves c to the children of n, before next.                  *)
LEMMA MoveSteps ==
  ASSUME ForestInv, status = "defined", NEW c \in held, NEW n \in held,
         NEW next \in held \cup {Null}, next # Null => tree.parent[next] = n,
         MoveNode(c, n, next), NEW op, Returned(op)
  PROVE  LET ch == Forest!Detach(Rows(tree), c)
         IN  /\ Listed(tree', Rows(tree'))
             /\ \/ Step(op, Forest!Relist(ch, n, MovedRow(ch, c, n, next))) /\ next # c
                \/ Stutter
<1> DEFINE t == RemoveNodeFromCurrentLocation(tree, c)
           u == InsertNodeAtNewLocation(t, c, n, next)
           ch == Forest!Detach(Rows(tree), c)
           new == Forest!Relist(ch, n, MovedRow(ch, c, n, next))
           null == RemoveDereferencesNull(tree, c) \/ InsertDereferencesNull(t, n, next)
<1>1. /\ alive \in SUBSET Node /\ held \in SUBSET alive /\ Linked(tree, alive)
      /\ Consistent(tree) /\ tree.parent \in Links /\ Listed(tree, Rows(tree))
  BY ForestKnown
<1>2. Linked(t, alive) /\ Consistent(t) /\ t.parent = Assign(tree.parent, c, Null) /\ Listed(t, ch)
  BY <1>1, RemoveLinked, RemoveConsistent, RemoveDetaches
<1>3. Finish(u, FALSE, null)
  BY DEF MoveNode
<1> HIDE DEF t, ch
<1>4. t.parent[c] = Null /\ (next # Null /\ next # c => t.parent[next] = n)
  BY <1>1, <1>2 DEF Assign
<1>5. Linked(u, alive)
  BY <1>1, <1>2, InsertLinked
<1>6. ASSUME ~null PROVE next # c
  <2> SUFFICES ASSUME next = c PROVE FALSE
    OBVIOUS
  <2>1. t.firstChild[n] # c
    BY <1>1, <1>2, <1>4, NodeAssumption DEF Consistent, FirstChildIsChild
  <2>2. GetPreviousSibling(t, c) = Null
    BY <1>4 DEF GetPreviousSibling, IsRoot
  <2> QED BY <1>1, <1>6, <2>1, <2>2, NodeAssumption DEF InsertDereferencesNull
<1>7. ASSUME ~null PROVE Listed(u, new)
  BY <1>1, <1>2, <1>4, <1>6, <1>7, InsertMoves
<1> HIDE DEF u, new, null
<1>8. /\ Listed(tree', Rows(tree'))
      /\ (Step(op, new) /\ ~null) \/ Stutter
  BY <1>3, <1>5, <1>7, FinishSteps
<1> QED BY <1>6, <1>8 DEF new, ch

(* Each call is the operation of its name on the ordered trees, or ends    *)
(* in undefined behaviour.  AppendChild:                                   *)
LEMMA AppendChildSteps ==
  ASSUME ForestInv, status = "defined", NEW n \in Node, NEW c \in NodeOrNull,
         AppendChild(n, c), Returned(<<"AppendChild", n, c>>)
  PROVE  Listed(tree', Rows(tree')) /\ ((c \in Node /\ Forest!AppendChild(n, c)) \/ Stutter)
<1> DEFINE ch == Forest!Detach(Rows(tree), c)
           op == <<"AppendChild", n, c>>
<1>1. n \in held /\ c \in held /\ n # c /\ ~IsAncestorOf(tree, c, n) /\ MoveNode(c, n, Null)
  BY DEF AppendChild
<1>2. c \in Node /\ [m \in Node |-> GetChildren(tree, m)] = Rows(tree)
  BY <1>1, ForestKnown
<1>3. Listed(tree', Rows(tree')) /\ (Step(op, Forest!Relist(ch, n, MovedRow(ch, c, n, Null))) \/ Stutter)
  BY <1>1, MoveSteps
<1>4. n \notin Forest!Below(c)
  BY <1>1, <1>2, NotBelow
<1>5. MovedRow(ch, c, n, Null) = Append(ch[n], c)
  BY DEF MovedRow
<1>6. ASSUME Step(op, Forest!Relist(ch, n, Append(ch[n], c))) PROVE Forest!AppendChild(n, c)
  BY <1>1, <1>2, <1>4, <1>6 DEF Forest!AppendChild, Step
<1> QED BY <1>2, <1>3, <1>5, <1>6

(* The call of InsertChild.                                                *)
LEMMA InsertChildSteps ==
  ASSUME ForestInv, status = "defined", NEW n \in Node, NEW c \in NodeOrNull, NEW ref \in NodeOrNull,
         InsertChild(n, c, ref), Returned(<<"InsertChild", n, c, ref>>)
  PROVE  Listed(tree', Rows(tree')) /\ ((c \in Node /\ Forest!InsertChild(n, c, ref)) \/ Stutter)
<1> DEFINE ch == Forest!Detach(Rows(tree), c)
           op == <<"InsertChild", n, c, ref>>
           new == Forest!Relist(ch, n, MovedRow(ch, c, n, ref))
<1>1. /\ n \in held /\ c \in held /\ ref \in held \cup {Null} /\ n # c
      /\ ref # Null => tree.parent[ref] = n
      /\ ~IsAncestorOf(tree, c, n) /\ MoveNode(c, n, ref)
  BY DEF InsertChild
<1>2. c \in Node /\ [m \in Node |-> GetChildren(tree, m)] = Rows(tree) /\ Listed(tree, Rows(tree))
  BY <1>1, ForestKnown
<1>3. Listed(tree', Rows(tree')) /\ ((Step(op, new) /\ ref # c) \/ Stutter)
  BY <1>1, MoveSteps
<1>4. n \notin Forest!Below(c)
  BY <1>1, <1>2, NotBelow
<1>5. ref # Null => n \in Forest!Parent(ref)
  <2> SUFFICES ASSUME ref # Null PROVE n \in Forest!Parent(ref)
    OBVIOUS
  <2>1. \E i \in 1 .. Len(Rows(tree)[n]) : Rows(tree)[n][i] = ref
    BY <1>1, <1>2, NodeAssumption DEF Listed
  <2> QED BY <1>2, <2>1 DEF Forest!Parent, Forest!Contains
<1>6. ASSUME Step(op, new), ref # c PROVE Forest!InsertChild(n, c, ref)
  <2>1. CASE ref = Null
    BY <1>1, <1>2, <1>4, <1>6, <2>1 DEF Forest!InsertChild, Step, MovedRow
  <2>2. CASE ref # Null
    BY <1>1, <1>2, <1>4, <1>5, <1>6, <2>2 DEF Forest!InsertChild, Step, MovedRow
  <2> QED BY <2>1, <2>2
<1> QED BY <1>2, <1>3, <1>6

(* The call of SetParent.                                                  *)
LEMMA SetParentSteps ==
  ASSUME ForestInv, status = "defined", NEW n \in Node, NEW p \in NodeOrNull,
         SetParent(n, p), Returned(<<"SetParent", n, p>>)
  PROVE  /\ Listed(tree', Rows(tree'))
         /\ \/ p \in Node /\ Forest!SetParent(n, p)
            \/ Forest!ClearParent(n)
            \/ Stutter
<1> DEFINE ch == Forest!Detach(Rows(tree), n)
           op == <<"SetParent", n, p>>
<1>1. n \in held /\ p \in held \cup {Null} /\ n # p /\ (p # Null => ~IsAncestorOf(tree, n, p))
  BY DEF SetParent
<1>2. /\ [m \in Node |-> GetChildren(tree, m)] = Rows(tree) /\ held \in SUBSET Node
      /\ Linked(tree, alive) /\ Consistent(tree) /\ alive \in SUBSET Node /\ Listed(tree, Rows(tree))
  BY ForestKnown
<1>3. CASE p = Null
  <2> DEFINE u == RemoveNodeFromCurrentLocation(tree, n)
             null == RemoveDereferencesNull(tree, n)
  <2>1. Finish(u, FALSE, null)
    BY <1>3 DEF SetParent
  <2>2. Linked(u, alive) /\ Listed(u, ch)
    BY <1>2, RemoveLinked, RemoveDetaches
  <2> HIDE DEF u, null, ch
  <2>3. Listed(tree', Rows(tree')) /\ (Step(op, ch) \/ Stutter)
    BY <2>1, <2>2, FinishSteps
  <2>4. ASSUME Step(op, ch) PROVE Forest!ClearParent(n)
    BY <1>2, <1>3, <2>4 DEF Forest!ClearParent, Step, ch
  <2> QED BY <2>3, <2>4
<1>4. CASE p # Null
  <2>1. MoveNode(n, p, Null) /\ p \in Node /\ p \in held
    BY <1>1, <1>2, <1>4 DEF SetParent
  <2>2. Listed(tree', Rows(tree')) /\ (Step(op, Forest!Relist(ch, p, MovedRow(ch, n, p, Null))) \/ Stutter)
    BY <1>1, <2>1, MoveSteps
  <2>3. p \notin Forest!Below(n)
    BY <1>1, <1>4, <2>1, NotBelow
  <2>4. MovedRow(ch, n, p, Null) = Append(ch[p], n)
    BY DEF MovedRow
  <2>5. ASSUME Step(op, Forest!Relist(ch, p, Append(ch[p], n))) PROVE Forest!SetParent(n, p)
    BY <1>1, <1>2, <2>3, <2>5 DEF Forest!SetParent, Step
  <2> QED BY <2>1, <2>2, <2>4, <2>5
<1> QED BY <1>3, <1>4

(* The call of RemoveChild.                                                *)
LEMMA RemoveChildSteps ==
  ASSUME ForestInv, status = "defined", NEW n \in Node, NEW c \in NodeOrNull,
         RemoveChild(n, c), Returned(<<"RemoveChild", n, c>>)
  PROVE  Listed(tree', Rows(tree')) /\ ((c \in Node /\ Forest!RemoveChild(n, c)) \/ Stutter)
<1> DEFINE ch == Forest!Detach(Rows(tree), c)
           op == <<"RemoveChild", n, c>>
           u == RemoveNodeFromCurrentLocation(tree, c)
           null == RemoveDereferencesNull(tree, c)
<1>1. c \in held /\ tree.parent[c] = n /\ Finish(u, FALSE, null)
  BY DEF RemoveChild
<1>2. /\ [m \in Node |-> GetChildren(tree, m)] = Rows(tree) /\ c \in Node
      /\ Linked(tree, alive) /\ Consistent(tree) /\ alive \in SUBSET Node /\ Listed(tree, Rows(tree))
  BY <1>1, ForestKnown
<1>3. Linked(u, alive) /\ Listed(u, ch)
  BY <1>2, RemoveLinked, RemoveDetaches
<1> HIDE DEF u, null, ch
<1>4. Listed(tree', Rows(tree')) /\ (Step(op, ch) \/ Stutter)
  BY <1>1, <1>3, FinishSteps
<1>5. n \in Forest!Parent(c)
  <2>1. \E i \in 1 .. Len(Rows(tree)[n]) : Rows(tree)[n][i] = c
    BY <1>1, <1>2, NodeAssumption DEF Listed
  <2> QED BY <1>2, <2>1 DEF Forest!Parent, Forest!Contains
<1>6. ASSUME Step(op, ch) PROVE Forest!RemoveChild(n, c)
  BY <1>2, <1>5, <1>6 DEF Forest!RemoveChild, Step, ch
<1> QED BY <1>2, <1>4, <1>6

(* ReplaceChild puts new before old and takes old out.                     *)
LEMMA ReplaceChildSteps ==
  ASSUME ForestInv, status = "defined", NEW n \in Node, NEW new \in NodeOrNull, NEW old \in NodeOrNull,
         ReplaceChild(n, new, old), Returned(<<"ReplaceChild", n, new, old>>)
  PROVE  /\ Listed(tree', Rows(tree'))
         /\ (new \in Node /\ old \in Node /\ Forest!ReplaceChild(n, new, old)) \/ Stutter
<1> DEFINE t1 == RemoveNodeFromCurrentLocation(tree, new)
           t2 == InsertNodeAtNewLocation(t1, new, n, old)
           t3 == RemoveNodeFromCurrentLocation(t2, old)
           null == \/ RemoveDereferencesNull(tree, new)
                   \/ InsertDereferencesNull(t1, n, old)
                   \/ RemoveDereferencesNull(t2, old)
           ch == Forest!Detach(Rows(tree), new)
           s == ch[n]
           r == Forest!Before(s, old) \o <<new>> \o Forest!After(s, old)
           op == <<"ReplaceChild", n, new, old>>
<1>0. /\ alive \in SUBSET Node /\ held \in SUBSET alive /\ Linked(tree, alive) /\ Consistent(tree)
      /\ tree.parent \in Links /\ Listed(tree, Rows(tree))
      /\ [m \in Node |-> GetChildren(tree, m)] = Rows(tree)
  BY ForestKnown
<1>1. /\ n # new /\ new # old /\ n \in alive /\ new \in alive /\ old \in alive /\ tree.parent[old] = n
      /\ ~IsAncestorOf(tree, new, n) /\ Finish(t3, FALSE, null)
  BY <1>0 DEF ReplaceChild
<1>2. new \in Node /\ old \in Node
  BY <1>0, <1>1
<1>3. /\ Linked(t1, alive) /\ Consistent(t1) /\ Listed(t1, ch)
      /\ t1.parent = Assign(tree.parent, new, Null)
  BY <1>0, <1>1, <1>2, RemoveLinked, RemoveConsistent, RemoveDetaches
<1> HIDE DEF t1
<1>4. t1.parent[new] = Null /\ t1.parent[old] = n
  BY <1>0, <1>1, <1>2, <1>3 DEF Assign
<1>5. ~InsertDereferencesNull(t1, n, old)
  BY <1>2, <1>3, <1>4, InsertSafe
<1>6. Linked(t2, alive) /\ Consistent(t2)
  BY <1>0, <1>1, <1>2, <1>3, <1>4, <1>5, InsertLinked, InsertConsistent
<1> HIDE DEF t2
<1>7. Linked(t3, alive)
  BY <1>0, <1>2, <1>6, RemoveLinked
<1> HIDE DEF ch
<1>8. s \in Seq(Node) /\ Distinct(s) /\ Len(s) \in Nat /\ ch \in [Node -> Seq(Node)]
  BY <1>3 DEF Listed, IsRow
<1>9. PICK k \in 1 .. Len(s) : s[k] = old
  BY <1>2, <1>3, <1>4, NodeAssumption DEF Listed
<1>10. Listed(t3, [ch EXCEPT ![n] = r])
  <2> DEFINE q == Forest!Before(s, s[k]) \o <<new, s[k]>> \o Forest!After(s, s[k])
             ch2 == [ch EXCEPT ![n] = q]
  <2>1. Inserted(s, k, new, q)
    BY <1>2, <1>8, <1>9, PairInserts
  <2>2. Removed(q, k + 1, r)
    <3> HIDE DEF q
    <3>1. Removed(q, k + 1, Forest!Before(s, s[k]) \o <<new>> \o Forest!After(s, s[k]))
      BY <1>2, <1>8, <2>1, ReplaceRemoves
    <3> QED BY <1>9, <3>1
  <2> HIDE DEF q, s, r
  <2>3. Nth(s, k) = old /\ k \in 1 .. Len(s) + 1
    BY <1>8, <1>9 DEF Nth
  <2>4. Listed(t2, ch2)
    BY <1>2, <1>3, <1>4, <2>1, <2>3, InsertListed DEF t2, s
  <2>5. ch2[n] = q
    BY <1>8
  <2> HIDE DEF ch2
  <2>6. k + 1 \in 1 .. Len(q) /\ q[k + 1] = old
    <3>1. Len(q) = Len(s) + 1 /\ \A i \in 1 .. Len(q) : q[i] = IF i < k THEN s[i]
                                                           ELSE IF i = k THEN new ELSE s[i - 1]
      BY <2>1 DEF Inserted
    <3>2. k + 1 \in 1 .. Len(q) /\ ~(k + 1 < k) /\ k + 1 # k /\ (k + 1) - 1 = k
      BY <1>8, <3>1
    <3> QED BY <1>9, <3>1, <3>2
  <2>7. Listed(RemoveNodeFromCurrentLocation(t2, ch2[n][k + 1]), [ch2 EXCEPT ![n] = r])
    BY <1>6, <2>2, <2>4, <2>5, <2>6, RemoveListed
  <2>8. [ch2 EXCEPT ![n] = r] = [ch EXCEPT ![n] = r]
    BY <1>8 DEF ch2
  <2> QED BY <2>5, <2>6, <2>7, <2>8
<1> HIDE DEF t3, null, r
<1>11. Listed(tree', Rows(tree')) /\ (Step(op, Forest!Relist(ch, n, r)) \/ Stutter)
  BY <1>1, <1>7, <1>10, FinishSteps DEF Forest!Relist
<1>12. n \notin Forest!Below(new)
  BY <1>1, <1>2, NotBelow
<1>13. n \in Forest!Parent(old)
  <2>1. \E i \in 1 .. Len(Rows(tree)[n]) : Rows(tree)[n][i] = old
    BY <1>0, <1>1, <1>2, NodeAssumption DEF Listed
  <2> QED BY <1>0, <2>1 DEF Forest!Parent, Forest!Contains
<1>14. ASSUME Step(op, Forest!Relist(ch, n, r)) PROVE Forest!ReplaceChild(n, new, old)
  BY <1>0, <1>1, <1>12, <1>13, <1>14 DEF Forest!ReplaceChild, Step, ch, r
<1> QED BY <1>2, <1>11, <1>14

(* SetFirstChild cuts the whole row of n.                                  *)
LEMMA ClearRow ==
  ASSUME NEW t, Consistent(t), NEW ch, Listed(t, ch), NEW n \in Node
  PROVE  Listed(RemoveNodeAndAllNextSiblingsFromParent(t, t.firstChild[n]), [ch EXCEPT ![n] = <<>>])
<1>1. ch[n] \in Seq(Node) /\ t.firstChild[n] = Nth(ch[n], 1) /\ Len(ch[n]) \in Nat
      /\ ch \in [Node -> Seq(Node)]
  BY DEF Listed, IsRow
<1>2. CASE ch[n] = <<>>
  <2>1. t.firstChild[n] = Null
    BY <1>1, <1>2 DEF Nth
  <2>2. [ch EXCEPT ![n] = <<>>] = ch
    BY <1>1, <1>2
  <2> QED BY <2>1, <2>2 DEF RemoveNodeAndAllNextSiblingsFromParent
<1>3. CASE ch[n] # <<>>
  <2>1. 1 \in 1 .. Len(ch[n])
    BY <1>1, <1>3
  <2>2. t.firstChild[n] = ch[n][1] /\ Cut(ch[n], 1, <<>>)
    BY <1>1, <2>1 DEF Nth, Cut
  <2> QED BY <2>1, <2>2, RemoveRowListed
<1> QED BY <1>2, <1>3

(* SetFirstChild replaces that row by the new child.                       *)
LEMMA SetFirstChildSteps ==
  ASSUME ForestInv, status = "defined", NEW n \in Node, NEW c \in NodeOrNull,
         SetFirstChild(n, c), Returned(<<"SetFirstChild", n, c>>)
  PROVE  /\ Listed(tree', Rows(tree'))
         /\ \/ c \in Node /\ Forest!SetFirstChild(n, c)
            \/ Forest!ClearChildren(n)
            \/ Stutter
<1> DEFINE old == tree.firstChild[n]
           t1  == RemoveNodeAndAllNextSiblingsFromParent(tree, old)
           t2  == RemoveNodeFromCurrentLocation(t1, c)
           next == t2.firstChild[n]
           t3  == InsertNodeAtNewLocation(t2, c, n, next)
           ch == Rows(tree)
           ch1 == [ch EXCEPT ![n] = <<>>]
           cut == RemovesUnreferencedSibling(tree, old)
           op == <<"SetFirstChild", n, c>>
<1>0. /\ alive \in SUBSET Node /\ held \in SUBSET alive /\ Linked(tree, alive) /\ Consistent(tree)
      /\ tree \in Trees /\ tree.firstChild \in Links /\ Listed(tree, ch) /\ ch \in [Node -> Seq(Node)]
      /\ [m \in Node |-> GetChildren(tree, m)] = ch
  BY ForestKnown
<1>1. /\ n \in alive /\ c \in alive \cup {Null} /\ n # c /\ c # old
      /\ c # Null => ~IsAncestorOf(tree, c, n)
      /\ old \in NodeOrNull /\ (old # Null => tree.parent[old] # Null)
  BY <1>0, NodeAssumption DEF SetFirstChild, Consistent, FirstChildIsChild
<1> HIDE DEF ch
<1>2. Linked(t1, alive) /\ Consistent(t1) /\ Listed(t1, ch1)
  BY <1>0, <1>1, RemoveRowLinked, RemoveRowConsistent, ClearRow
<1>3. CASE c = Null
  <2>1. Finish(t1, cut, FALSE)
    BY <1>3 DEF SetFirstChild
  <2> HIDE DEF t1, ch1, cut
  <2>2. Listed(tree', Rows(tree')) /\ (Step(op, ch1) \/ Stutter)
    BY <1>2, <2>1, FinishSteps
  <2>3. ASSUME Step(op, ch1) PROVE Forest!ClearChildren(n)
    BY <1>0, <1>3, <2>3 DEF Forest!ClearChildren, Forest!Relist, Step, ch1
  <2> QED BY <2>2, <2>3
<1>4. CASE c # Null
  <2> DEFINE null == RemoveDereferencesNull(t1, c) \/ InsertDereferencesNull(t2, n, next)
             ch2 == Forest!Detach(ch1, c)
             ch3 == [ch2 EXCEPT ![n] = <<c>>]
  <2>1. Finish(t3, cut, null)
    BY <1>4 DEF SetFirstChild
  <2>2. c \in Node /\ c \in alive
    BY <1>0, <1>1, <1>4
  <2>3. /\ Linked(t2, alive) /\ Consistent(t2) /\ Listed(t2, ch2)
        /\ t2.parent = Assign(t1.parent, c, Null)
    <3> HIDE DEF t1, ch1
    <3> QED BY <1>0, <1>2, <2>2, RemoveLinked, RemoveConsistent, RemoveDetaches
  <2>4. ch2[n] = <<>> /\ ch2 \in [Node -> Seq(Node)]
    <3>1. Forest!Without(<<>>, c) = <<>>
      BY WithoutAbsent
    <3>2. ch2[n] = <<>>
      BY <1>0, <3>1 DEF Forest!Detach
    <3> QED BY <2>3, <3>2 DEF Listed
  <2> HIDE DEF t1, t2
  <2>5. t2.parent[c] = Null
    BY <2>2, <2>3 DEF Assign
  <2>6. next = Null
    <3>1. next = Nth(ch2[n], 1)
      BY <2>3 DEF Listed, IsRow
    <3> QED BY <2>4, <3>1 DEF Nth
  <2>7. Linked(t3, alive)
    BY <1>0, <1>1, <2>2, <2>3, <2>6, InsertLinked
  <2>8. Listed(t3, ch3)
    <3>1. Append(ch2[n], c) = <<c>>
      BY <2>2, <2>4
    <3> HIDE DEF next, ch2
    <3>2. Listed(t3, Forest!Relist(ch2, n, MovedRow(ch2, c, n, next)))
      BY <2>2, <2>3, <2>5, <2>6, InsertMoves
    <3> QED BY <2>6, <3>1, <3>2 DEF MovedRow, Forest!Relist
  <2>9. ch3 = Forest!Relist(Forest!Detach(ch, c), n, <<c>>)
    BY <1>0, <2>2 DEF Forest!Relist, Forest!Detach
  <2> HIDE DEF t3, ch3, null, cut
  <2>10. Listed(tree', Rows(tree')) /\ (Step(op, ch3) \/ Stutter)
    BY <2>1, <2>7, <2>8, FinishSteps
  <2>11. n \notin Forest!Below(c)
    BY <1>1, <1>4, <2>2, NotBelow
  <2>12. ch[n] # <<>> => Head(ch[n]) # c
    <3> SUFFICES ASSUME ch[n] # <<>> PROVE Head(ch[n]) # c
      OBVIOUS
    <3>1. ch[n] \in Seq(Node) /\ old = Nth(ch[n], 1)
      BY <1>0 DEF Listed, IsRow
    <3>2. Head(ch[n]) = ch[n][1] /\ 1 \in 1 .. Len(ch[n])
      BY <3>1
    <3> QED BY <1>1, <3>1, <3>2 DEF Nth
  <2>13. ASSUME Step(op, ch3) PROVE Forest!SetFirstChild(n, c)
    BY <1>0, <1>1, <2>9, <2>11, <2>12, <2>13 DEF Forest!SetFirstChild, Step
  <2> QED BY <2>2, <2>10, <2>13
<1> QED BY <1>3, <1>4

(* The row up to and with its k-th element.                                *)
LEMMA UpToPlace ==
  ASSUME NEW s \in Seq(Node), Distinct(s), NEW k \in 1 .. Len(s)
  PROVE  LET q == Append(Forest!Before(s, s[k]), s[k])
         IN  q \in Seq(Node) /\ Len(q) = k /\ \A i \in 1 .. k : q[i] = s[i]
<1> DEFINE a == Forest!Before(s, s[k])
           q == Append(a, s[k])
<1>1. a \in Seq(Node) /\ Len(a) = k - 1 /\ \A j \in 1 .. k - 1 : a[j] = s[j]
  BY AroundPlace
<1> HIDE DEF a
<1>2. s[k] \in Node /\ k \in Nat
  OBVIOUS
<1>3. q \in Seq(Node) /\ Len(q) = Len(a) + 1 /\ q[Len(a) + 1] = s[k]
      /\ \A i \in 1 .. Len(a) : q[i] = a[i]
  BY <1>1, <1>2
<1> HIDE DEF q
<1>4. Len(a) + 1 = k
  BY <1>1, <1>2
<1>5. ASSUME NEW i \in 1 .. k PROVE q[i] = s[i]
  <2>1. CASE i = k
    BY <1>3, <1>4, <2>1
  <2>2. CASE i # k
    <3>1. i \in 1 .. k - 1 /\ i \in 1 .. Len(a)
      BY <1>1, <1>2, <2>2
    <3> QED BY <1>1, <1>3, <3>1
  <2> QED BY <2>1, <2>2
<1>6. q \in Seq(Node) /\ Len(q) = k /\ \A i \in 1 .. k : q[i] = s[i]
  BY <1>3, <1>4, <1>5
<1> QED BY <1>6 DEF q, a

(* Two rows with the same elements are the same.                           *)
LEMMA SameElements ==
  ASSUME NEW a \in Seq(Node), NEW b \in Seq(Node), Len(a) = Len(b), \A i \in 1 .. Len(a) : a[i] = b[i]
  PROVE  a = b
BY SeqEqual

(* Cutting the row behind n and taking m out of it commute.                *)
LEMMA CutThenRemove ==
  ASSUME NEW s \in Seq(Node), Distinct(s), NEW k \in 1 .. Len(s), NEW m \in Node, m # s[k]
  PROVE  LET w == Forest!Without(s, m)
             q == Forest!Without(Append(Forest!Before(s, s[k]), s[k]), m)
         IN  /\ q = Append(Forest!Before(w, s[k]), s[k])
             /\ q \in Seq(Node) /\ Len(q) \in 1 .. Len(s) /\ q[Len(q)] = s[k]
             /\ Distinct(q)
<1> DEFINE n == s[k]
           u == Append(Forest!Before(s, n), n)
           w == Forest!Without(s, m)
           q == Forest!Without(u, m)
           Goal == /\ q = Append(Forest!Before(w, n), n)
                   /\ q \in Seq(Node) /\ Len(q) \in 1 .. Len(s) /\ q[Len(q)] = n
                   /\ Distinct(q)
<1>1. u \in Seq(Node) /\ Len(u) = k /\ \A i \in 1 .. k : u[i] = s[i]
  BY UpToPlace
<1>2. Len(s) \in Nat /\ k \in 1 .. Len(s) /\ n \in Node /\ n = s[k] /\ m # n
  OBVIOUS
<1> HIDE DEF u, n
<1>3. Distinct(u)
  <2>1. \A i \in 1 .. k : i \in 1 .. Len(s)
    BY <1>2
  <2> QED BY <1>1, <2>1 DEF Distinct
<1>4. CASE \A i \in 1 .. Len(s) : s[i] # m
  <2>1. w = s
    BY <1>4, WithoutAbsent
  <2>2. \A i \in 1 .. Len(u) : u[i] # m
    BY <1>1, <1>2, <1>4
  <2>3. q = u
    BY <2>2, WithoutAbsent
  <2>4. u[Len(u)] = n /\ Len(u) \in 1 .. Len(s)
    BY <1>1, <1>2
  <2>5. Goal
    BY <1>1, <1>3, <2>1, <2>3, <2>4 DEF u
  <2> QED BY <2>5 DEF u, n
<1>5. CASE \E i \in 1 .. Len(s) : s[i] = m
  <2>1. PICK j \in 1 .. Len(s) : s[j] = m
    BY <1>5
  <2>2. Removed(s, j, w)
    BY <2>1, WithoutRemoves
  <2>3. w \in Seq(Node) /\ Len(w) = Len(s) - 1
        /\ \A i \in 1 .. Len(w) : w[i] = IF i < j THEN s[i] ELSE s[i + 1]
    BY <2>2 DEF Removed
  <2>4. j # k
    BY <1>2, <2>1
  <2>5. Distinct(w)
    <3> HIDE DEF w
    <3> QED BY <2>2, RemovedDistinct
  <2>6. CASE k < j
    <3>1. \A i \in 1 .. Len(u) : i \in 1 .. Len(s) /\ i # j
      BY <1>1, <1>2, <2>6
    <3>2. \A i \in 1 .. Len(u) : u[i] # m
      BY <1>1, <2>1, <3>1 DEF Distinct
    <3>3. q = u
      BY <3>2, WithoutAbsent
    <3>4. k \in 1 .. Len(w) /\ \A i \in 1 .. k : i \in 1 .. Len(w) /\ i < j
      BY <1>2, <2>3, <2>6
    <3>5. \A i \in 1 .. k : w[i] = s[i]
      BY <2>3, <3>4
    <3>6. w[k] = n
      BY <1>2, <3>5
    <3> HIDE DEF w
    <3> DEFINE v == Append(Forest!Before(w, n), n)
    <3>7. v \in Seq(Node) /\ Len(v) = k /\ \A i \in 1 .. k : v[i] = w[i]
      BY <2>3, <2>5, <3>4, <3>6, UpToPlace
    <3> HIDE DEF v
    <3>8. v = u
      BY <1>1, <3>5, <3>7, SameElements
    <3>9. u[Len(u)] = n /\ Len(u) \in 1 .. Len(s)
      BY <1>1, <1>2
    <3>10. Goal
      <4> HIDE DEF q
      <4> QED BY <1>1, <1>3, <3>3, <3>8, <3>9 DEF v
    <3> QED BY <3>10 DEF u, n, w
  <2>7. CASE j < k
    <3>1. j \in 1 .. Len(u) /\ u[j] = m
      BY <1>1, <1>2, <2>1, <2>7
    <3>2. Removed(u, j, q)
      BY <1>1, <1>3, <3>1, WithoutRemoves
    <3>3. q \in Seq(Node) /\ Len(q) = k - 1
          /\ \A i \in 1 .. Len(q) : q[i] = IF i < j THEN u[i] ELSE u[i + 1]
      BY <1>1, <3>2 DEF Removed
    <3>4. k - 1 \in 1 .. Len(w) /\ ~(k - 1 < j) /\ (k - 1) + 1 = k /\ k - 1 \in 1 .. Len(s)
          /\ k - 1 \in 1 .. Len(q)
      BY <1>2, <2>1, <2>3, <2>7, <3>3
    <3>5. w[k - 1] = n
      BY <1>2, <2>3, <3>4
    <3> HIDE DEF w, q
    <3> DEFINE v == Append(Forest!Before(w, n), n)
    <3>6. v \in Seq(Node) /\ Len(v) = k - 1 /\ \A i \in 1 .. k - 1 : v[i] = w[i]
      BY <2>3, <2>5, <3>4, <3>5, UpToPlace
    <3> HIDE DEF v
    <3>7. ASSUME NEW i \in 1 .. k - 1 PROVE q[i] = w[i]
      <4>1. i \in 1 .. Len(q) /\ i \in 1 .. Len(w) /\ i \in 1 .. k /\ i + 1 \in 1 .. k
        BY <1>2, <2>3, <3>3
      <4> QED BY <1>1, <2>3, <3>3, <4>1
    <3>8. v = q
      BY <3>3, <3>6, <3>7, SameElements
    <3>9. q[Len(q)] = n /\ Len(q) \in 1 .. Len(s)
      BY <3>3, <3>4, <3>5, <3>7
    <3>10. Distinct(q)
      <4> SUFFICES ASSUME NEW x \in 1 .. Len(q), NEW y \in 1 .. Len(q), q[x] = q[y] PROVE x = y
        BY DEF Distinct
      <4>1. x \in 1 .. Len(w) /\ y \in 1 .. Len(w) /\ x \in 1 .. k - 1 /\ y \in 1 .. k - 1
        BY <1>2, <2>3, <3>3
      <4> QED BY <2>5, <3>7, <4>1 DEF Distinct
    <3>11. Goal
      BY <3>3, <3>8, <3>9, <3>10 DEF v
    <3> QED BY <3>11 DEF q, w, u, n
  <2> QED BY <1>2, <2>4, <2>6, <2>7
<1> QED BY <1>4, <1>5

(* SetNextSibling cuts the row behind n.                                   *)
LEMMA CutRow ==
  ASSUME NEW t, Consistent(t), NEW ch, Listed(t, ch), NEW p \in Node, NEW k \in 1 .. Len(ch[p])
  PROVE  Listed(RemoveNodeAndAllNextSiblingsFromParent(t, t.nextSibling[ch[p][k]]),
                [ch EXCEPT ![p] = Append(Forest!Before(ch[p], ch[p][k]), ch[p][k])])
<1> DEFINE s == ch[p]
           q == Append(Forest!Before(s, s[k]), s[k])
<1>1. /\ s \in Seq(Node) /\ Distinct(s) /\ Len(s) \in Nat /\ ch \in [Node -> Seq(Node)]
      /\ t.nextSibling[s[k]] = Nth(s, k + 1)
  BY DEF Listed, IsRow
<1>2. q \in Seq(Node) /\ Len(q) = k /\ \A i \in 1 .. k : q[i] = s[i]
  BY <1>1, UpToPlace
<1> HIDE DEF q
<1>3. CASE k = Len(s)
  <2>1. q = s
    BY <1>1, <1>2, <1>3, SameElements
  <2>2. t.nextSibling[s[k]] = Null /\ [ch EXCEPT ![p] = q] = ch
    <3>1. k + 1 \notin 1 .. Len(s)
      BY <1>1, <1>3
    <3> QED BY <1>1, <2>1, <3>1 DEF Nth
  <2> QED BY <2>2 DEF RemoveNodeAndAllNextSiblingsFromParent, q
<1>4. CASE k # Len(s)
  <2>1. k + 1 \in 1 .. Len(s) /\ (k + 1) - 1 = k
    BY <1>1, <1>4
  <2>2. t.nextSibling[s[k]] = s[k + 1] /\ Cut(s, k + 1, q)
    BY <1>1, <1>2, <2>1 DEF Nth, Cut
  <2>3. Listed(RemoveNodeAndAllNextSiblingsFromParent(t, s[k + 1]), [ch EXCEPT ![p] = q])
    BY <2>1, <2>2, RemoveRowListed
  <2> QED BY <2>2, <2>3 DEF q
<1> QED BY <1>3, <1>4

(* Two nodes behind a row.                                                 *)
LEMMA AppendTwice ==
  ASSUME NEW a \in Seq(Node), NEW n \in Node, NEW m \in Node
  PROVE  Append(Append(a, n), m) = a \o <<n, m>>
OBVIOUS

(* SetNextSibling cuts the row behind n and appends the new sibling.       *)
LEMMA SetNextSiblingSteps ==
  ASSUME ForestInv, status = "defined", NEW n \in Node, NEW m \in NodeOrNull,
         SetNextSibling(n, m), Returned(<<"SetNextSibling", n, m>>)
  PROVE  /\ Listed(tree', Rows(tree'))
         /\ \/ m \in Node /\ Forest!SetNextSibling(n, m)
            \/ Forest!ClearNextSiblings(n)
            \/ Stutter
<1> DEFINE p   == tree.parent[n]
           old == tree.nextSibling[n]
           t1  == RemoveNodeAndAllNextSiblingsFromParent(tree, old)
           t2  == RemoveNodeFromCurrentLocation(t1, m)
           next == t2.nextSibling[n]
           t3  == InsertNodeAtNewLocation(t2, m, t2.parent[n], next)
           ch  == Rows(tree)
           row == Append(Forest!Before(ch[p], n), n)
           ch1 == [ch EXCEPT ![p] = row]
           cut == RemovesUnreferencedSibling(tree, old)
           op  == <<"SetNextSibling", n, m>>
<1>0. /\ alive \in SUBSET Node /\ held \in SUBSET alive /\ Linked(tree, alive) /\ Consistent(tree)
      /\ tree \in Trees /\ tree.nextSibling \in Links /\ tree.parent \in Links
      /\ Listed(tree, ch) /\ ch \in [Node -> Seq(Node)]
      /\ [x \in Node |-> GetChildren(tree, x)] = ch
  BY ForestKnown
<1>1. /\ n \in alive /\ m \in alive \cup {Null} /\ n # m /\ p # Null
      /\ m # Null => ~IsAncestorOf(tree, m, n)
      /\ old \in NodeOrNull /\ (old # Null => tree.parent[old] # Null)
  BY <1>0 DEF SetNextSibling, IsRoot, Consistent, SiblingsHaveSameParent
<1>2. p \in Node /\ p \in alive
  BY <1>0, <1>1 DEF Linked
<1> HIDE DEF ch
<1>3. ch[p] \in Seq(Node) /\ Distinct(ch[p])
  BY <1>0, <1>2 DEF Listed, IsRow
<1>4. PICK k \in 1 .. Len(ch[p]) : ch[p][k] = n
  BY <1>0, <1>1 DEF Listed
<1>5. Linked(t1, alive) /\ Consistent(t1) /\ Listed(t1, ch1)
  <2>1. Linked(t1, alive) /\ Consistent(t1)
    BY <1>0, <1>1, RemoveRowLinked, RemoveRowConsistent
  <2>2. Listed(RemoveNodeAndAllNextSiblingsFromParent(tree, tree.nextSibling[ch[p][k]]),
               [ch EXCEPT ![p] = Append(Forest!Before(ch[p], ch[p][k]), ch[p][k])])
    <3> HIDE DEF p
    <3> QED BY <1>0, <1>2, CutRow
  <2> QED BY <1>4, <2>1, <2>2
<1>6. t1.parent[n] = p
  BY <1>0, <1>1, NotBehindItself
<1>7. p \in Forest!Parent(n)
  BY <1>0, <1>2, <1>4 DEF Forest!Parent, Forest!Contains
<1>8. CASE m = Null
  <2>1. Finish(t1, cut, FALSE)
    BY <1>8 DEF SetNextSibling
  <2> HIDE DEF t1, ch1, cut
  <2>2. Listed(tree', Rows(tree')) /\ (Step(op, ch1) \/ Stutter)
    BY <1>5, <2>1, FinishSteps
  <2>3. ASSUME Step(op, ch1) PROVE Forest!ClearNextSiblings(n)
    <3> HIDE DEF p
    <3>1. Forest!Called(<<"SetNextSibling", n, Null>>) /\ Forest!Become(Forest!Relist(ch, p, row))
      BY <1>8, <2>3 DEF Step, ch1, Forest!Relist
    <3> QED BY <1>0, <1>7, <3>1 DEF Forest!ClearNextSiblings
  <2> QED BY <2>2, <2>3
<1>9. CASE m # Null
  <2> DEFINE null == \/ RemoveDereferencesNull(t1, m)
                     \/ t2.parent[n] = Null
                     \/ InsertDereferencesNull(t2, t2.parent[n], next)
             ch2 == Forest!Detach(ch1, m)
             ch3 == Forest!Relist(ch2, p, Append(ch2[p], m))
             D   == Forest!Detach(ch, m)
  <2>1. Finish(t3, cut, null)
    BY <1>9 DEF SetNextSibling
  <2>2. m \in Node /\ m \in alive
    BY <1>0, <1>1, <1>9
  <2>3. /\ Linked(t2, alive) /\ Consistent(t2) /\ Listed(t2, ch2)
        /\ t2.parent = Assign(t1.parent, m, Null)
    <3> HIDE DEF t1, ch1
    <3> QED BY <1>0, <1>5, <2>2, RemoveLinked, RemoveConsistent, RemoveDetaches
  <2> HIDE DEF t1, t2
  <2>4. t2.parent[m] = Null /\ t2.parent[n] = p
    BY <1>0, <1>1, <1>6, <2>2, <2>3 DEF Assign
  <2> HIDE DEF p
  <2>5. /\ ch2[p] = Append(Forest!Before(D[p], n), n)
        /\ ch2[p] \in Seq(Node) /\ Len(ch2[p]) \in 1 .. Len(ch[p]) /\ ch2[p][Len(ch2[p])] = n
    <3>1. ch2[p] = Forest!Without(row, m) /\ D[p] = Forest!Without(ch[p], m)
      BY <1>0, <1>2 DEF Forest!Detach
    <3>2. LET w == Forest!Without(ch[p], m)
              q == Forest!Without(Append(Forest!Before(ch[p], ch[p][k]), ch[p][k]), m)
          IN  /\ q = Append(Forest!Before(w, ch[p][k]), ch[p][k])
              /\ q \in Seq(Node) /\ Len(q) \in 1 .. Len(ch[p]) /\ q[Len(q)] = ch[p][k]
      BY <1>1, <1>3, <1>4, <2>2, CutThenRemove
    <3> QED BY <1>4, <3>1, <3>2
  <2> HIDE DEF ch2
  (* n is the last child of p now.                                         *)
  <2>6. next = Null
    <3>1. Len(ch2[p]) \in 1 .. Len(ch2[p])
      BY <2>5
    <3>2. \A i \in 1 .. Len(ch2[p]) : t2.nextSibling[ch2[p][i]] = Nth(ch2[p], i + 1)
      BY <1>2, <2>3, ChildAt
    <3>3. next = Nth(ch2[p], Len(ch2[p]) + 1)
      BY <2>5, <3>1, <3>2
    <3>4. Len(ch2[p]) + 1 \notin 1 .. Len(ch2[p])
      BY <2>5
    <3> QED BY <3>3, <3>4 DEF Nth
  <2>7. Linked(t3, alive)
    BY <1>0, <1>2, <2>2, <2>3, <2>4, <2>6, InsertLinked
  <2>8. Listed(t3, ch3)
    <3> HIDE DEF next
    <3>1. Listed(t3, Forest!Relist(ch2, p, MovedRow(ch2, m, p, next)))
      BY <1>2, <2>2, <2>3, <2>4, <2>6, InsertMoves
    <3> QED BY <2>6, <3>1 DEF MovedRow
  <2>9. ch3 = Forest!Relist(D, p, Forest!Before(D[p], n) \o <<n, m>>)
    <3>1. Append(ch2[p], m) = Forest!Before(D[p], n) \o <<n, m>>
      <4>1. Listed(RemoveNodeFromCurrentLocation(tree, m), D)
        BY <1>0, <2>2, RemoveDetaches
      <4> HIDE DEF D
      <4>2. D[p] \in Seq(Node) /\ Distinct(D[p])
        BY <1>2, <4>1 DEF Listed, IsRow
      <4>3. \E i \in 1 .. Len(D[p]) : D[p][i] = n
        <5>1. RemoveNodeFromCurrentLocation(tree, m).parent = Assign(tree.parent, m, Null)
          BY <1>0, <2>2, RemoveConsistent
        <5>2. RemoveNodeFromCurrentLocation(tree, m).parent[n] = p
          BY <1>0, <1>1, <5>1 DEF Assign, p
        <5> QED BY <1>0, <1>1, <4>1, <5>2 DEF Listed
      <4>4. PICK i \in 1 .. Len(D[p]) : D[p][i] = n
        BY <4>3
      <4>5. Forest!Before(D[p], n) \in Seq(Node)
        BY <4>2, <4>4, AroundPlace
      <4>6. n \in Node
        BY <1>0, <1>1
      <4> QED BY <2>2, <2>5, <4>5, <4>6, AppendTwice
    <3>2. \A q \in Node : q # p => ch2[q] = D[q]
      BY <1>0, <1>2 DEF ch2, Forest!Detach
    <3>3. ch2 = [q \in Node |-> ch2[q]] /\ D = [q \in Node |-> D[q]]
      BY DEF ch2, Forest!Detach
    <3> HIDE DEF D
    <3> QED BY <3>1, <3>2, <3>3 DEF Forest!Relist
  <2> HIDE DEF t3, ch3, null, cut, D
  <2>10. Listed(tree', Rows(tree')) /\ (Step(op, ch3) \/ Stutter)
    BY <2>1, <2>7, <2>8, FinishSteps
  <2>11. p # m /\ p \notin Forest!Below(m)
    <3>1. m \notin Walk(tree.parent, p)
      BY <1>1, <1>9 DEF IsAncestorOf, Ancestors, p
    <3>2. Walk(tree.parent, p) \in SUBSET Node /\ Closed(tree.parent, p, Walk(tree.parent, p))
      BY <1>0, <1>2, WalkClosed
    <3>3. p \in Walk(tree.parent, p)
      BY <1>2, <3>2, NodeAssumption DEF Closed
    <3>4. Closed(tree.parent, tree.parent[p], Walk(tree.parent, p))
      BY <3>2, <3>3 DEF Closed
    <3>5. Walk(tree.parent, tree.parent[p]) \subseteq Walk(tree.parent, p)
      BY <3>2, <3>4, WalkLeast
    <3>6. ~IsAncestorOf(tree, m, p)
      BY <3>1, <3>5 DEF IsAncestorOf, Ancestors
    <3> QED BY <1>2, <2>2, <3>1, <3>3, <3>6, NotBelow
  <2>12. ASSUME Step(op, ch3) PROVE Forest!SetNextSibling(n, m)
    BY <1>0, <1>1, <1>7, <2>9, <2>11, <2>12 DEF Forest!SetNextSibling, Step, D
  <2> QED BY <2>2, <2>10, <2>12
<1> QED BY <1>8, <1>9

(* Every node that exists is referred to: a call that adds a reference     *)
(* destroys none.                                                          *)
LEMMA NothingDestroyed ==
  ASSUME ForestInv, NEW A \in SUBSET Node, alive \subseteq A, NEW h \in SUBSET A, held \subseteq h,
         A \ alive \subseteq h, Settle(tree, A, h, rootNode)
  PROVE  /\ Listed(tree', Rows(tree')) /\ Rows(tree') = Rows(tree)
         /\ alive' = A /\ held' = h /\ UNCHANGED <<rootNode, status>>
<1>0. /\ alive \in SUBSET Node /\ rootNode \in alive \cup {Null} /\ Linked(tree, alive)
      /\ Listed(tree, Rows(tree)) /\ tree.parent \in Links /\ Rows(tree) \in [Node -> Seq(Node)]
  BY ForestKnown
<1>1. Linked(tree, A)
  BY <1>0 DEF Linked
<1>2. /\ Listed(tree', Rows(tree')) /\ Rows(tree') = Surviving(Rows(tree), alive')
      /\ alive' \in SUBSET A /\ held' = h /\ rootNode' = rootNode /\ status' = status
  <2>1. rootNode \in A \cup {Null}
    BY <1>0
  <2> QED BY <1>0, <1>1, <2>1, SettleRows
<1>3. A \subseteq alive'
  <2>1. \A m \in A : m \in h \cup {rootNode} \/ \E x \in A : m \in {tree.firstChild[x], tree.nextSibling[x]}
    BY DEF ForestInv, MemoryInv, Referenced
  <2>2. alive' = Survivors(tree, A, h \cup {rootNode})
    BY DEF Settle
  <2> QED BY <2>1, <2>2 DEF Survivors
<1>4. ASSUME NEW p \in Node \ alive' PROVE Rows(tree)[p] = <<>>
  <2>1. \A m \in Node : tree.parent[m] # p
    BY <1>0, <1>3, NodeAssumption DEF Linked
  <2>2. \A i \in 1 .. Len(Rows(tree)[p]) : FALSE
    <3> SUFFICES ASSUME NEW i \in 1 .. Len(Rows(tree)[p]) PROVE FALSE
      OBVIOUS
    <3>1. Rows(tree)[p][i] \in Node /\ tree.parent[Rows(tree)[p][i]] = p
      <4> DEFINE ch == Rows(tree)
      <4>1. Listed(tree, ch) /\ p \in Node /\ i \in 1 .. Len(ch[p])
        BY <1>0
      <4> HIDE DEF ch
      <4>2. ch[p][i] \in Node /\ tree.parent[ch[p][i]] = p
        BY <4>1, ChildAt
      <4> QED BY <4>2 DEF ch
    <3> QED BY <2>1, <3>1
  <2>3. Rows(tree)[p] \in Seq(Node)
    BY <1>0
  <2>4. Len(Rows(tree)[p]) = 0
    BY <2>2, <2>3
  <2> QED BY <2>3, <2>4
<1>5. Surviving(Rows(tree), alive') = Rows(tree)
  BY <1>0, <1>4 DEF Surviving
<1> QED BY <1>2, <1>3, <1>5

(* The client's calls.                                                     *)
LEMMA ClientSteps ==
  ASSUME ForestInv, status = "defined", NEW n \in Node,
         \/ CreateNode(n) /\ Returned(<<"CreateNode", n>>)
         \/ GetNode(n) /\ Returned(<<"GetNode", n>>)
         \/ DropHandle(n) /\ Returned(<<"DropHandle", n>>)
  PROVE  /\ Listed(tree', Rows(tree'))
         /\ Forest!CreateNode(n) \/ Forest!GetNode(n) \/ Forest!DropHandle(n)
<1>0. /\ alive \in SUBSET Node /\ held \in SUBSET alive /\ rootNode \in alive \cup {Null}
      /\ Linked(tree, alive) /\ Listed(tree, Rows(tree))
      /\ [x \in Node |-> GetChildren(tree, x)] = Rows(tree)
  BY ForestKnown
<1>1. CASE CreateNode(n) /\ Returned(<<"CreateNode", n>>)
  <2>1. n \notin alive /\ Settle(tree, alive \cup {n}, held \cup {n}, rootNode)
    BY <1>1 DEF CreateNode
  <2>2. /\ Listed(tree', Rows(tree')) /\ Rows(tree') = Rows(tree)
        /\ alive' = alive \cup {n} /\ held' = held \cup {n} /\ UNCHANGED <<rootNode, status>>
    <3>1. alive \cup {n} \in SUBSET Node /\ held \cup {n} \in SUBSET (alive \cup {n})
      BY <1>0
    <3>2. (alive \cup {n}) \ alive \subseteq held \cup {n}
      OBVIOUS
    <3> QED BY <2>1, <3>1, <3>2, NothingDestroyed
  <2>3. call' = <<"CreateNode", n>>
    BY <1>1, <2>2 DEF Returned
  <2> QED BY <2>1, <2>2, <2>3 DEF Forest!CreateNode, Rows
<1>2. CASE GetNode(n) /\ Returned(<<"GetNode", n>>)
  <2>1. n \notin held /\ Settle(tree, alive, held \cup {n}, rootNode)
    BY <1>2 DEF GetNode
  <2>2. n \in alive
    <3>1. n \in {rootNode} \cup UNION {{tree.parent[m], tree.firstChild[m], tree.nextSibling[m]} : m \in held}
      BY <1>2 DEF GetNode
    <3> QED BY <1>0, <3>1, NodeAssumption DEF Linked
  <2>3. /\ Listed(tree', Rows(tree')) /\ Rows(tree') = Rows(tree)
        /\ alive' = alive /\ held' = held \cup {n} /\ UNCHANGED <<rootNode, status>>
    <3>1. held \cup {n} \in SUBSET alive
      BY <1>0, <2>2
    <3> QED BY <1>0, <2>1, <3>1, NothingDestroyed
  <2>4. call' = <<"GetNode", n>>
    BY <1>2, <2>3 DEF Returned
  <2> QED BY <2>1, <2>2, <2>3, <2>4 DEF Forest!GetNode, Rows
<1>3. CASE DropHandle(n) /\ Returned(<<"DropHandle", n>>)
  <2>1. n \in held /\ Settle(tree, alive, held \ {n}, rootNode)
    BY <1>3 DEF DropHandle
  <2>2. /\ Listed(tree', Rows(tree')) /\ Forest!Become(Rows(tree))
        /\ held' = held \ {n} /\ rootNode' = rootNode /\ status' = status
    BY <1>0, <2>1, SettleBecomes
  <2>3. call' = <<"DropHandle", n>>
    BY <1>3, <2>2 DEF Returned
  <2> QED BY <1>0, <2>1, <2>2, <2>3 DEF Forest!DropHandle
<1> QED BY <1>1, <1>2, <1>3

(* The call of SetRootNode, for a node or for nullptr.                     *)
LEMMA SetRootNodeSteps ==
  ASSUME ForestInv, status = "defined", NEW n \in NodeOrNull,
         SetRootNode(n), Returned(<<"SetRootNode", n>>)
  PROVE  /\ Listed(tree', Rows(tree'))
         /\ Forest!SetRootNode(n) /\ (n = Null => rootNode \in Node)
<1>0. /\ alive \in SUBSET Node /\ held \in SUBSET alive /\ rootNode \in alive \cup {Null}
      /\ Linked(tree, alive) /\ Listed(tree, Rows(tree))
      /\ [x \in Node |-> GetChildren(tree, x)] = Rows(tree)
  BY ForestKnown
<1>1. n \in held \cup {Null} /\ n # rootNode /\ Settle(tree, alive, held, n)
  BY DEF SetRootNode
<1>2. /\ Listed(tree', Rows(tree')) /\ Forest!Become(Rows(tree))
      /\ held' = held /\ rootNode' = n /\ status' = status
  BY <1>0, <1>1, SettleBecomes
<1>3. call' = <<"SetRootNode", n>>
  BY <1>2 DEF Returned
<1> QED BY <1>0, <1>1, <1>2, <1>3 DEF Forest!SetRootNode

(* Every call keeps the rows in order and is a step of the ordered trees.  *)
LEMMA CallSteps ==
  ForestInv /\ [CallNext]_<<vars, call>> => ForestInv' /\ [Forest!Next]_(Forest!vars)
<1> SUFFICES ASSUME ForestInv, [CallNext]_<<vars, call>>
             PROVE  ForestInv' /\ [Forest!Next]_(Forest!vars)
  OBVIOUS
<1> DEFINE Good == Listed(tree', Rows(tree')) /\ (Forest!Next \/ Stutter)
<1>1. [Next]_vars
  BY DEF CallNext, Next, ClientStep, BuilderStep
<1>2. MemoryInv'
  BY <1>1, MemoryStep DEF ForestInv
<1>3. ASSUME status = "defined", NEW n \in Node,
             \/ CreateNode(n) /\ Returned(<<"CreateNode", n>>)
             \/ GetNode(n) /\ Returned(<<"GetNode", n>>)
             \/ DropHandle(n) /\ Returned(<<"DropHandle", n>>)
      PROVE  Good
  BY <1>3, ClientSteps DEF Forest!Next
<1>4. ASSUME status = "defined", NEW n \in NodeOrNull, SetRootNode(n), Returned(<<"SetRootNode", n>>)
      PROVE  Good
  <2>1. Listed(tree', Rows(tree')) /\ Forest!SetRootNode(n) /\ (n = Null => rootNode \in Node)
    BY <1>4, SetRootNodeSteps
  <2>2. CASE n \in Node
    BY <2>1, <2>2 DEF Forest!Next
  <2>3. CASE n = Null
    BY <2>1, <2>3 DEF Forest!Next
  <2> QED BY <2>1, <2>2, <2>3
<1>5. ASSUME status = "defined", NEW n \in Node, NEW m \in NodeOrNull,
             \/ SetFirstChild(n, m) /\ Returned(<<"SetFirstChild", n, m>>)
             \/ AppendChild(n, m) /\ Returned(<<"AppendChild", n, m>>)
             \/ RemoveChild(n, m) /\ Returned(<<"RemoveChild", n, m>>)
             \/ SetNextSibling(n, m) /\ Returned(<<"SetNextSibling", n, m>>)
             \/ SetParent(n, m) /\ Returned(<<"SetParent", n, m>>)
      PROVE  Good
  <2>1. CASE SetFirstChild(n, m) /\ Returned(<<"SetFirstChild", n, m>>)
    BY <1>5, <2>1, SetFirstChildSteps DEF Forest!Next
  <2>2. CASE AppendChild(n, m) /\ Returned(<<"AppendChild", n, m>>)
    BY <1>5, <2>2, AppendChildSteps DEF Forest!Next
  <2>3. CASE RemoveChild(n, m) /\ Returned(<<"RemoveChild", n, m>>)
    BY <1>5, <2>3, RemoveChildSteps DEF Forest!Next
  <2>4. CASE SetNextSibling(n, m) /\ Returned(<<"SetNextSibling", n, m>>)
    BY <1>5, <2>4, SetNextSiblingSteps DEF Forest!Next
  <2>5. CASE SetParent(n, m) /\ Returned(<<"SetParent", n, m>>)
    BY <1>5, <2>5, SetParentSteps DEF Forest!Next
  <2> QED BY <1>5, <2>1, <2>2, <2>3, <2>4, <2>5
<1>6. ASSUME status = "defined", NEW n \in Node, NEW m \in NodeOrNull, NEW k \in NodeOrNull,
             InsertChild(n, m, k), Returned(<<"InsertChild", n, m, k>>)
      PROVE  Good
  <2>1. Listed(tree', Rows(tree')) /\ ((m \in Node /\ Forest!InsertChild(n, m, k)) \/ Stutter)
    BY <1>6, InsertChildSteps
  <2>2. ASSUME m \in Node, Forest!InsertChild(n, m, k) PROVE Forest!Next
    <3>1. CASE k = Null
      BY <2>2, <3>1 DEF Forest!Next
    <3>2. CASE k \in Node
      BY <2>2, <3>2 DEF Forest!Next
    <3> QED BY <3>1, <3>2
  <2> QED BY <2>1, <2>2
<1>7. ASSUME status = "defined", NEW n \in Node, NEW m \in NodeOrNull, NEW k \in NodeOrNull,
             ReplaceChild(n, m, k), Returned(<<"ReplaceChild", n, m, k>>)
      PROVE  Good
  <2>1. Listed(tree', Rows(tree'))
        /\ ((m \in Node /\ k \in Node /\ Forest!ReplaceChild(n, m, k)) \/ Stutter)
    BY <1>7, ReplaceChildSteps
  <2> QED BY <2>1 DEF Forest!Next
<1>8. ASSUME UNCHANGED <<vars, call>> PROVE Good
  <2>1. Stutter /\ Rows(tree') = Rows(tree)
    BY <1>8 DEF vars, Stutter
  <2>2. tree' = tree /\ Listed(tree, Rows(tree))
    BY <2>1, ForestKnown DEF Stutter
  <2>3. Rows(tree') = Rows(tree) /\ Listed(tree', Rows(tree'))
    BY <2>1, <2>2
  <2> QED BY <2>1, <2>3
<1>9. Good
  <2> HIDE DEF Good
  <2>1. ASSUME CallNext PROVE Good
    BY <1>3, <1>4, <1>5, <1>6, <1>7, <2>1, Zenon DEF CallNext
  <2>2. CallNext \/ UNCHANGED <<vars, call>>
    OBVIOUS
  <2> QED BY <1>8, <2>1, <2>2
<1>10. Stutter => UNCHANGED Forest!vars
  BY DEF Stutter, Forest!vars
<1> QED BY <1>2, <1>9, <1>10 DEF ForestInv, Rows

(* The library's calls implement the operations on ordered trees that      *)
(* their names promise: GetChildren always returns the children in their   *)
(* order, a node moves with the trees below it, all other children stay    *)
(* where they are, and only nodes that no handle leads to disappear.       *)
THEOREM TreesAreOrdered == CallSpec => ForestSpec
<1>1. CallInit => ForestInv /\ Forest!Init
  <2> SUFFICES ASSUME CallInit PROVE ForestInv /\ Forest!Init
    OBVIOUS
  <2> DEFINE none == [n \in Node |-> <<>>]
  <2>1. MemoryInv
    <3>1. TreeInv
      BY InitTreeInv DEF CallInit
    <3>2. NoSiblingCycle(tree) /\ Referenced
      BY NodeAssumption DEF CallInit, Init, NoLinks, NoSiblingCycle, Referenced
    <3> QED BY <3>1, <3>2 DEF MemoryInv
  <2>2. Listed(tree, none)
    <3>1. \A n \in Node : tree.firstChild[n] = Null /\ tree.parent[n] = Null
      BY DEF CallInit, Init, NoLinks
    <3> QED BY <3>1 DEF Listed, IsRow, Distinct, Nth
  <2>3. Rows(tree) = none
    BY <2>2, RowsAreListed
  <2>4. Forest!Init
    BY <2>3 DEF Forest!Init, CallInit, Init, Rows
  <2> QED BY <2>1, <2>2, <2>3, <2>4 DEF ForestInv
<1> QED BY <1>1, CallSteps, PTL DEF CallSpec, ForestSpec, Forest!Spec
=============================================================================
