------------------------- MODULE GameTreeRefinement -------------------------
(***************************************************************************)
(* The links of GameTree implement the ordered trees of OrderedForest: the *)
(* children of a node are what SgfcNode::GetChildren collects.  Each step  *)
(* records the call it stands for, so that a call has to do what the       *)
(* abstract operation of the same name and arguments promises.             *)
(***************************************************************************)
EXTENDS GameTree, Naturals, Sequences

VARIABLE call   \* the call that was made last

(* A call that runs into undefined behaviour does not return.              *)
Returned(c) == call' = IF status' = "defined" THEN c ELSE call

CallInit == Init /\ call = <<>>

CallNext ==
  /\ status = "defined"
  /\ \/ \E n \in Node :
          \/ CreateNode(n) /\ Returned(<<"CreateNode", n>>)
          \/ GetNode(n) /\ Returned(<<"GetNode", n>>)
          \/ DropHandle(n) /\ Returned(<<"DropHandle", n>>)
     \/ \E n \in NodeOrNull : SetRootNode(n) /\ Returned(<<"SetRootNode", n>>)
     \/ \E n \in Node, m \in NodeOrNull :
          \/ SetFirstChild(n, m) /\ Returned(<<"SetFirstChild", n, m>>)
          \/ AppendChild(n, m) /\ Returned(<<"AppendChild", n, m>>)
          \/ RemoveChild(n, m) /\ Returned(<<"RemoveChild", n, m>>)
          \/ SetNextSibling(n, m) /\ Returned(<<"SetNextSibling", n, m>>)
          \/ SetParent(n, m) /\ Returned(<<"SetParent", n, m>>)
          \/ \E k \in NodeOrNull :
               \/ InsertChild(n, m, k) /\ Returned(<<"InsertChild", n, m, k>>)
               \/ ReplaceChild(n, m, k) /\ Returned(<<"ReplaceChild", n, m, k>>)

CallSpec == CallInit /\ [][CallNext]_<<vars, call>>

(* The loop of GetChildren meets child[1], child[2] and so on, and collects*)
(* them until it meets nullptr.                                            *)
GetChildren(t, n) ==
  LET child[k \in 1 .. Cardinality(Node)] ==
        IF k = 1 THEN t.firstChild[n]
        ELSE IF child[k - 1] = Null THEN Null ELSE t.nextSibling[child[k - 1]]
  IN  [k \in {i \in 1 .. Cardinality(Node) : child[i] # Null} |-> child[k]]

Forest == INSTANCE OrderedForest WITH children <- [n \in Node |-> GetChildren(tree, n)]

(* Every call does what the abstract operation of its name does: nodes are *)
(* moved with everything below them, the order of all other children stays *)
(* as it was, and only nodes without a reference are discarded.            *)
ForestSpec == Forest!Spec
=============================================================================
