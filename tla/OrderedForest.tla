--------------------------- MODULE OrderedForest ----------------------------
(***************************************************************************)
(* What ISgfcTreeBuilder promises, without links and reference counts: the *)
(* game trees are ordered trees, each node has the sequence of its         *)
(* children, an operation moves a node together with the tree below it and *)
(* leaves every other node where it is.  Nodes that no handle leads to may *)
(* be discarded at the end of any operation.                               *)
(***************************************************************************)
EXTENDS SequencesExt

CONSTANTS Node, Null

VARIABLES
  alive,      \* the nodes that exist
  held,       \* the nodes the client holds a handle on
  rootNode,   \* the root of the game, or Null
  children,   \* the children of each node, in order
  call        \* the operation the client has called last

vars == <<alive, held, rootNode, children, call>>

Parent(n) == LET ch == children IN {p \in Node : Contains(ch[p], n)}

(* The nodes below n, n excluded.                                          *)
Below(n) ==
  LET kids == [k \in Node |-> ToSet(children[k])]
  IN  {m \in Node : \A S \in SUBSET Node :
         kids[n] \subseteq S /\ (\A k \in S : kids[k] \subseteq S) => m \in S}

(* The position of n in seq, in which it occurs.                           *)
Place(seq, n) == CHOOSE i \in DOMAIN seq : seq[i] = n

Before(seq, n) == SubSeq(seq, 1, Place(seq, n) - 1)

After(seq, n) == SubSeq(seq, Place(seq, n) + 1, Len(seq))

Without(seq, n) == IF Contains(seq, n) THEN Before(seq, n) \o After(seq, n) ELSE seq

(* All children sequences without n, and with seq as the children of n.    *)
Detach(ch, n) == [p \in Node |-> Without(ch[p], n)]

Relist(ch, n, seq) == [ch EXCEPT ![n] = seq]

(* The trees after an operation are ch, less the nodes that are discarded: *)
(* none of them has a handle or stands below a node that survives.         *)
Become(ch) ==
  /\ alive' \in SUBSET alive
  /\ held' \subseteq alive' /\ rootNode' \in alive' \cup {Null}
  /\ \A n \in alive' : ToSet(ch[n]) \subseteq alive'
  /\ children' = [n \in Node |-> IF n \in alive' THEN ch[n] ELSE <<>>]

(* An operation on the trees was called.                                   *)
Called(c) == call' = c /\ UNCHANGED <<held, rootNode>>

Init ==
  /\ alive = {} /\ held = {} /\ rootNode = Null /\ children = [n \in Node |-> <<>>]
  /\ call = <<>>

CreateNode(n) ==
  /\ n \notin alive
  /\ alive' = alive \cup {n} /\ held' = held \cup {n}
  /\ call' = <<"CreateNode", n>>
  /\ UNCHANGED <<rootNode, children>>

(* A new handle leads to the root of the game or to a neighbour of a node  *)
(* the client already holds.  A discarded parent's children may still be   *)
(* reached from one another, so any node that exists is allowed here.      *)
GetNode(n) ==
  /\ n \in alive \ held
  /\ held' = held \cup {n}
  /\ call' = <<"GetNode", n>>
  /\ UNCHANGED <<alive, rootNode, children>>

DropHandle(n) ==
  /\ n \in held
  /\ held' = held \ {n} /\ rootNode' = rootNode
  /\ call' = <<"DropHandle", n>>
  /\ Become(children)

SetRootNode(n) ==
  /\ n \in held \cup {Null}
  /\ rootNode' = n /\ held' = held
  /\ call' = <<"SetRootNode", n>>
  /\ Become(children)

(* The children of n are replaced by c; nothing happens if c is already    *)
(* the first of them.                                                      *)
SetFirstChild(n, c) ==
  /\ Called(<<"SetFirstChild", n, c>>)
  /\ c # n
  /\ Become(Relist(Detach(children, c), n, <<c>>))
  /\ children[n] # <<>> => Head(children[n]) # c
  /\ n \notin Below(c)

ClearChildren(n) == Called(<<"SetFirstChild", n, Null>>) /\ Become(Relist(children, n, <<>>))

AppendChild(n, c) ==
  /\ Called(<<"AppendChild", n, c>>)
  /\ c # n
  /\ LET ch == Detach(children, c)
     IN  Become(Relist(ch, n, Append(ch[n], c)))
  /\ n \notin Below(c)

InsertChild(n, c, ref) ==
  /\ Called(<<"InsertChild", n, c, ref>>)
  /\ c # n /\ c # ref
  /\ LET ch == Detach(children, c)
     IN  IF ref = Null
           THEN Become(Relist(ch, n, Append(ch[n], c)))
           ELSE /\ n \in Parent(ref)
                /\ Become(Relist(ch, n, Before(ch[n], ref) \o <<c, ref>> \o After(ch[n], ref)))
  /\ n \notin Below(c)

RemoveChild(n, c) ==
  Called(<<"RemoveChild", n, c>>) /\ n \in Parent(c) /\ Become(Detach(children, c))

ReplaceChild(n, new, old) ==
  /\ Called(<<"ReplaceChild", n, new, old>>)
  /\ new # n /\ new # old /\ n \in Parent(old)
  /\ LET ch == Detach(children, new)
     IN  Become(Relist(ch, n, Before(ch[n], old) \o <<new>> \o After(ch[n], old)))
  /\ n \notin Below(new)

(* The siblings behind n are replaced by s.                                *)
SetNextSibling(n, s) ==
  /\ Called(<<"SetNextSibling", n, s>>)
  /\ s # n
  /\ \E p \in Parent(n) \ {s} :
       /\ LET ch == Detach(children, s)
          IN  Become(Relist(ch, p, Before(ch[p], n) \o <<n, s>>))
       /\ p \notin Below(s)

ClearNextSiblings(n) ==
  /\ Called(<<"SetNextSibling", n, Null>>)
  /\ \E p \in Parent(n) : Become(Relist(children, p, Append(Before(children[p], n), n)))

SetParent(n, p) ==
  /\ Called(<<"SetParent", n, p>>)
  /\ p # n
  /\ LET ch == Detach(children, n)
     IN  Become(Relist(ch, p, Append(ch[p], n)))
  /\ p \notin Below(n)

ClearParent(n) == Called(<<"SetParent", n, Null>>) /\ Become(Detach(children, n))

Next ==
  \E n \in Node :
    \/ CreateNode(n) \/ GetNode(n) \/ DropHandle(n)
    \/ SetRootNode(n) \/ SetRootNode(Null)
    \/ ClearChildren(n) \/ ClearNextSiblings(n) \/ ClearParent(n)
    \/ \E c \in Node :
         \/ SetFirstChild(n, c) \/ AppendChild(n, c) \/ RemoveChild(n, c)
         \/ SetNextSibling(n, c) \/ SetParent(n, c)
         \/ InsertChild(n, c, Null)
         \/ \E k \in Node : InsertChild(n, c, k) \/ ReplaceChild(n, c, k)

Spec == Init /\ [][Next]_vars
=============================================================================
