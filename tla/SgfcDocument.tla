---------------------------- MODULE SgfcDocument ----------------------------
(***************************************************************************)
(* The life of a document: SgfcDocumentReader and SgfcDocument build it    *)
(* from the tree that SGFC has parsed, the client edits its collection of  *)
(* games, SgfcNodeIterator visits its nodes, and SgfcDocumentEncoder turns *)
(* it into SGF content again.  The three traversals are loops over a stack *)
(* of nodes; an action is one round of such a loop.                        *)
(*                                                                         *)
(* SGFC's tree is external.  Its nodes are numbered in the order in which  *)
(* they appear in the SGF content, so that the tree is given by the depth  *)
(* of each of them; the roots of the games are siblings of each other.     *)
(* The node of the library made from SGFC's node n is also called n.       *)
(***************************************************************************)
EXTENDS Naturals, SequencesExt

CONSTANT MaxNode   \* bound: nodes in the SGF content

ASSUME DocumentAssumption == MaxNode \in Nat \ {0}

Node == 1 .. MaxNode
Null == 0
NodeOrNull == Node \cup {Null}

VARIABLES
  sgf,      \* SGFC's result of the load
  games,    \* SgfcDocument::games, each game named after its first root
  roots,    \* SgfcGame::rootNode of each game
  tree,     \* the links of the library's nodes
  data,     \* the properties of each node: read from SGFC's, CA set to UTF-8
  message,  \* the message that the reader adds to SGFC's
  parser,   \* SgfcDocument::SgfcDocument, ParseGameTreeDepthFirst
  iter,     \* SgfcNodeIterator::IterateOverNodesDepthFirst
  writer    \* SgfcDocumentEncoder::Encode, ParseDepthFirst

document == <<games, roots, tree, data, message>>
vars == <<sgf, document, parser, iter, writer>>

-----------------------------------------------------------------------------
(* SGFC's tree.                                                            *)

(* The depths of k nodes in the order of the content.                      *)
Depths(k) ==
  {d \in [1 .. k -> 0 .. k - 1] :
     \A n \in 1 .. k : IF n = 1 THEN d[n] = 0 ELSE d[n] <= d[n - 1] + 1}

(* The node that follows n in the content, and those up to the next one    *)
(* that is not deeper than n.                                              *)
Below(d, n) == {m \in n + 1 .. Len(d) : \A k \in n + 1 .. m : d[k] > d[n]}

SgfParent(d, n) ==
  LET above == {m \in 1 .. n - 1 : n \in Below(d, m)} IN IF above = {} THEN Null ELSE Max(above)

Child(d, n) == IF Below(d, n) = {} THEN Null ELSE n + 1

Sibling(d, n) ==
  LET next == n + Cardinality(Below(d, n)) + 1
  IN  IF next <= Len(d) /\ d[next] = d[n] THEN next ELSE Null

(* fatal: SGFC reported a fatal error; broken: the first node with a       *)
(* property that SgfcPropertyDecoder does not accept; exception: what it   *)
(* then throws, for instance std::domain_error for a second GM value, and  *)
(* std::logic_error for EX in Go; decoding: the encoding mode is not "no   *)
(* decoding".                                                              *)
SgfcResult(k) ==
  [depth : Depths(k), broken : 0 .. k, exception : {"none", "domain_error", "logic_error"},
   fatal : BOOLEAN, decoding : BOOLEAN]

SgfcResults ==
  UNION {{s \in SgfcResult(k) : (s.broken = Null) = (s.exception = "none")} : k \in Node}

-----------------------------------------------------------------------------
NoLinks == [n \in Node |-> Null]
NoTree == [parent |-> NoLinks, firstChild |-> NoLinks, nextSibling |-> NoLinks]

(* SgfcTreeBuilder::AppendChild, for a node that has no parent yet.        *)
Builder == INSTANCE GameTree WITH alive <- {}, held <- {}, rootNode <- Null, status <- "defined"
AppendChild(t, p, n) == Builder!InsertNodeAtNewLocation(t, n, p, Null)

Idle == [pc |-> "idle"]

Init ==
  /\ sgf \in SgfcResults
  /\ games = <<>> /\ roots = [n \in Node |-> Null]
  /\ tree = NoTree /\ data = [n \in Node |-> "none"] /\ message = "none"
  /\ parser = [pc |-> "game", root |-> 1, node |-> Null, parent |-> Null, stack |-> <<>>]
  /\ iter = Idle
  /\ writer = Idle

-----------------------------------------------------------------------------
(* Reading (SgfcDocumentReader, SgfcDocument).                             *)

Reading(pc) == parser.pc = pc /\ UNCHANGED <<sgf, iter, writer>>

(* The partial document and its nodes are destroyed.                       *)
Discard(pc, m) ==
  /\ games' = <<>> /\ roots' = [n \in Node |-> Null] /\ tree' = NoTree
  /\ data' = [n \in Node |-> "none"] /\ message' = m
  /\ parser' = [parser EXCEPT !.pc = pc, !.node = Null, !.parent = Null, !.stack = <<>>]

(* The client gets an empty document.                                      *)
EmptyDocument(m) == Discard("read", m)

(* Mutant: std::logic_error is caught like std::domain_error.              *)
RejectCatchingAll == EmptyDocument("SGFCInterfacingError")

(* The decoder does not accept a property.  The reader has a handler for   *)
(* std::domain_error; a plain std::logic_error passes through it, and the  *)
(* client gets neither a document nor a message.                           *)
Reject ==
  IF sgf.exception = "logic_error" THEN Discard("thrown", "none")
  ELSE EmptyDocument("SGFCInterfacingError")

(* The exit code of the load says that there is no data.                   *)
ReadFatalError == Reading("game") /\ parser.root = 1 /\ sgf.fatal /\ EmptyDocument("none")

(* Game type, board size and properties of SGFC's next root node are       *)
(* decoded; then there is a game, and its tree is parsed below the root.   *)
ReadGame ==
  /\ Reading("game") /\ ~sgf.fatal /\ parser.root # Null
  /\ LET n == parser.root
     IN  IF n = sgf.broken THEN Reject
         ELSE /\ games' = Append(games, n) /\ roots' = [roots EXCEPT ![n] = n]
              /\ data' = [data EXCEPT ![n] = "read"]
              /\ parser' = [parser EXCEPT !.pc = "tree", !.stack = <<n>>, !.parent = n,
                                          !.node = Child(sgf.depth, n)]
              /\ UNCHANGED <<tree, message>>

(* The inner loop: a node is created, appended, and its properties parsed. *)
(* AppendChild throws std::invalid_argument if there is no parent.         *)
ParseNode ==
  /\ Reading("tree") /\ parser.node # Null
  /\ LET n == parser.node
     IN  IF parser.parent = Null THEN EmptyDocument("ParseSgfContentError")
         ELSE IF n = sgf.broken THEN Reject
         ELSE /\ tree' = AppendChild(tree, parser.parent, n)
              /\ data' = [data EXCEPT ![n] = "read"]
              /\ parser' = [parser EXCEPT !.stack = Append(@, n), !.parent = n,
                                          !.node = Child(sgf.depth, n)]
              /\ UNCHANGED <<games, roots, message>>

(* The rest of the outer loop: back to the node on top of the stack, and   *)
(* on to its next sibling; a root node ends the game.                      *)
ParseNext ==
  /\ Reading("tree") /\ parser.node = Null
  /\ LET n == Last(parser.stack)
     IN  parser' = IF n = parser.root
                     THEN [parser EXCEPT !.pc = "game", !.stack = <<>>, !.parent = Null,
                                         !.root = Sibling(sgf.depth, n)]
                     ELSE [parser EXCEPT !.stack = Front(@), !.parent = tree.parent[n],
                                         !.node = Sibling(sgf.depth, n)]
  /\ UNCHANGED document

(* PostProcessDocument sets the character encoding of each game.           *)
ReadReturns ==
  /\ Reading("game") /\ parser.root = Null
  /\ data' = [n \in Node |-> IF sgf.decoding /\ n \in ToSet(games) THEN "UTF-8" ELSE data[n]]
  /\ parser' = [parser EXCEPT !.pc = "read"]
  /\ UNCHANGED <<games, roots, tree, message>>

(* After the exception the client has no document to work with.            *)
WithoutDocument == parser.pc = "thrown" /\ UNCHANGED vars

Read == ReadFatalError \/ ReadGame \/ ParseNode \/ ParseNext \/ ReadReturns

-----------------------------------------------------------------------------
(* The client edits the document's games.                                  *)

Editing ==
  /\ parser.pc = "read" /\ iter.pc = "idle" /\ writer.pc = "idle"
  /\ UNCHANGED <<sgf, tree, data, message, parser, iter, writer>>

AllGames == {n \in 1 .. Len(sgf.depth) : sgf.depth[n] = 0 /\ data[n] # "none"}

(* Mutant: does not look for the game in the document.                     *)
AppendAnyGame(g) ==
  /\ Editing /\ g \in AllGames /\ Len(games) < MaxNode
  /\ games' = Append(games, g)
  /\ UNCHANGED roots

AppendGame(g) ==
  /\ Editing /\ g \in AllGames /\ g \notin ToSet(games)
  /\ games' = Append(games, g)
  /\ UNCHANGED roots

RemoveGame(g) ==
  /\ Editing /\ g \in ToSet(games)
  /\ games' = RemoveFirst(games, g)
  /\ UNCHANGED roots

(* SetGames, and RemoveAllGames with the empty collection.                 *)
SetGames(gs) ==
  /\ Editing /\ IsInjective(gs)
  /\ games' = gs
  /\ UNCHANGED roots

(* Any node may become a root, with the tree below it: the links of the    *)
(* node to its siblings stay.  A bound: only one game at a time has a root *)
(* other than the one it was read with.                                    *)
SetRootNode(g, n) ==
  /\ Editing /\ g \in AllGames /\ \A h \in AllGames \ {g} : roots[h] = h
  /\ n # Null => data[n] # "none"
  /\ roots' = [roots EXCEPT ![g] = n]
  /\ UNCHANGED games

Edit ==
  \/ \E g \in Node : AppendGame(g) \/ RemoveGame(g)
  \/ \E g \in Node, n \in NodeOrNull : SetRootNode(g, n)
  \/ \E gs \in {<<>>, Reverse(games)} : SetGames(gs)

-----------------------------------------------------------------------------
(* Visiting (SgfcNodeIterator).                                            *)

Answers == {"VerticalAndLateral", "Lateral", "Ascend", "Stop"}

Visiting(pc) ==
  /\ iter.pc = pc
  /\ UNCHANGED <<sgf, document, parser, writer>>

(* The start node is any node; a bound: no iteration in an edited document.*)
IterateOverNodesDepthFirst(start) ==
  /\ Visiting("idle") /\ parser.pc = "read" /\ writer.pc = "idle"
  /\ data[start] # "none" /\ games = SetToSortSeq(AllGames, <) /\ \A g \in AllGames : roots[g] = g
  /\ iter' = [pc |-> "loop", start |-> start, node |-> start, stack |-> <<>>,
              continuation |-> "VerticalAndLateral", visits |-> <<>>]

(* Mutant: ascends from the node itself.                                   *)
VisitAscending(answer) ==
  /\ Visiting("loop") /\ iter.node # Null
  /\ LET n == iter.node
         visited == [iter EXCEPT !.continuation = answer, !.visits = Append(@, <<n, answer>>)]
     IN  iter' = CASE answer = "Stop" -> [visited EXCEPT !.pc = "returned"]
                   [] answer = "VerticalAndLateral" ->
                        [visited EXCEPT !.stack = Append(@, n), !.node = tree.firstChild[n]]
                   [] answer = "Lateral" -> [visited EXCEPT !.node = tree.nextSibling[n]]
                   [] OTHER -> [visited EXCEPT !.node = tree.nextSibling[n]]

(* The callback is called with the current node and answers.               *)
Visit(answer) ==
  /\ Visiting("loop") /\ iter.node # Null
  /\ LET n == iter.node
         visited == [iter EXCEPT !.continuation = answer, !.visits = Append(@, <<n, answer>>)]
     IN  iter' = CASE answer = "Stop" -> [visited EXCEPT !.pc = "returned"]
                   [] answer = "VerticalAndLateral" ->
                        [visited EXCEPT !.stack = Append(@, n), !.node = tree.firstChild[n]]
                   [] answer = "Lateral" -> [visited EXCEPT !.node = tree.nextSibling[n]]
                   [] OTHER -> [visited EXCEPT !.node = Null]

(* Mutant: the node stays on the stack.                                    *)
ReturnWithoutPop ==
  /\ Visiting("loop") /\ iter.node = Null
  /\ iter' = IF iter.stack = <<>> THEN [iter EXCEPT !.pc = "returned"]
             ELSE [iter EXCEPT !.node = tree.nextSibling[Last(iter.stack)]]

(* Back to the node on top of the stack, and on to its next sibling.       *)
ReturnToParent ==
  /\ Visiting("loop") /\ iter.node = Null
  /\ iter' = IF iter.stack = <<>> THEN [iter EXCEPT !.pc = "returned"]
             ELSE [iter EXCEPT !.node = tree.nextSibling[Last(iter.stack)], !.stack = Front(@)]

IterationReturns == Visiting("returned") /\ iter' = Idle

Iterate == (\E answer \in Answers : Visit(answer)) \/ ReturnToParent \/ IterationReturns

-----------------------------------------------------------------------------
(* Writing (SgfcDocumentEncoder).                                          *)

Writing(pc) ==
  /\ writer.pc = pc
  /\ UNCHANGED <<sgf, document, parser, iter>>

(* A token and the level of its indentation.                               *)
GameTreeToken(beginOrEnd, level) == <<[token |-> beginOrEnd, node |-> Null, level |-> level]>>
NodeToken(n, level) == <<[token |-> ";", node |-> n, level |-> level]>>

Encode ==
  /\ Writing("idle") /\ parser.pc = "read" /\ iter.pc = "idle"
  /\ writer' = [pc |-> "game", game |-> 1, node |-> Null, stack |-> <<>>, level |-> 0, out |-> <<>>]

(* The next game; one without a root node ends it with std::logic_error.   *)
EncodeGame ==
  /\ Writing("game") /\ writer.game <= Len(games)
  /\ LET root == roots[games[writer.game]]
     IN  writer' = IF root = Null THEN [writer EXCEPT !.pc = "thrown", !.out = <<>>]
                   ELSE [writer EXCEPT !.pc = "tree", !.node = root, !.level = 1,
                                       !.out = @ \o GameTreeToken("(", 0)]

(* Mutant: only looks for a previous sibling.                              *)
HasPreviousSibling(n) == Builder!GetPreviousSibling(tree, n) # Null

HasSiblings(n) == tree.nextSibling[n] # Null \/ Builder!GetPreviousSibling(tree, n) # Null

EncodeNode ==
  /\ Writing("tree") /\ writer.node # Null
  /\ LET n == writer.node
         level == IF HasSiblings(n) THEN writer.level + 1 ELSE writer.level
     IN  writer' = [writer EXCEPT
           !.level = level, !.stack = Append(@, n), !.node = tree.firstChild[n],
           !.out = @ \o (IF HasSiblings(n) THEN GameTreeToken("(", level - 1) ELSE <<>>) \o NodeToken(n, level)]

(* Mutant: the level stays that of the variation that ends.                *)
EncodeNextDeeper ==
  /\ Writing("tree") /\ writer.node = Null /\ writer.stack # <<>>
  /\ LET n == Last(writer.stack)
     IN  writer' = [writer EXCEPT
           !.stack = Front(@), !.node = tree.nextSibling[n],
           !.out = @ \o (IF HasSiblings(n) THEN GameTreeToken(")", writer.level) ELSE <<>>)]

EncodeNext ==
  /\ Writing("tree") /\ writer.node = Null /\ writer.stack # <<>>
  /\ LET n == Last(writer.stack)
         level == IF HasSiblings(n) THEN writer.level - 1 ELSE writer.level
     IN  writer' = [writer EXCEPT
           !.level = level, !.stack = Front(@), !.node = tree.nextSibling[n],
           !.out = @ \o (IF HasSiblings(n) THEN GameTreeToken(")", level) ELSE <<>>)]

(* The level of the outer loop is not touched by the inner one.            *)
EncodeGameEnd ==
  /\ Writing("tree") /\ writer.node = Null /\ writer.stack = <<>>
  /\ writer' = [writer EXCEPT !.pc = "game", !.game = @ + 1, !.level = 0,
                              !.out = @ \o GameTreeToken(")", 0)]

EncodeReturns ==
  /\ Writing("game") /\ writer.game > Len(games)
  /\ writer' = [writer EXCEPT !.pc = "returned"]

WriteReturns == writer.pc \in {"returned", "thrown"} /\ Writing(writer.pc) /\ writer' = Idle

Write ==
  EncodeGame \/ EncodeNode \/ EncodeNext \/ EncodeGameEnd \/ EncodeReturns \/ WriteReturns

-----------------------------------------------------------------------------
Next ==
  \/ Read
  \/ WithoutDocument
  \/ Edit
  \/ \E start \in Node : IterateOverNodesDepthFirst(start)
  \/ Iterate
  \/ Encode
  \/ Write

(* The loops run in the client's thread, which goes on.                    *)
Fairness == WF_vars(Read) /\ WF_vars(Iterate) /\ WF_vars(Write)

Spec == Init /\ [][Next]_vars /\ Fairness

-----------------------------------------------------------------------------
(* Types.  A stack holds a path of the tree, from a root down.             *)
IsPath(stack) == \A i \in 2 .. Len(stack) : tree.parent[stack[i]] = stack[i - 1]

TypeOK ==
  /\ sgf \in SgfcResults
  /\ games \in Seq(Node) /\ IsInjective(games)
  /\ roots \in [Node -> NodeOrNull]
  /\ tree \in [{"parent", "firstChild", "nextSibling"} -> [Node -> NodeOrNull]]
  /\ data \in [Node -> {"none", "read", "UTF-8"}]
  /\ message \in {"none", "ParseSgfContentError", "SGFCInterfacingError"}
  /\ parser.pc \in {"game", "tree", "read", "thrown"} /\ IsPath(parser.stack)
  /\ iter.pc \in {"idle", "loop", "returned"}
  /\ iter # Idle => IsPath(iter.stack)
  /\ writer.pc \in {"idle", "game", "tree", "returned", "thrown"}
  /\ writer # Idle => IsPath(writer.stack)

(* Reading gives all of SGFC's trees or nothing of them.  Without an error *)
(* each game of SGFC is a game of the document, in the same order, the     *)
(* nodes have the same children in the same order, and only the roots are  *)
(* no siblings any more; all properties are parsed, and the games' encoding*)
(* is corrected.  A property that is not accepted, even one of the last    *)
(* node, leaves an empty document and a message if the decoder throws      *)
(* std::domain_error; if it throws std::logic_error, that is all the client*)
(* gets: no document, no message, and nothing left of the partial document.*)
(* SgfcTreeBuilder's std::invalid_argument is never met.                   *)
ReadResult ==
  LET d  == sgf.depth
      in == 1 .. Len(d)
      thrown == IF sgf.fatal THEN "none" ELSE sgf.exception
      valid == ~sgf.fatal /\ sgf.broken = Null
  IN  /\ parser.pc = IF thrown = "logic_error" THEN "thrown" ELSE "read"
      /\ message = IF thrown = "domain_error" THEN "SGFCInterfacingError" ELSE "none"
      /\ ToSet(games) = IF valid THEN {n \in in : d[n] = 0} ELSE {}
      /\ \A i, j \in DOMAIN games : i < j => games[i] < games[j]
      /\ data = [n \in Node |-> IF ~valid \/ n \notin in THEN "none"
                                ELSE IF sgf.decoding /\ d[n] = 0 THEN "UTF-8" ELSE "read"]
      /\ tree = IF ~valid THEN NoTree ELSE
           [parent      |-> [n \in Node |-> IF n \in in THEN SgfParent(d, n) ELSE Null],
            firstChild  |-> [n \in Node |-> IF n \in in THEN Child(d, n) ELSE Null],
            nextSibling |-> [n \in Node |-> IF n \in in /\ d[n] > 0 THEN Sibling(d, n) ELSE Null]]

IsReadOver == parser.pc \in {"read", "thrown"}

ReadAllOrNothing == [][~IsReadOver /\ IsReadOver' => ReadResult']_vars

(* The nodes an iteration that starts at s may meet: the tree below s and  *)
(* those of its next siblings.                                             *)
Within(s) ==
  {n \in Node : data[n] # "none" /\ n >= s /\
     (n = s \/ n \in Below(sgf.depth, s) \/
       (tree.parent[s] # Null /\ n \in Below(sgf.depth, tree.parent[s])))}

(* The callback sees the nodes in the order of the content, and exactly    *)
(* those its answers ask for: below a node it has seen and wanted to see   *)
(* below, unless it has stopped or left that level.                        *)
VisitsAreRequested ==
  iter.pc = "returned" =>
    LET visits == iter.visits
        Saw(n, answers) == \E i \in DOMAIN visits : visits[i][1] = n /\ visits[i][2] \in answers
        Due(n) ==
          /\ \A m \in Within(iter.start) :
               /\ m < n => ~Saw(m, {"Stop"})
               /\ n \in Below(sgf.depth, m) => Saw(m, {"VerticalAndLateral"})
               /\ m < n /\ tree.parent[m] = tree.parent[n] => ~Saw(m, {"Ascend"})
    IN  /\ \A i, j \in DOMAIN visits : i < j => visits[i][1] < visits[j][1]
        /\ \A n \in Node : Saw(n, Answers) = (n \in Within(iter.start) /\ Due(n))

(* What SGFC reads from the tokens: the nodes in order, with their depths. *)
Unread == [open |-> <<>>, depth |-> 0, nodes |-> <<>>]

ReadToken(state, t) ==
  CASE t.token = "(" -> [state EXCEPT !.open = Append(@, state.depth)]
    [] t.token = ")" -> [state EXCEPT !.open = Front(@), !.depth = Last(state.open)]
    [] t.token = ";" -> [state EXCEPT !.nodes = Append(@, <<t.node, state.depth>>), !.depth = @ + 1]

ReadTokens(tokens) == FoldLeft(ReadToken, Unread, tokens)

(* The nodes of a game in the order of SGFC's content, where those below a *)
(* node follow it, with their depths below the game's root.                *)
GameNodes(g) ==
  LET r == roots[g]
  IN  [i \in 1 .. 1 + Cardinality(Below(sgf.depth, r)) |->
         <<r + i - 1, sgf.depth[r + i - 1] - sgf.depth[r]>>]

(* Reading the content that was written gives the games of the document    *)
(* with their trees, each node where it was below the root of its game, if *)
(* no root has a sibling.                                                  *)
RoundTrip ==
  writer.pc = "returned" /\ (\A g \in ToSet(games) : ~HasSiblings(roots[g])) =>
    ReadTokens(writer.out).nodes = FlattenSeq([i \in DOMAIN games |-> GameNodes(games[i])])

(* The content is SGF: parentheses balance, each one that opens is followed*)
(* by a node, no node follows one that closes, and a token is indented by  *)
(* the number of the parentheses around it.  Only the parentheses of a     *)
(* game whose root has siblings stand around those of the root.            *)
WellFormed ==
  writer # Idle =>
    LET out == writer.out
        Opened(i) == Cardinality({j \in 1 .. i : out[j].token = "("})
        Closed(i) == Cardinality({j \in 1 .. i : out[j].token = ")"})
        Game(i) == games[Cardinality({j \in 1 .. i : out[j] = GameTreeToken("(", 0)[1]})]
    IN  /\ \A i \in DOMAIN out :
             /\ Closed(i) <= Opened(i)
             /\ out[i].level = Opened(i) - Closed(i) - IF out[i].token = "(" THEN 1 ELSE 0
             /\ i > 1 /\ out[i - 1].token = "(" =>
                  (out[i].token = "(") = (out[i - 1].level = 0 /\ HasSiblings(roots[Game(i)]))
             /\ i > 1 => (out[i - 1].token = ")" => out[i].token \in {"(", ")"})
        /\ writer.pc = "returned" => Opened(Len(out)) = Closed(Len(out))

(* The loops end, whatever the callback answers.                           *)
TraversalsEnd ==
  /\ <>IsReadOver
  /\ iter.pc = "loop" ~> iter.pc = "idle"
  /\ writer.pc = "game" ~> writer.pc = "idle"
=============================================================================
