# A TLA+ model of libsgfc++

libsgfc++ is a C++ library that reads, edits and writes SGF game records (Go and other board games). It wraps
SGFC, a C program for checking and correcting SGF files. These modules model the library's own logic, TLC
checks them on small instances, and TLAPS proves most of what is checked for instances of any size: of the node trees, the
properties of nodes, the backend, documents, game info, arguments, points and dates.

Paths below are relative to the repository root.

## 1. The system

| Component | State | Operations | Who uses it |
|---|---|---|---|
| Node trees: `SgfcNode`, `SgfcTreeBuilder` (`src/document/`) | per node a weak pointer to the parent, strong pointers to first child and next sibling, and the properties | `SetFirstChild`, `AppendChild`, `InsertChild`, `RemoveChild`, `ReplaceChild`, `SetNextSibling`, `SetParent`; navigation; the destructor | the client, `SgfcDocument` |
| Documents: `SgfcDocument`, `SgfcGame`, `SgfcNodeIterator` | the list of games, the root node of each | building from SGFC's tree, `AppendGame`, `RemoveGame`, `SetGames`, `SetRootNode`, depth-first iteration with a callback that steers it | the client, the readers and writers |
| Encoder and decoder (`src/parsing/`) | none between calls | a document to SGF text; SGFC's value strings to typed values | writer; document |
| Game info (`src/game/`) | an object with a copy of the root and game info properties, raw and decomposed | `CreateGameInfo`, setters, `WriteGameInfo` of games and of nodes | the client |
| Value types: points, moves, stones, dates, results, ranks, rulesets, board sizes | immutable | conversion to and from text | game info, decoder, client |
| Backend (`src/sgfc/backend`, `message`, `save`) | a global mutex; SGFC's global hooks; static buffers of `SgfcMessageStream` and `SgfcSaveStream`; per controller the options and the validity of the command line | parse arguments, load, save to files or to a string | the frontends |
| Frontends: `SgfcCommandLine`, `SgfcDocumentReader`, `SgfcDocumentWriter` | the last load and save result | load, save, read, write | the client |
| Properties and values (`src/document/`, `src/factory/`) | per node a sequence of property objects; per property a sequence of immutable values | set, append and remove properties of a node and values of a property; inherited properties; the factories' checks and texts | the client, the decoder, game info |
| Arguments and options (`src/sgfc/argument/`, `SgfcOptions`) | a collection of arguments; the options that a controller has captured | add and clear arguments; capture and restore options | the frontends, the backend |
| Meta information (`SgfcConstants`, `SgfcPropertyMetaInfo`) | constant tables | lookup | everything |
| SGFC (git submodule, not in the tree) | hooks, parser data | `LoadSGF`, `ParseSGF`, `SaveSGF`, `ParseArgs` | the backend |

A client reads a file through a frontend. The frontend has a controller parse the arguments and load the file
under the global mutex; while SGFC runs it calls back into the message stream, the save stream and the
out-of-memory hook. `SgfcDocument` walks the tree SGFC returns and appends a node of its own for each of
SGFC's, with properties from the decoder. The client then edits the nodes through the builder, takes and writes
back game info, iterates, and writes: the encoder's text goes through the same backend again.

What is hard here, and what makes each component correct:

* **Node trees.** Every builder operation is a sequence of pointer assignments in which the wrong order frees
  nodes still needed; whether a sequence of legal calls goes wrong depends on earlier calls and on which
  handles the client still holds. Correct: parent, child and sibling links agree, there is no cycle, nothing is
  used after it is freed and nothing is leaked, and each operation moves whole subtrees to the place asked for.
* **Backend.** All of SGFC's state is global. Threads interleave; SGFC reports, fails, runs out of memory and
  leaves through C++ exceptions at any moment. Correct: operations are serialized, messages reach the
  operation that caused them, nothing is left behind, a partial save is not a success.
* **Documents.** Three loops with an explicit stack each. Correct: all or nothing on reading, the tree written
  is the tree read, the iteration visits what the callback's answers ask for, and all of them end.
* **Game info.** A snapshot that is changed and written somewhere else later; two representations of the same
  text; a search for the node that holds it. Correct: what is written is what is read, writing back changes
  nothing, the raw and decomposed values agree.
* **Values.** Two directions of a conversion written separately, some of which depend on the locale of the process.
  Correct: they are inverse where they should be.
* **Properties of nodes.** Five ways to edit a sequence in which neither a name nor a type may occur twice. Correct: it
  is a map from names to properties, a property of an ancestor never hides that of its descendant, and what a game makes of its
  properties GM and SZ is what the decoder makes of them when it reads the file that was written.
* **Arguments.** An argument passes through four representations before SGFC acts on it. Correct: it takes effect in each
  operation of its controller, and nothing else does.

Only the backend is concurrent: `doc/Principles.md` ("Concurrency") leaves the synchronization of a document
to the client. Nothing is persisted except the files that are saved, and nothing is restarted.

The hazards that follow from this are listed in PROJECT.json with their lines and the properties that cover
them, or a note why none does.

## 2. The modules

| Module | What it is |
|---|---|
| `OrderedForest` | abstract specification of the trees: a sequence of children for each node, and one operation on these sequences for each method of the builder |
| `GameTree` | the nodes with their links, reference counts and the builder, assignment by assignment |
| `GameTreeRefinement` | `GameTree` implements `OrderedForest`: each call does to the sequences what the operation of that name and those arguments does |
| `GameTreeProofs` | the proofs about `GameTree`: links, cycles, memory |
| `SgfcBackend` | threads, frontends, controllers, mutex, hooks and streams |
| `SgfcBackendProofs` | the proofs about `SgfcBackend` and `Arguments` |
| `SgfcDocument` | reading, editing the list of games, iterating and encoding; it takes the insertion of a node from `GameTree` |
| `SgfcDocumentProofs` | the proofs about `SgfcDocument` |
| `PropertyTables` | the constant tables: property types with names, categories, traits and value types; game types |
| `PropertyMap` | abstract specification of a node's properties: a set with one property of each name |
| `NodeProperties` | the sequence of properties of each node, the operations on it, traits and inherited properties; it implements `PropertyMap` |
| `RootProperties` | the properties GM and SZ, as a client edits them, a game interprets them and the decoder does |
| `NodePropertiesProofs` | the proofs about `NodeProperties` and `RootProperties` |
| `Arguments` | arguments, the command line made of them, the options captured and restored |
| `GameInfo` | taking, changing and writing game info |
| `GameInfoProofs` | the proofs about `GameInfo` |
| `Dates` | composing and decomposing the dates of a game, with their shortcuts |
| `Points` | the three notations of points of a Go board |
| `ConversionProofs` | the proofs about `Points` and `Dates` |
| `PropertyValues` | escaping, splitting and decoding the values of properties |
| `PropertyValuesProofs` | the proofs about `PropertyValues` |
| `TypedValues` | numbers, reals, doubles and colors: the factory's texts, and what the decoder makes of any text |
| `GameTexts` | the texts of results, ranks, rounds and rulesets, in both directions |
| `GameTextsProofs` | the proofs about `TypedValues` and `GameTexts` |
| `MC...` | instances for TLC |

Definitions have the names of the functions they translate. Definitions commented with "Mutant" are variants of
the one that follows: the code with a plausible mistake. They are part of no specification; each property
fails when its variant takes the place of the original, which shows that the property says something about
that code.

**GameTree.** `tree` has the links, `held` the client's `shared_ptr`s, `rootNode` that of `SgfcGame`, `alive`
the existing nodes. An action is one call of a public method: its early returns and exceptions are guards (such a
call changes nothing), its effect is the composition of the private methods `RemoveNodeFromCurrentLocation`,
`RemoveNodeAndAllNextSiblingsFromParent` and `InsertNodeAtNewLocation`, and it ends with `Settle`: nodes
without a strong reference are destroyed, weak pointers to them expire. `Walk` is what a `while` loop along a
link visits, defined as a least fixed point so that it exists for any links and can be proved about. Undefined
behaviour (a null pointer dereferenced, a sibling used after it was freed) sets `status` and ends the behaviour,
since nothing can be said of what follows.

**SgfcBackend.** Each thread has one frontend at a time with its controller, and a program counter through the
controller's operations. The mutex, the hooks, the streams' static fields and "exit() has been called" are
shared. SGFC is external: it may report warnings and fatal errors, open and close files, fail, or run out of
memory at every step, which throws through the library's hook if that is installed and ends the process otherwise.
`target` is what a save writes to. A string starts with what the save finds in it (`Untouched`): its client's content, or, since a
document writer passes the client's string by reference and encodes into it, the encoded document, which is neither checked nor written by SGFC.

**SgfcDocument.** SGFC's tree is any forest in which a node may carry a property the decoder rejects, with `std::domain_error`, which
the reader catches, or with a plain `std::logic_error`, which it does not: reading then ends without a document (`"thrown"`). Every round
of the three loops is an action. The encoder's output is a sequence of tokens. A client may give a game any node as its root,
also one that has siblings, whose tree is then written with the siblings' brackets: `RoundTrip` and `WellFormed` say what such a file is.

**GameInfo.** A node's properties are a function from property types to values. One type with a decomposed value
of every game (RE, for DT, RE, RO), types with a decomposed value of Go only (BR, WR, for BR, WR, RU), a number of Go
(HA, for HA, KM), the number of every game (TM) and one plain text (PB) stand for the rest, which take the same path through the code. Texts are classes that
the conversions distinguish: none, canonical, another text with the same meaning, one of a wrong form, one of
the right form whose number cannot be converted. Decomposed values are those the conversion gives, and three kinds (`OneWay`) of which it does not give the value back:
dates that are refused, of which there is no text, although the object keeps them; a negative score or rank, whose text has a wrong form; and a value whose text is that of another one, as
a round type with a parenthesis. A property of a file or a client may also hold what reads like nothing - an empty text, a value of another type, a number
that is none - or several values, of which the first counts.

**Dates.** `ToPropertyValue` and `FromPropertyValue` are loops; `ComposeDate` and `DecomposeItem` are one
iteration each, `loop` their local variables. Behaviours start either with dates of a client, which may be shortcuts already, or
with the items of a file, and end with decomposing what was composed. A part of an item has a width and a value, which is
all the code looks at. The table of shortcuts is written once, as in a comment of `SgfcDate.cpp`; what each of the two methods does
with it is not.

**Points.** A character has its ASCII code, because the code calculates with it, a number its value. `ConstructPoint` is the constructor
with any text and board size, `ConstructAgain` the constructor with a text that the point itself has built.

**TypedValues.** Reals are integers, their hundredths; a stream of the library writes `RealPrecision` significant digits, and the
locale of the process decides on the separators, as it does in the code, because only some of its streams set a locale of their own. What SGFC
lets pass is what has the form of the SGF standard; the decoder's conversion is applied to any text, because it does not rely on SGFC.

**GameTexts.** A client makes a text of a value, or reads one from a file, and may write what it has read. The regular expressions
are operators on sequences of tokens. Texts on which a conversion throws lead to the stage "logic_error".

**NodeProperties.** The tree is fixed (`NodeParent`), since its edges matter only to `GetInheritedProperties` and `GetTraits`, which are
functions of a state. `propertyName` gives each property object its name, which never changes; a custom property has the type Unknown. An action
is one call, which changes the sequence of a node or throws; `lastCall` and `outcome` let the refinement match it with the operation of
`PropertyMap` of the same name.

**RootProperties.** A value is a number, a pair of numbers (a composed value), or no number. The client edits GM and SZ in all ways the interface
has, the properties' own checks included; SGFC corrects what it reads (external); then the decoder determines the game type and board size of the game
before it decodes anything else, and the game is compared with that.

**Arguments.** A collection of arguments with the checks of `AddArgument`, the controller's constructor, and the copy of the options that it restores
for each operation. What SGFC makes of a command line is external: its options are those it has by default, with each argument applied.

**PropertyValues.** `PropertyTypes` has one property for each descriptor of `PropertyTables` (none, number, text, simple
text, move, list and elist, composed, dual, unknown), which `RepresentativesAssumption` checks for all properties and game types, and
those whose moves have no color. Values are sequences of one text or two, texts sequences of characters.
`Encode` is the encoder's work on one property; `Decode` is SGFC (external: it splits and unescapes) and then the decoder, with its exception
for a value of the wrong shape; `escapeProcessingEnabled` is its parameter, which no caller sets; `TakeReadValues` is what the client does when it writes what it has read.
That SGFC unescapes all texts and the points, moves and stones of other games than Go, and splits their rectangles, is what
`doc/SgfcNotes.md` and comments of the decoder say.

## 3. The runs

| Run | Instance | What it shows |
|---|---|---|
| `tree` | 4 nodes, all handles, symmetric; 22633 states | `LinksConsistent`, `Acyclic`, `NoLeak`; only a self reference crashes `InsertChild`; refinement of `OrderedForest` |
| `tree_use_after_free` | violation | finding 1 |
| `tree_self_reference` | violation | finding 2 |
| `tree_orphan_siblings` | violation | finding 3 |
| `backend` | 2 threads, 1 message per operation, 2 files per save; 163160 states | mutual exclusion, own messages, clean hooks, no interfacing error, correct results of partial saves, only loaded data saved, process ends only before a hook is installed, the mutex is released |
| `backend_later_exit` | violation | finding 4 |
| `document` | all content of up to 4 nodes, and each game with each root; 59372 states | all-or-nothing reading with every exception, round trip, well-formed output, visits asked for, termination |
| `game_info` | trees of up to 3 nodes, 2 changes by the client; 434373 states | write then read; what writing back removes and leaves; agreement of raw and decomposed values after every call; when a write gives a path a second game info node |
| `game_info_no_node` | violation | finding 5 |
| `game_info_white_rank` | violation | finding 6 |
| `game_info_unconvertible` | violation | finding 7 |
| `values` | lists of up to 3 dates, texts of up to 4 characters or tokens, boards at all limits, a path of 3 nodes with 3 property objects, 2 values of GM and SZ, 2 arguments; 433345 states | composed dates read back as they were meant, nothing but errors keeps dates from being composed, shortcuts are used; the notations of a point agree; texts survive writing and reading, and never damage the file around them; typed values and the texts of game info read back; properties of a node are unique and a map; inherited properties are those of the nearest ancestor; the decoder decodes a game for the type and board size it has; arguments take effect |

**Why the bounds are enough.** Four nodes give every situation the builder tells apart: a parent with a first,
a middle and a last child, a move between two parents, a subtree of depth three. There is no bound on the number
of calls. Node symmetry is sound: no node is distinguished. The view of `tree` records how a call ended only as
far as the properties use it. In the backend a conflict needs two threads; one message suffices to
tell whose it is, and two files to have a save that is partial. Four nodes in a document give several games,
variations at two levels and a rejected node in the middle of a variation. At most one game at a time has a root other than the one it was
read with, since the encoder writes games one after the other; iterations run in unedited documents, because an
iteration looks neither at games nor at roots. In `game_info` three nodes give a
path with two game info nodes and two paths with one each; `MaxEdit` bounds the client's changes of nodes and of its
object, not the calls that take and write game info; two changes suffice to set a text before and after a
snapshot. `TextTypes` is {RE, BR, PB} and the only type of a game besides Go is unknown, 99, because of the run's time; WR is in `game_info_white_rank`, and the
proofs hold for all types.
In `values` a chain of three dates is the shortest in which the second is a shortcut that the third is read against; years,
months and days have a missing one, two that differ, and February 29 of a leap year and of another; sizes and numbers are those at
which the notations change (9, 25 to 27, 52, 53) and 60, a row whose SGF notation is that of another one; `MaxInt` is 100 so that a number
beyond the largest int is short; five characters make every kind of text there is for the encoder, and four in a row hold
an escape sequence next to each end of the value. Points, moves and stones of other games than Go (`RawValues`) are all texts of up to two characters, the empty one
included, those of three without the end of a value, and a line ending, escaped or not. Numbers are on both sides of a thousand, where separators begin, and of `MaxNumber`; reals and scores
have more digits than `RealPrecision` (3 instead of the stream's 6, so that texts stay short) and none; texts of numbers, reals, results,
ranks and rounds are all sequences of the tokens their forms consist of and of one that belongs to none. A path of three nodes has an
ancestor between two others; the three namings give two objects of one name, of a custom and of a standard property, and of different
types. Two arguments suffice for a conflict, and for the order of two. The models of `values` share no state but the locale; in each
behaviour one of them is active.

**Deadlock** is not checked in `tree` and `game_info`, where undefined behaviour ends a behaviour on purpose, and in
`values`, where a conversion ends. It is checked in the others.

**Fairness.** Two liveness properties need it. `LockIsReleased` (whoever has the mutex gives it back, whatever SGFC does) assumes
weak fairness of each thread's steps inside the backend: SGFC's loops over finite input end, and the operating system
runs a runnable thread. Nothing is assumed about acquiring the mutex: `std::mutex` is not fair, and the
model does not claim that a waiting thread gets it. `TraversalsEnd` assumes weak fairness of the
loops of reading, iterating and encoding: they run in the client's thread, which goes on. The client itself is never
assumed to call anything.

## 4. Findings

1. `SetFirstChild` and `SetNextSibling` use a sibling after freeing it (`SgfcTreeBuilder.cpp:336`): the loop clears the
   link that keeps the next sibling alive, then goes on with a raw pointer to it. It needs siblings that nobody else refers to.
2. `InsertChild(node, child, child)` passes the checks and dereferences a null pointer (`SgfcTreeBuilder.cpp:123`).
3. A child that outlives its parent is a root with a next sibling (`SgfcTreeBuilder.cpp:275`), which the documentation excludes.
4. The constructor of a later controller may end the process when it is out of memory (`SgfcBackendController.cpp:47`).
5. `SgfcGame::WriteGameInfo` throws if there is no game info node (`SgfcGame.cpp:160`).
6. `SetWhitePlayerRank` changes the black player's decomposed rank (`SgfcGoGameInfo.cpp:121`).
7. A result such as `B+.` makes `CreateGameInfo` throw `std::logic_error` (`SgfcGameResult.cpp:106`); an overlong number in
   a rank does the same (`SgfcGoPlayerRank.cpp:56`).

Each is a run that is expected to violate the quoted sentence; PROJECT.json has the quotations.

Some deviations in the conversions have no run of their own. They are stated as exceptions in properties that pass, each of
which fails without its exception:

* `ComposedUnlessErroneous`, `IsMonthAfterDay`: 2019-01-01 followed by 2019-02 makes `ToPropertyValue` fail
  (`SgfcDate.cpp:367` reduces the second date to a month, which `:512` then does not allow after a day). The failures that
  `include/SgfcDate.h:177` lists do not include it.
* `ShortcutWherePossible`: a complete date after its own year and month is not shortened to month and day, although
  "shortcuts are built [...] wherever possible" (`include/SgfcDate.h:147`).
* `NotationsAgree`: on a board with more than 52 rows, points get an SGF notation that is invalid or that of another point.
* `ValuesReadBack`, `HasEscapedLineEnding`: a Text that has a backslash before a line ending loses both when it is read, although
  "library clients never need to deal with escaping" (`doc/SgfNotes.md:76`).
* `TypedValuesKept`, `HasThousandsSeparator`, `HasManyDigits`, `HasForeignPoint`: the factory writes a number with the separators of the locale
  (`SgfcPropertyValueFactory.cpp:53`) and a real with six digits only; the decoder reads a real with the decimal point of the locale
  (`SgfcValueConverter.cpp:98`).
* `TextsReadBack`, `HasNoText`: negative scores and ranks, and round types with an opening parenthesis or a line break, have no text that is read as the
  same value.
* `ArgumentsTakeEffect`, `ShortEncodings`: an encoding whose name is a single character is dropped (`SgfcOptions.cpp:85`). The type
  Unknown as a parameter is accepted by `AddArgument`, but makes the constructor of the controller throw.
* `ValuesReadBack`, `HasDroppedValues`: of several values of a custom property the decoder keeps the first, without a message
  (`SgfcPropertyDecoder.cpp:214`).
* `ValuesReadBack` and `SkeletonIntact`, `HasVanishingValue`: the decoder takes an elist whose first value has an empty text for the empty list
  (`SgfcPropertyDecoder.cpp:187`), as when the first point of a game but Go is empty, or nothing is left of it because it was an escaped line ending. What
  follows is lost without a message. The factory accepts any text as such a point (`SgfcPropertyValueFactory.cpp:120`).
* `SkeletonIntact`, `HasMoveWithoutColor`: EX, whose values are moves without a color, makes the decoder throw `std::logic_error` for a game of Go, which a
  document reader does not catch (`SgfcPropertyDecoder.cpp:1042`). The comments of `SgfcDocument.cpp` (76, 172, 175) know `std::domain_error` only, and
`include/ISgfcDocumentReader.h` names no exception. `ReadAllOrNothing` says what a client gets: no document, no message, and nothing of the partial document.
* `FailureDeliversNothing`: a save to a string that runs out of memory skips the line that clears the string (`SgfcBackendController.cpp:343`). It keeps its old content, although
  "the previous content of @a sgfContent is overwritten" (`include/ISgfcCommandLine.h:174`); that of a document writer holds the whole encoded document (`SgfcDocumentWriter.cpp:88`),
  even if SGFC has already found a fatal error in it. Only the messages tell it from the result of a success.
* `ValuesFollowTexts`, `OneWay`: decomposed values that have no text, or one that is read as another value, stay in a game info object beside that text
  (`SgfcGameInfo.cpp:170`). Read back they are invalid or another value.
* `WriteBackKeepsGameInfo`, `SaysNothing`, `FirstOf`: writing back what was read removes empty texts, `TM[0]`, and numbers that are none (`SgfcGameInfo.cpp:402`, `:415`), and leaves the first
  of several values.
* `SkeletonIntact`, `HasBreakout`: a backslash in a point, move or stone of another game than Go is lost, or takes the end of the
  value with it, when what was read is written again without the client escaping it. `doc/SgfNotes.md:91` makes this the client's
  responsibility.

Others were met while modelling; no property is about them:

* `AddArgument` accepts message IDs that SGFC does not know (`include/ISgfcArguments.h:126` promises an exception); they make
  the command line invalid instead.
* A document writer has the argument `DefaultEncoding` from the start, so that a client has to clear the arguments before it can add its own.
* `SetProperty` of a property that the node has moves it to the end of the sequence (`SgfcNode.cpp:340`), where `include/ISgfcNode.h:305`
  says "The method does nothing". The set of properties is the same.
* `SgfcNode::WriteGameInfo` and the factory's `CreateProperty` for GM and SZ dereference a null pointer they are given
  (`SgfcNode.cpp:286`, `SgfcPropertyFactory.cpp:166`); `include/ISgfcNode.h:252` promises an exception for the first. No call with null is modelled.
* A descriptor for values composed of a stone and a point is built with its parts swapped; no property uses it.

## 5. The proofs

Each module of proofs has a theorem for each property named below, for every value of the constants that the assumptions of its module admit.
What the assumptions say is quoted where it is more than the kinds of the constants.

**Node trees** (`GameTreeProofs`, for any finite set of nodes).

* `TypeCorrect`, `LinksAlwaysConsistent`, `AlwaysAcyclic`: `Spec => []TypeOK`, `[]LinksConsistent`, `[]Acyclic`.
* `NeverLeaks`: `Spec => []NoLeak`. `CrashesOnlyOnSelfReference`: `Spec => OnlySelfReferenceCrashes`.
* `TreesAreOrdered`: `CallSpec => ForestSpec`, the refinement of `OrderedForest`.

`LinksConsistent` is not inductive: that the children of a node are the nodes whose parent it is says nothing
about siblings of roots, and it is stated with `Walk`, which no step lets one compute. The invariant is
`TreeInv == TypeOK /\ Consistent(tree) /\ NoCycle(tree)`. `Consistent` consists of four local facts about links (a first
child has that parent; siblings have the same parent; no two nodes below a parent share a next sibling or are followed by its first
child) and one global one: a set of nodes that is closed under next sibling and has a node's first child
contains all its children. `NoCycle` says that a nonempty set of nodes cannot have the parents of all its
members; it is what makes `GetPreviousSibling` and the insertion keep lists finite, and gives `Acyclic`.
Each private method of the builder has lemmas that it keeps the types, `Consistent` and `NoCycle`
(`RemoveConsistent`, `RemoveRowConsistent`, `InsertConsistent`, `PruneConsistent`, `InsertNoCycle`, ...); `SoundStep` combines them
with one step per public method, and `AppendChild`'s check for an ancestor is what `InsertNoCycle` needs.

Memory needs two facts more: `NoSiblingCycle`, since the next siblings of nodes without a parent (finding 3) hold strong references too, and
`Referenced`, that every node alive has a handle or is referred to by a node alive. Together with `NoCycle` a set of nodes that only refer to each
other is empty. A null pointer can only come from a previous or last sibling that does not exist; the lemmas that these exist fail in
one case, the reference child that has just been unlinked.

For the refinement the order of the children matters, of which `Consistent` says nothing. `IsRow(t, p, seq)` says that the links of `p` and its children
are those of the sequence `seq`, and `Listed(t, ch)` that all links are those of the trees `ch`; the invariant `ForestInv` adds to the memory's that the links are those
of some ordered trees. `RowsAreListed` identifies these with the refinement mapping: a row has no node twice and so is no longer than the number of nodes, up to which
`GetChildren`, a recursive function over numbers, agrees with the row's elements by the least number at which it would not. Each private method then has a lemma which
operator on sequences it is (`RemoveDetaches`: `Detach`; `InsertMoves`: a node before another or at the end; `CutRow`, `ClearRow`: what is left of a cut row;
`PruneListed`: the rows of the survivors), and each call one that puts them together in the order of the code (`MoveSteps`, `ReplaceChildSteps`,
`SetNextSiblingSteps`, ...). `ReplaceChild` and `SetNextSibling` do it in another order than `OrderedForest` says: `ReplaceRemoves` and `CutThenRemove`
show that the result is the same. A call that ends in undefined behaviour changes no tree and is a stutter.

**Backend** (`SgfcBackendProofs`, for any set of threads and any bounds).

* `AlwaysSerialized`, `AlwaysQuiet`, `NeverAnInterfacingError`: the mutex, hooks and streams.
* `BackendTypes`, `AlwaysOwnMessages`, `AlwaysParsedBeforeSaved`, `AlwaysSuccessIsComplete`, `AlwaysFailureDeliversNothing`: types and results.
* `NeverExitsLater`: `Spec => ExitsOnlyBeforeFirstController`.

None of the first three is inductive alone. `BackendInv` joins them with `InOrder`, which says for each program counter which streams are
closed there: before the constructor of `SgfcMessageStream` and after its destructor it is, and the save stream is everywhere but
during `SaveSGF`. With it each constructor finds its stream closed, and the mutex is given back after both are. All actions are instances
of two lemmas: `OutsideStep`, a step of a thread outside the backend leaves the mutex and streams alone; `InsideStep`, a step of the thread with the
mutex may change them, since `Serialized` keeps the others outside.

The results need `ResultInv`: `BackendInv`, the types, and for each thread `Local`, which relates its fields at each program counter
(`Owned`: who has the hook; `DataKnown`: what SGFC has loaded; `NothingYet`, `Delivered`, `Reported`: what the result holds until then), and for the thread
inside the backend `Streams`, what the buffers shared by all threads hold of its operation. A step changes the record of one thread, and the shared
buffers only if that thread has the mutex, so that the others keep `Local`. All messages of an operation that runs out of memory may be lost; the theorems
say what the properties do about that.

**Properties of nodes** (`NodePropertiesProofs`, for any tree, any set of property objects and any names).

* `AlwaysUnique`: `NodePropertiesSpec => []UniqueProperties`.
* `SequencesImplementMap`: `NodePropertiesSpec => ImplementsPropertyMap`, which is `Map!Spec`.
* `InheritanceIsNearest`: `NodePropertiesSpec => []InheritedIsNearest`. The tree may be any in which a nonempty set of nodes has one whose parent
  is not in it (`NodeParentAssumption`): trees have no cycle, as `AlwaysAcyclic` shows of those the builder makes.

The invariant is that every node's sequence is one that `ValidateProperties` accepts, with its types. `SetProperty` does not call that, but erases by name and
then by type: `EraseTypeIdle` shows that the second never finds anything, because a standard type belongs to one name (`TypeTellsName`). Each
operation has a lemma that says which sequence it assigns, that this is valid, and which set it has for elements; the
invariant and the refinement, one operation of `PropertyMap` for each, both follow from these.

Inheritance follows from the invariant alone, but needs an account of the loops. `PathToRoot` is a recursive function: `EachHasPath` builds the path of a node from that of its
parent, and `PathsAgree` shows that there is one, both with a node whose parent is not among the counterexamples; `PathRest` says that the path of an ancestor is the
rest of a node's path, so that an ancestor is nearer if it is earlier on it. The loops are folds, and `FoldSteps` turns a fold whose operation is given as a function into
the sequence of the values it takes on (`CollectSteps`, `CollectFromSteps`, `CategorySteps` make such functions of the loops' bodies). Induction over the steps (`UpTo`,
on the set of the numbers for which a claim holds) then gives what a node adds (`NodeAdds`: its inheritable properties whose names were not seen; here `UniqueProperties`
is needed) and what the first `k` nodes of a path pass on (`InheritedAre`, `Nearest`).

**Game info** (`GameInfoProofs`, for any tree, any values and bounds).

* `GameInfoTypesHold`: `Spec => []TypeOK`.
* `ValuesAgreeWithTexts`: `Spec => ValuesFollowTexts`, for all text properties. The property has the setter of the white player's rank (finding 6) as an
  exception, and what it leaves behind, because with WR the simpler `ValueAgreesWithText` is false.
* `WritingKeepsTheRule`, `WritingBackKeepsGameInfo`, `WritingThenReading`: the action properties of the same names, `WritesKeepTheRule`,
  `WriteBackKeepsGameInfo` and `WriteThenRead`.

The invariant is `Types` with `ObjectAgrees(info)`: each decomposed value of the client's object but the ranks is the conversion of its text, or its text is the one
formed of it; it is kept because each setter sets both. `Current` says that after `CreateGameInfo` of a game the object is what a second one would give. The action properties follow
from lemmas about the two writes (`WrittenRoot`, `WrittenNode`: what each leaves in a node) and about the search for the game info node, for which
a write can change only whether its target is one.

**GM and SZ** (`NodePropertiesProofs`). `DecoderTakesTheGame`: `RootSpec => []DecoderAgreesWithGame`. The invariant `RootInv` says for each
stage what the values of the properties can be, and that the decoder and the game agree on them; the work is in the lemmas about what SGFC lets pass
(`Survives`), after which the decoder's interpretation and that of the game are the same.

**Arguments** (`SgfcBackendProofs`). `EachArgumentTakesEffect`: `ArgumentsSpec => []ArgumentsTakeEffect`, from the assumption that the
name of the default encoding, UTF-8, is longer than one character. `ArgumentsInv` says that each argument is given once (`GivenOnce`) and what
a controller holds at each stage (`ControllerOK`). SGFC reads the command line with a fold, about which `OptionsOf` is the invariant: after
`k` arguments an option has the parameter of the last of them that sets it.

**Documents** (`SgfcDocumentProofs`, for any number of nodes and any shape of SGFC's tree).

* `DocumentTypesHold`: `Spec => []TypeOK`; the stacks of all three loops are paths of the tree.
* `ReadingIsAllOrNothing`: `Spec => ReadAllOrNothing`.
* `VisitsAreThoseRequested`: `Spec => []VisitsAreRequested`.
* `ContentIsWellFormed`: `Spec => []WellFormed`.
* `ContentReadsBack`: `Spec => []RoundTrip`.

SGFC's tree is given by the depths of its nodes, and the tree below a node is an interval of numbers (`BelowInterval`). `HoldsNodes(p)` says that the
document is that of the first `p` nodes, `ParsedTree(depth, p)`; `OnStack` that the stack is the path to the last of them, and `Continues` that the loop's next
node is `p + 1` or that it has to go back up first. `ParseNode` then turns `ParsedTree(depth, p)` into `ParsedTree(depth, p + 1)`, which needs that
`AppendChild` finds the last child where SGFC's tree has it (`LastChild`). A traversal of a tree that has been read keeps `Walk`: the stack is a
path to the parent of the current node. For the visits, `Looping` says that the callback has decided (`Decided`) for every node before a limit whether it is
due, and that the nodes on the stack are those the callback wanted to see below.

For the content, `OutputInv` says that what has been written fits (`Fits`), and relates its end to the encoder's variables: the level is one more than the
number of nodes with siblings on the stack, and is the number of parentheses open; behind an opening parenthesis the next node is the root of the game,
and behind a closing one it has siblings, because the encoder got to it as the next sibling of another node (`NextHasSiblings`: that node is found among the children
again, `ChildrenMet`). `TokenAdded` says when a token fits behind the others, and each round of the encoder's loops is an instance of it.

`RoundTrip` follows from `ScanInv`, which says what SGFC would read from the tokens written so far: the nodes of the games before, and of the current game `Part(r, p)`, the
nodes from its root `r` to `p` at their depths below `r`. `Position` relates `p` to the encoder's loops: either node `p + 1` is next, or the tree of the stack's top ends at `p`. The
depths that the reader has to return to are those of the root and of the nodes on the stack that have siblings (`OpenFor`), one for each open parenthesis, so that
a closing parenthesis returns to where the next sibling belongs. `RootsAreRead` is needed for it: whichever node a client makes a root was read before, and so is one of SGFC's tree.
The reader is a fold over the tokens, and what a game should be read as is the flattening of its branches; `ReadMore` and `JoinMore` say how each goes on
with one element more. Both are definitions by recursion of the library, of which the proofs show first that the recursive function exists (`ReaderExists`, `FlatExists`).

**Points and dates** (`ConversionProofs`).

* `NotationsOfPointsAgree`: `PointSpec => NotationsAgree`, for boards of up to 100 columns and rows (`PointsAssumption`): a point's figure notation
  has two digits for each.
* `DatesAreReadBack`: `DateSpec => []DatesReadBack`; `OnlyErroneousDatesRefused`: `DateSpec => []ComposedUnlessErroneous`; `ShortcutsWherePossible`:
  `DateSpec => ShortcutWherePossible`, for any years, months and days and any number of dates.

For points the invariant says which texts a constructed point has (`HasTexts`); that the three parsers read them back is a calculation with characters. For dates
`DateInv`, which `DateInvHolds` states, relates the local variables of the two loops to the position in the list: before date `k` both hold the same
last date, `LoopBefore(ds, k)`, which is made of the last year and the last month meant before it. Composing keeps that the items are those of the dates up to `k` (`ComposedUpTo`),
decomposing that the dates are those meant; an item is read against the same last date it was written against, and `Linked` (a date has a year, is
valid, and its parts tell which of them its item has) makes the form of the item unambiguous.

**Texts of values** (`GameTextsProofs`, for ints of any size, any values of a client and any texts of a file).

* `TypedValuesAreKept`: `TypedSpec => []TypedValuesKept`.
* `GameTextsReadBack`: `GameTextSpec => []TextsReadBack`.

Assumed of the constants is what their types say (`TypedValuesAssumption`, `GameTextsAssumption`): a client's numbers and ranks are ints, its reals and scores
have two decimals, texts are sequences of strings, and a text of a real has at most two decimals. The last is a restriction of the model, which counts in hundredths.

The invariants `TypedInv` and `TextInv` say where the variables come from: the raw value is the text of what the client gave, or is a text of the file, and the typed value
is what the decoder makes of it. The work is in the conversions, which are folds and recursive functions over digits. `DigitsOf` is shown to exist and to be one function for all
bounds (`DigitsExist`, `DigitsAgree`), `ValueOfDigits` to be a sequence of steps (`ValueInSteps`, `DigitMore`); the least number that is not the value of its digits then leads to a
smaller one (`DigitsAreText`). A text of the standard's form is a sign, digits, and perhaps a point with decimals (`NumberTextIs`, `RealTextIs`), and for each of these parts the
parser and the meaning in SGF agree (`ConvertedNumber`, `ConvertedWithPoint`, `MeaningWithPoint`). For what the factory writes of a real, `RealText` gives its parts, provided that the
precision of the stream does not round it (`IsWrittenInFull`); `LengthOfDigits` relates that precision with a power of ten.

The texts of game information are made of numbers and tokens. A result is told from its first token and the next (`WinRead`); a rank's digits end where the letter of
its type begins, and only one type and rating fits what follows (`RankReadBack`); a round's text has its last opening parenthesis where the type of the round begins, unless the type has
one itself (`RoundReadBack`). That a conversion throws only on the texts named is `RealHasDigit` and `UnconvertibleIs`; what is read from any text is again a value of its kind (`DecomposedIsTyped`), so that
it is written and read as the same value.

The proofs have corrected the model here: the smallest int has no positive counterpart, and a conversion that ranges its digits before it applies the sign refuses it, which `stoi` does not.

**Values in SGF text** (`PropertyValuesProofs`, for texts of any length and any number of values).

* `SkeletonStaysIntact`: `ValueSpec => []SkeletonIntact`.
* `ValuesAreReadBack`: `ValueSpec => []ValuesReadBack`.

Assumed is that the client's texts are sequences of strings (`ValuesAssumption`), and that `PropertyTypes` has a property for each descriptor (`RepresentativesAssumption`),
which TLC evaluates. The exceptions are those of the properties: `HasRawEscape`, `HasRawSeparator`, `HasBreakout`, which are
up to the client, and those of section 4.

Neither property is inductive: they speak of values that were read, which the client may write again. `ValueInv` says that the values fit the descriptor at every
stage (`ValuesOK`: single values and pairs as it takes them, texts of strict types without a character that means something to SGF), that the text of the property is
that of its values, and that the outcome of reading is that of `Parse` and `GetPropertyValues` on it. That what is read fits again (`ReadValuesOK`) is what makes it inductive;
since operators depend on the state through the property and game type, the lemmas `...IsKept` say that no step changes them.

The properties then follow from what happens to one text. Escaping, unescaping and the removal of pairs are flattened sequences and recursive functions over positions, of which
the proofs show that they exist (`FlatExists`, `EscaperExists`) and how one more character changes them (`EscapedInJoin`, `MandatoryMore`, `EncodedMore`). Induction over texts (`TextInduction`) takes the
shortest text without a property. A text is `Guarded` against a character if each occurrence is escaped, and `IsOpen` if it escapes what follows. The encoder's texts are guarded
against the end of a value, and in the first of two against the separator, and they are not open, so that a value ends and splits where the encoder ended and split it (`BodyIsSafe`, `ValueIsReadBack`). A sequence of
values that end so is parsed as these values (`IntactValues`). What SGFC reads of an encoded text is the text, or, with
`escapeProcessingEnabled`, the text as the encoder wrote it, of which the decoder removes the escape characters again.

The proof has corrected the model: TLC's constants had no empty point, which hid that the first value of an elist may vanish; it is an exception of the properties now instead
of an omission of the constants.

The proofs have also corrected the model: several `CASE`s had guards that overlapped, where TLC takes the first and a proof can take either; they
are conditionals now, in the order of the code.

**Only model-checked.** The provers cannot use the library's induction theorems, which take a predicate. Where an induction is over numbers, or over nodes, it is done
here with the set of counterexamples instead. All safety properties of the passing runs are proved in this way. Liveness (`LockIsReleased`, `TraversalsEnd`) and the
findings are left to TLC for good.


## 6. What is not modelled

* Of the values: SGFC's corrections of a file's content other than GM, SZ and texts without a form, its expansion of rectangles in games of Go,
  moves and stones beyond their point, and warnings.
* Editing the tree from the callback of an iteration: iterations run over documents that are as they were read.
* Calls with null pointers where the code does not check for them (section 4), except in the builder.
* The depth of the C++ stack when a long chain of nodes is destroyed.
* `WriteThenRead` has a precondition, `TargetKeepsGameInfo`: writing only default values removes the properties that made
  the target the game info node, and a later read may find another.
* SGFC itself; it is external wherever the library calls it.
* `DebugPrintToConsole`, the layout of the encoded text, files, directories, identifiers and strings in `SgfcUtility` (calls of the C++
  library), conversions of an object's type, accessors, and the interface classes, which are abstract.

## 7. Plan

All modules of section 2 are done, and all safety properties of the passing runs are proved. Liveness stays with TLC. What could be added is what section 6 names first: SGFC's corrections and its
expansion of rectangles, once its sources are part of the repository.
