---------------------------- MODULE SgfcBackend -----------------------------
(***************************************************************************)
(* The SGFC backend of libsgfc++: SgfcBackendController, which runs the    *)
(* operations of all client threads one at a time under one mutex, the     *)
(* classes SgfcMessageStream and SgfcSaveStream which hook into the C      *)
(* library SGFC through global variables, and the three frontends that own *)
(* a controller (SgfcCommandLine, SgfcDocumentReader, SgfcDocumentWriter). *)
(*                                                                         *)
(* SGFC is a git submodule of the repository.  It is modelled from its use *)
(* here: it reports messages through the print hook, fails an operation if *)
(* and only if it reported a fatal error, hands each file that it saves to *)
(* the open and close hooks, and calls the out of memory hook when an      *)
(* allocation fails.                                                       *)
(*                                                                         *)
(* One action is a piece of a thread's work that touches the global state  *)
(* once; th[t].pc names where thread t stands.                             *)
(***************************************************************************)
EXTENDS Naturals, Sequences

CONSTANTS
  Thread,       \* the threads of the client
  NoThread,     \* owner of the mutex when it is free
  MaxMessages,  \* bound: messages SGFC reports in one operation
  MaxFiles      \* bound: files SGFC saves in one operation (--split-file)

ASSUME BackendAssumption ==
  NoThread \notin Thread /\ MaxMessages \in Nat \ {0} /\ MaxFiles \in Nat \ {0}

VARIABLES
  mutex,    \* sgfcMutex
  oomHook,  \* oom_panic_hook is OutOfMemoryErrorHook
  exited,   \* SGFC's own out of memory hook has called exit()
  stream,   \* SgfcMessageStream.cpp: its statics and print_error_output_hook
  saver,    \* SgfcSaveStream.cpp: its statics
  th        \* the state of each thread

vars == <<mutex, oomHook, exited, stream, saver, th>>

(* The messages of the library itself are fatal errors, too.               *)
Kind == {"warning", "fatal", "write failed", "out of memory"}

Message == [by : Thread, kind : Kind]

(* GetSgfcExitCodeFromMessageCollection, GetIsSgfDataValid...              *)
HasFatal(ms) == \E i \in DOMAIN ms : ms[i].kind # "warning"

NoStream == [hook |-> FALSE, messages |-> <<>>, capturing |-> FALSE]

NoSaver == [paths |-> <<>>, contents |-> <<>>, capturing |-> FALSE]

(* A thread without a frontend.                                            *)
NoFrontend ==
  [pc        |-> "idle",
   frontend  |-> "none",    \* which one owns the thread's controller
   valid     |-> FALSE,     \* IsCommandLineValid(), once it is constructed
   operation |-> "none",    \* the operation that runs or ran last
   location  |-> "none",    \* SgfcDataLocation
   data      |-> "none",    \* SgfcBackendDataState, "none" without wrapper
   content   |-> FALSE,     \* IsSgfContentValid()
   result    |-> <<>>,      \* the messages of the last operation
   saved     |-> <<>>,      \* savedSgfContents
   target    |-> <<>>,      \* what the client's string or the disk holds
   reported  |-> <<>>,      \* history: what SGFC reported in the operation
   produced  |-> 0]         \* history: the files SGFC saved completely

(* What a client's string may hold beside the numbers of SGFC's files.     *)
Stale == 0                \* what the client had in it
Encoded == MaxFiles + 1   \* the text of a document, before SGFC has seen it

-----------------------------------------------------------------------------
Init ==
  /\ mutex = NoThread
  /\ oomHook = FALSE
  /\ exited = FALSE
  /\ stream = NoStream
  /\ saver = NoSaver
  /\ th = [t \in Thread |-> NoFrontend]

-----------------------------------------------------------------------------
(* The client's side.                                                      *)

Begin(t, op) ==
  [th[t] EXCEPT !.pc = "lock", !.operation = op, !.location = "none", !.result = <<>>,
                !.saved = <<>>, !.target = <<>>, !.reported = <<>>, !.produced = 0]

(* A client creates a frontend, and with it a controller, whose member     *)
(* sgfcOptions allocates memory before the constructor's body runs.        *)
NewController(t, kind) ==
  /\ th[t] = NoFrontend
  /\ th' = [th EXCEPT ![t] = [Begin(t, "parse") EXCEPT !.frontend = kind]]
  /\ UNCHANGED <<mutex, oomHook, exited, stream, saver>>

(* That allocation fails before the library's hook is installed.  (With    *)
(* the hook, std::runtime_error reaches the client and nothing changes.)   *)
NewControllerExits(t) ==
  /\ th[t] = NoFrontend /\ ~oomHook
  /\ exited' = TRUE
  /\ UNCHANGED <<mutex, oomHook, stream, saver, th>>

(* The end of the frontend, its controller and its results; of a document  *)
(* writer also when the SgfcBackendDataWrapper of Write runs out of memory *)
(* (std::runtime_error reaches the client, whose string is Encoded).       *)
Destroy(t) ==
  /\ th[t].pc = "idle" /\ th[t].frontend # "none"
  /\ th' = [th EXCEPT ![t] = NoFrontend]
  /\ UNCHANGED <<mutex, oomHook, exited, stream, saver>>

(* LoadSgfFile and LoadSgfContent of a command line, and the one operation *)
(* of a document reader.                                                   *)
Load(t) ==
  /\ th[t].pc = "idle" /\ th[t].valid
  /\ \/ th[t].frontend = "command line"
     \/ th[t].frontend = "reader" /\ th[t].operation = "parse"
  /\ th' = [th EXCEPT ![t] = Begin(t, "load")]
  /\ UNCHANGED <<mutex, oomHook, exited, stream, saver>>

(* What a save finds at its target.  A document writer encodes into the    *)
(* string that its client passes in, which then is that of the save, too.  *)
Untouched(frontend, location) ==
  IF location # "memory" THEN <<>> ELSE IF frontend = "writer" THEN <<Encoded>> ELSE <<Stale>>

BeginSave(t, location) ==
  [Begin(t, "save") EXCEPT !.location = location,
                           !.target = Untouched(th[t].frontend, location)]

(* Mutant: SaveSgfFile and SaveSgfContent do not ask IsSgfContentValid.    *)
SaveUnchecked(t, location) ==
  /\ th[t].pc = "idle" /\ th[t].valid /\ th[t].frontend = "command line"
  /\ th[t].operation # "parse"
  /\ th' = [th EXCEPT ![t] = BeginSave(t, location)]
  /\ UNCHANGED <<mutex, oomHook, exited, stream, saver>>

(* SaveSgfFile and SaveSgfContent of a command line.                       *)
Save(t, location) ==
  /\ th[t].pc = "idle" /\ th[t].valid /\ th[t].frontend = "command line"
  /\ th[t].content
  /\ th' = [th EXCEPT ![t] = BeginSave(t, location)]
  /\ UNCHANGED <<mutex, oomHook, exited, stream, saver>>

(* A document writer encodes the document into the client's string and     *)
(* wraps that text, both without holding the mutex.                        *)
Write(t, location) ==
  /\ th[t].pc = "idle" /\ th[t].valid /\ th[t].frontend = "writer"
  /\ th[t].operation = "parse"
  /\ th' = [th EXCEPT ![t] = [BeginSave(t, location) EXCEPT !.data = "PartiallyLoaded"]]
  /\ UNCHANGED <<mutex, oomHook, exited, stream, saver>>

Client(t) ==
  \/ \E kind \in {"command line", "reader", "writer"} : NewController(t, kind)
  \/ NewControllerExits(t)
  \/ Destroy(t)
  \/ Load(t)
  \/ \E location \in {"file", "memory"} : Save(t, location) \/ Write(t, location)

-----------------------------------------------------------------------------
(* The operation of a controller.                                          *)

(* Mutant: the operation does not take the mutex.                          *)
EnterUnlocked(t) ==
  /\ th[t].pc = "lock"
  /\ mutex' = t
  /\ th' = [th EXCEPT ![t].pc = IF th[t].operation = "load" THEN "new data" ELSE "open"]
  /\ oomHook' = (oomHook \/ th[t].operation = "parse")
  /\ UNCHANGED <<exited, stream, saver>>

(* Mutant: no hook is installed.                                           *)
LockWithoutHook(t) ==
  /\ th[t].pc = "lock" /\ mutex = NoThread
  /\ mutex' = t
  /\ th' = [th EXCEPT ![t].pc = IF th[t].operation = "load" THEN "new data" ELSE "open"]
  /\ UNCHANGED <<oomHook, exited, stream, saver>>

(* The lock guard, and in the constructor the installation of the hook.    *)
Lock(t) ==
  /\ th[t].pc = "lock" /\ mutex = NoThread
  /\ mutex' = t
  /\ th' = [th EXCEPT ![t].pc = IF th[t].operation = "load" THEN "new data" ELSE "open"]
  /\ oomHook' = (oomHook \/ th[t].operation = "parse")
  /\ UNCHANGED <<exited, stream, saver>>

(* A load first creates the data wrapper.                                  *)
NewData(t, state) ==
  /\ th[t].pc = "new data"
  /\ th' = [th EXCEPT ![t].pc = "open", ![t].data = state]
  /\ UNCHANGED <<mutex, oomHook, exited, stream, saver>>

(* SGFC parses the arguments or the SGF data, unless the operation saves   *)
(* data that has been parsed.                                              *)
AfterOpen(t) ==
  IF stream.capturing THEN "logic_error"
  ELSE IF th[t].operation = "save" /\ th[t].data # "PartiallyLoaded" THEN "open save"
  ELSE "sgfc"

(* The constructor of SgfcMessageStream.                                   *)
OpenMessageStream(t) ==
  /\ th[t].pc = "open"
  /\ th' = [th EXCEPT ![t].pc = AfterOpen(t)]
  /\ stream' = IF stream.capturing THEN stream
               ELSE [hook |-> TRUE, messages |-> <<>>, capturing |-> TRUE]
  /\ UNCHANGED <<mutex, oomHook, exited, saver>>

(* External: SGFC reports a message; it stops after a fatal error.         *)
Report(t, kind) ==
  /\ th[t].pc \in {"sgfc", "save"}
  /\ Len(th[t].reported) < MaxMessages /\ ~HasFatal(th[t].reported)
  /\ LET m == [by |-> t, kind |-> kind]
     IN  /\ th' = [th EXCEPT ![t].reported = Append(@, m)]
         /\ stream' = [stream EXCEPT !.messages = IF stream.hook THEN Append(@, m) ELSE @]
  /\ UNCHANGED <<mutex, oomHook, exited, saver>>

(* Parsing ends.  Arguments become the options of the controller; SGF data *)
(* is fully loaded unless there was a fatal error, and only then saved.    *)
ParseReturns(t) ==
  /\ th[t].pc = "sgfc"
  /\ th' = [th EXCEPT
       ![t].pc = IF th[t].operation = "save" /\ ~HasFatal(th[t].reported)
                   THEN "open save" ELSE "collect",
       ![t].data = IF th[t].operation # "parse" /\ ~HasFatal(th[t].reported)
                     THEN "FullyLoaded" ELSE @]
  /\ UNCHANGED <<mutex, oomHook, exited, stream, saver>>

(* The constructor of SgfcSaveStream; SaveSGF is called.                   *)
OpenSaveStream(t) ==
  /\ th[t].pc = "open save"
  /\ th' = [th EXCEPT ![t].pc = IF saver.capturing THEN "logic_error" ELSE "save"]
  /\ saver' = [NoSaver EXCEPT !.capturing = TRUE]
  /\ UNCHANGED <<mutex, oomHook, exited, stream>>

(* SGFC opens the next file (openHook).                                    *)
OpenFile(t) ==
  /\ th[t].pc = "save" /\ ~HasFatal(th[t].reported)
  /\ Len(saver.paths) = Len(saver.contents) /\ Len(saver.paths) < MaxFiles
  /\ saver' = [saver EXCEPT !.paths = Append(@, Len(@) + 1)]
  /\ UNCHANGED <<mutex, oomHook, exited, stream, th>>

(* SGFC closes the file it has written (closeHook).  When writing failed   *)
(* it reported a fatal error, and the content is not kept.                 *)
CloseFile(t) ==
  /\ th[t].pc = "save" /\ ~HasFatal(th[t].reported)
  /\ Len(saver.paths) > Len(saver.contents)
  /\ saver' = [saver EXCEPT !.contents = Append(@, Len(saver.paths))]
  /\ th' = [th EXCEPT ![t].produced = @ + 1]
  /\ UNCHANGED <<mutex, oomHook, exited, stream>>

(* GetSgfContents pairs the paths and the contents.                        *)
GetSgfContents ==
  [i \in DOMAIN saver.contents |-> [path |-> saver.paths[i], content |-> saver.contents[i]]]

(* Mutant: the contents are taken although SaveSGF failed.                 *)
SaveReturnsPartially(t) ==
  /\ th[t].pc = "save"
  /\ HasFatal(th[t].reported) \/ Len(saver.paths) = Len(saver.contents)
  /\ th' = [th EXCEPT ![t].pc = "collect", ![t].saved = GetSgfContents]
  /\ saver' = NoSaver
  /\ UNCHANGED <<mutex, oomHook, exited, stream>>

(* SaveSGF returns, and the destructor of SgfcSaveStream runs.             *)
SaveReturns(t) ==
  /\ th[t].pc = "save"
  /\ HasFatal(th[t].reported) \/ Len(saver.paths) = Len(saver.contents)
  /\ th' = [th EXCEPT ![t].pc = "collect",
                      ![t].saved = IF HasFatal(th[t].reported) THEN <<>> ELSE GetSgfContents]
  /\ saver' = NoSaver
  /\ UNCHANGED <<mutex, oomHook, exited, stream>>

(* The first fatal error is the reason of an invalid command line.         *)
InvalidCommandLineReason(ms) ==
  LET fatal == {i \in DOMAIN ms : ms[i].kind # "warning"}
  IN  IF fatal = {} THEN <<>> ELSE <<ms[CHOOSE i \in fatal : \A j \in fatal : i <= j]>>

(* Mutant: the messages of a load are taken only when it was successful.   *)
CollectOnSuccess(t) ==
  /\ th[t].pc = "collect"
  /\ LET ms == IF th[t].data = "FullyLoaded" THEN stream.messages ELSE <<>>
     IN  th' = [th EXCEPT
           ![t].pc = IF th[t].operation = "save" THEN "write" ELSE "close",
           ![t].result = IF th[t].operation = "parse" THEN InvalidCommandLineReason(ms) ELSE ms,
           ![t].valid = IF th[t].operation = "parse" THEN ~HasFatal(ms) ELSE @,
           ![t].content = IF th[t].operation = "load" THEN ~HasFatal(ms) ELSE @,
           ![t].target = <<>>]
  /\ UNCHANGED <<mutex, oomHook, exited, stream, saver>>

(* The operation takes its messages; SGFC's part of it is over.            *)
Collect(t) ==
  /\ th[t].pc = "collect"
  /\ LET ms == stream.messages
     IN  th' = [th EXCEPT
           ![t].pc = IF th[t].operation = "save" THEN "write" ELSE "close",
           ![t].result = IF th[t].operation = "parse" THEN InvalidCommandLineReason(ms) ELSE ms,
           ![t].valid = IF th[t].operation = "parse" THEN ~HasFatal(ms) ELSE @,
           ![t].content = IF th[t].operation = "load" THEN ~HasFatal(ms) ELSE @,
           ![t].target = <<>>]
  /\ UNCHANGED <<mutex, oomHook, exited, stream, saver>>

(* Mutant: a content that could not be written is not reported.            *)
WriteContentSilently(t, success) ==
  /\ th[t].pc = "write" /\ th[t].saved # <<>>
  /\ th[t].location = "memory" => success
  /\ th' = [th EXCEPT
       ![t].saved = Tail(@),
       ![t].target = IF success THEN Append(@, Head(th[t].saved).content) ELSE @]
  /\ UNCHANGED <<mutex, oomHook, exited, stream, saver>>

(* The next content is appended to the client's string, or written to disk *)
(* by SaveSgfContentToFilesystem; a failure does not stop the loop.        *)
WriteContent(t, success) ==
  /\ th[t].pc = "write" /\ th[t].saved # <<>>
  /\ th[t].location = "memory" => success
  /\ th' = [th EXCEPT
       ![t].saved = Tail(@),
       ![t].target = IF success THEN Append(@, Head(th[t].saved).content) ELSE @,
       ![t].result = IF success THEN @ ELSE Append(@, [by |-> t, kind |-> "write failed"])]
  /\ UNCHANGED <<mutex, oomHook, exited, stream, saver>>

ContentsWritten(t) ==
  /\ th[t].pc = "write" /\ th[t].saved = <<>>
  /\ th' = [th EXCEPT ![t].pc = "close"]
  /\ UNCHANGED <<mutex, oomHook, exited, stream, saver>>

(* An allocation of SGFC fails.  The library's hook throws                 *)
(* std::runtime_error, which the operation catches: a load without a       *)
(* result, a save without contents, an invalid command line.  Unwinding    *)
(* destroys the save stream, and the message stream only in a load.        *)
OutOfMemory(t) ==
  /\ th[t].pc \in {"new data", "sgfc", "save"}
  /\ IF oomHook
       THEN /\ th' = [th EXCEPT
                 ![t].pc = IF th[t].operation = "load" THEN "unlock" ELSE "close",
                 ![t].result = <<[by |-> t, kind |-> "out of memory"]>>,
                 ![t].data = IF th[t].operation = "load" THEN "none" ELSE @,
                 ![t].content = IF th[t].operation = "load" THEN FALSE ELSE @]
            /\ saver' = NoSaver
            /\ stream' = IF th[t].operation = "load" THEN NoStream ELSE stream
            /\ UNCHANGED exited
       ELSE exited' = TRUE /\ UNCHANGED <<stream, saver, th>>
  /\ UNCHANGED <<mutex, oomHook>>

(* Mutant: the destructor leaves capturingIsInProgress alone.              *)
CloseWithoutReset(t) ==
  /\ th[t].pc = "close"
  /\ th' = [th EXCEPT ![t].pc = "unlock"]
  /\ stream' = [stream EXCEPT !.hook = FALSE, !.messages = <<>>]
  /\ UNCHANGED <<mutex, oomHook, exited, saver>>

(* The destructor of SgfcMessageStream.                                    *)
CloseMessageStream(t) ==
  /\ th[t].pc = "close"
  /\ th' = [th EXCEPT ![t].pc = "unlock"]
  /\ stream' = NoStream
  /\ UNCHANGED <<mutex, oomHook, exited, saver>>

(* Mutant: a manual unlock that is skipped when the exception is caught.   *)
UnlockOnSuccess(t) ==
  /\ th[t].pc = "unlock"
  /\ mutex' = IF \E i \in DOMAIN th[t].result : th[t].result[i].kind = "out of memory"
                THEN mutex ELSE NoThread
  /\ th' = [th EXCEPT ![t].pc = "idle"]
  /\ UNCHANGED <<oomHook, exited, stream, saver>>

(* The end of the lock guard; the operation returns.                       *)
Unlock(t) ==
  /\ th[t].pc = "unlock"
  /\ mutex' = NoThread
  /\ th' = [th EXCEPT ![t].pc = "idle"]
  /\ UNCHANGED <<oomHook, exited, stream, saver>>

(* The steps of a thread that holds the mutex.                             *)
Backend(t) ==
  \/ \E state \in {"NotLoaded", "PartiallyLoaded"} : NewData(t, state)
  \/ OpenMessageStream(t)
  \/ \E kind \in {"warning", "fatal"} : Report(t, kind)
  \/ ParseReturns(t)
  \/ OpenSaveStream(t)
  \/ OpenFile(t)
  \/ CloseFile(t)
  \/ SaveReturns(t)
  \/ Collect(t)
  \/ \E success \in BOOLEAN : WriteContent(t, success)
  \/ ContentsWritten(t)
  \/ OutOfMemory(t)
  \/ CloseMessageStream(t)
  \/ Unlock(t)

Exited == exited /\ UNCHANGED vars

Next ==
  \/ ~exited /\ \E t \in Thread : Client(t) \/ Lock(t) \/ Backend(t)
  \/ Exited

(* SGFC's loops end, and a thread that can run is scheduled.  Nothing is   *)
(* assumed about who gets the mutex: std::mutex promises no order.         *)
Fairness == \A t \in Thread : WF_vars(~exited /\ Backend(t))

Spec == Init /\ [][Next]_vars /\ Fairness

-----------------------------------------------------------------------------
InBackend(t) == th[t].pc \notin {"idle", "lock", "logic_error"}

StreamState == [hook : BOOLEAN, messages : Seq(Message), capturing : BOOLEAN]
SaverState == [paths : Seq(Nat), contents : Seq(Nat), capturing : BOOLEAN]
ThreadState ==
  [pc : {"idle", "lock", "new data", "open", "sgfc", "open save", "save", "collect",
         "write", "close", "unlock", "logic_error"},
   frontend : {"none", "command line", "reader", "writer"},
   valid : BOOLEAN,
   operation : {"none", "parse", "load", "save"},
   location : {"none", "file", "memory"},
   data : {"none", "NotLoaded", "PartiallyLoaded", "FullyLoaded"},
   content : BOOLEAN,
   result : Seq(Message),
   saved : Seq([path : Nat, content : Nat]),
   target : Seq(Nat),
   reported : Seq(Message),
   produced : Nat]

(* Types.  Only a thread that is inside the backend owns the mutex.        *)
TypeOK ==
  /\ mutex \in {NoThread} \cup {t \in Thread : InBackend(t)}
  /\ oomHook \in BOOLEAN /\ exited \in BOOLEAN
  /\ stream \in StreamState
  /\ saver \in SaverState
  /\ th \in [Thread -> ThreadState]

(* Operations are serialized: a thread is inside the backend only as long  *)
(* as it owns sgfcMutex, so that there is at most one.                     *)
Serialized == \A t \in Thread : InBackend(t) => mutex = t

(* The global state of the hooks is set up when the mutex is free, and     *)
(* whatever thread enters next, also after an exception: no message or     *)
(* content of an earlier operation is left, and no stream is open.         *)
QuietWhenUnlocked == mutex = NoThread => stream = NoStream /\ saver = NoSaver

(* The exceptions of SgfcMessageStream and SgfcSaveStream ("Another ...    *)
(* object is already capturing") are never thrown.                         *)
NoInterfacingError == \A t \in Thread : th[t].pc # "logic_error"

RanOutOfMemory(t) == \E i \in DOMAIN th[t].result : th[t].result[i].kind = "out of memory"

Returned(t, op) == th[t].pc = "idle" /\ th[t].operation = op

(* What SGFC reported, and after it the library's own failures to write.   *)
ReportsExactly(ms, reported) ==
  /\ Len(reported) <= Len(ms)
  /\ \A i \in DOMAIN ms :
       IF i <= Len(reported) THEN ms[i] = reported[i] ELSE ms[i].kind = "write failed"

(* doc/Principles.md: an operation on thread A does not receive messages   *)
(* generated by an operation on thread B.  Stronger: it returns exactly    *)
(* what SGFC reported in it (of argument parsing, the fatal error), unless *)
(* memory ran out, which it then reports itself.                           *)
OwnMessages ==
  \A t \in Thread :
    /\ Returned(t, "load") \/ Returned(t, "save") =>
         RanOutOfMemory(t) \/ ReportsExactly(th[t].result, th[t].reported)
    /\ Returned(t, "parse") =>
         \/ RanOutOfMemory(t)
         \/ th[t].result = InvalidCommandLineReason(th[t].reported)

(* SaveSGF runs on parsed data only; a command line never saves what a     *)
(* failed load has left behind, or without a wrapper.                      *)
OnlyParsedDataSaved ==
  \A t \in Thread :
    /\ th[t].pc = "save" => th[t].data = "FullyLoaded"
    /\ th[t].operation = "save" /\ InBackend(t) =>
         th[t].data \in {"FullyLoaded"} \cup IF th[t].frontend = "writer" THEN {"PartiallyLoaded"} ELSE {}

(* A save that reports no fatal error has delivered all files SGFC saved,  *)
(* in SGFC's order: no failure of the file system is lost.                 *)
SuccessIsComplete ==
  \A t \in Thread :
    Returned(t, "save") /\ ~HasFatal(th[t].result) =>
      th[t].target = [i \in 1..th[t].produced |-> i]

(* A save in which SGFC reported a fatal error, or ran out of memory,      *)
(* delivers no file: also those that it had saved before are discarded.    *)
(* After a fatal error the client's string is empty, too.  Not so when     *)
(* memory ran out, be it after a fatal error: the string then holds what   *)
(* it did before the save, which of a document writer is the whole text    *)
(* of the document, unvalidated.  And GetSgfContents never pairs a path    *)
(* with the content of another file.                                       *)
FailureDeliversNothing ==
  \A t \in Thread :
    /\ Returned(t, "save") /\ RanOutOfMemory(t) =>
         th[t].target = Untouched(th[t].frontend, th[t].location)
    /\ Returned(t, "save") /\ HasFatal(th[t].reported) /\ ~RanOutOfMemory(t) =>
         th[t].target = <<>>
    /\ \A i \in DOMAIN th[t].saved : th[t].saved[i].path = th[t].saved[i].content

(* Running out of memory ends the process only as long as no constructor   *)
(* of a controller has completed.                                          *)
ExitsOnlyBeforeFirstController ==
  [][exited' /\ ~exited =>
       \A t \in Thread : th[t].operation \in {"none", "parse"}
                        /\ th[t].pc = "idle" => th[t].frontend = "none"]_vars

(* An operation that has the mutex gives it back, however it ends.         *)
LockIsReleased == \A t \in Thread : mutex = t ~> (mutex # t \/ exited)

(* Said by the documentation and refuted by the code (see README.md): only *)
(* the construction of the first controller can end the process.           *)
LaterControllersNeverExit ==
  [][exited' /\ ~exited => \A t \in Thread : th[t] = NoFrontend]_vars
=============================================================================
