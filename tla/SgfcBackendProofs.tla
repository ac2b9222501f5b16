------------------------- MODULE SgfcBackendProofs -------------------------
(***************************************************************************)
(* Proofs about SgfcBackend, for any set of threads, number of messages,   *)
(* and number of files.  First: one operation runs at a time, and finds    *)
(* the global state of the hooks and streams as it must be, whatever       *)
(* happened before (BackendInv).  Then what the operations return: the     *)
(* messages, the data that is saved, the files that are delivered, and     *)
(* when running out of memory ends the process; all of it rests on the     *)
(* streams that a thread finds being the ones that it opened itself.       *)
(*                                                                         *)
(* Last, proofs about Arguments, for any number of arguments and any       *)
(* parameters: what a client adds to a collection takes effect in each     *)
(* operation of a controller that was made with it.                        *)
(***************************************************************************)
EXTENDS SgfcBackend, Arguments, SequenceTheorems, WellFoundedInduction, TLAPS

-----------------------------------------------------------------------------
(* The invariant.                                                          *)

(* What is set up while a thread is at pc: the message stream from its     *)
(* constructor to its destructor, the save stream only during SaveSGF.     *)
InOrder(pc, messageStream, saveStream) ==
  /\ pc # "logic_error"
  /\ pc \in {"new data", "open", "unlock"} => messageStream = NoStream
  /\ pc \in {"new data", "open", "sgfc", "open save", "collect", "write", "close", "unlock"} =>
       saveStream = NoSaver

(* As much of the types as this needs.                                     *)
HasPc == DOMAIN th = Thread /\ \A t \in Thread : "pc" \in DOMAIN th[t]

BackendInv ==
  /\ HasPc
  /\ Serialized
  /\ QuietWhenUnlocked
  /\ \A t \in Thread : InOrder(th[t].pc, stream, saver)

LEMMA InitSound == Init => BackendInv
BY DEF Init, NoFrontend, BackendInv, HasPc, Serialized, QuietWhenUnlocked, InBackend, InOrder

-----------------------------------------------------------------------------
(* What a step of a thread must keep.                                      *)

(* The step is one of t, which is at pc afterwards.                        *)
MovesTo(t, pc) ==
  /\ DOMAIN th' = Thread /\ "pc" \in DOMAIN th'[t]
  /\ \A u \in Thread \ {t} : th'[u] = th[u]
  /\ th'[t].pc = pc

(* A step outside the backend leaves the mutex and the streams alone.      *)
LEMMA OutsideStep ==
  ASSUME BackendInv, NEW t \in Thread, ~InBackend(t),
         NEW pc \in {"idle", "lock"}, MovesTo(t, pc), UNCHANGED <<mutex, stream, saver>>
  PROVE  BackendInv'
<1>1. HasPc'
  BY DEF BackendInv, HasPc, MovesTo
<1>2. Serialized' /\ QuietWhenUnlocked'
  BY DEF BackendInv, Serialized, QuietWhenUnlocked, InBackend, MovesTo
<1>3. \A u \in Thread : InOrder(th'[u].pc, stream', saver')
  BY DEF BackendInv, InOrder, MovesTo
<1> QED BY <1>1, <1>2, <1>3 DEF BackendInv

(* A step of the thread that has the mutex, takes it, or gives it back:    *)
(* the others are outside, so that only its own place counts.              *)
LEMMA InsideStep ==
  ASSUME BackendInv, NEW t \in Thread, InBackend(t) \/ mutex = NoThread,
         NEW pc, MovesTo(t, pc), InOrder(pc, stream', saver'),
         \/ mutex' = t
         \/ mutex' = NoThread /\ pc = "idle" /\ stream' = NoStream /\ saver' = NoSaver
  PROVE  BackendInv'
<1>1. \A u \in Thread \ {t} : ~InBackend(u) /\ th[u].pc # "logic_error"
  BY BackendAssumption DEF BackendInv, Serialized, InOrder
<1>2. HasPc'
  BY DEF BackendInv, HasPc, MovesTo
<1>3. Serialized'
  BY <1>1 DEF Serialized, InBackend, MovesTo
<1>4. QuietWhenUnlocked'
  BY BackendAssumption DEF QuietWhenUnlocked
<1>5. \A u \in Thread : InOrder(th'[u].pc, stream', saver')
  BY <1>1 DEF InBackend, InOrder, MovesTo
<1> QED BY <1>2, <1>3, <1>4, <1>5 DEF BackendInv

-----------------------------------------------------------------------------
(* The actions.                                                            *)

LEMMA ClientSound ==
  ASSUME BackendInv, NEW t \in Thread, Client(t)
  PROVE  BackendInv'
<1>1. HasPc
  BY DEF BackendInv
<1>2. ASSUME NEW kind \in {"command line", "reader", "writer"}, NewController(t, kind)
      PROVE  BackendInv'
  <2> DEFINE start == Begin(t, "parse")
             begun == [start EXCEPT !.frontend = kind]
  <2>1. "pc" \in DOMAIN start /\ start.pc = "lock"
    BY <1>1 DEF Begin, HasPc
  <2>4. "pc" \in DOMAIN begun /\ begun.pc = "lock"
    <3> HIDE DEF start
    <3> QED BY <2>1
  <2>5. th' = [th EXCEPT ![t] = begun]
    BY <1>2 DEF NewController
  <2>2. MovesTo(t, "lock")
    <3> HIDE DEF begun
    <3> QED BY <1>1, <2>4, <2>5 DEF HasPc, MovesTo
  <2>3. ~InBackend(t)
    <3>1. th[t] = NoFrontend
      BY <1>2 DEF NewController
    <3>2. NoFrontend.pc = "idle"
      BY DEF NoFrontend
    <3> QED BY <3>1, <3>2 DEF InBackend
  <2> QED BY <1>2, <2>2, <2>3, OutsideStep DEF NewController
<1>3. CASE NewControllerExits(t)
  BY <1>3 DEF NewControllerExits, BackendInv, HasPc, Serialized, QuietWhenUnlocked, InBackend
<1>4. CASE Destroy(t)
  <2>1. MovesTo(t, "idle") /\ ~InBackend(t)
    BY <1>1, <1>4 DEF Destroy, HasPc, MovesTo, NoFrontend, InBackend
  <2> QED BY <1>4, <2>1, OutsideStep DEF Destroy
<1>5. CASE Load(t)
  <2>1. MovesTo(t, "lock") /\ ~InBackend(t)
    BY <1>1, <1>5 DEF Load, Begin, HasPc, MovesTo, InBackend
  <2> QED BY <1>5, <2>1, OutsideStep DEF Load
<1>6. ASSUME NEW location \in {"file", "memory"}, Save(t, location) PROVE BackendInv'
  <2>1. MovesTo(t, "lock") /\ ~InBackend(t)
    BY <1>1, <1>6 DEF Save, BeginSave, Begin, HasPc, MovesTo, InBackend
  <2> QED BY <1>6, <2>1, OutsideStep DEF Save
<1>7. ASSUME NEW location \in {"file", "memory"}, Write(t, location) PROVE BackendInv'
  <2>1. MovesTo(t, "lock") /\ ~InBackend(t)
    BY <1>1, <1>7 DEF Write, BeginSave, Begin, HasPc, MovesTo, InBackend
  <2> QED BY <1>7, <2>1, OutsideStep DEF Write
<1> QED BY <1>2, <1>3, <1>4, <1>5, <1>6, <1>7 DEF Client

LEMMA LockSound ==
  ASSUME BackendInv, NEW t \in Thread, Lock(t)
  PROVE  BackendInv'
<1>1. \E pc \in {"new data", "open"} : MovesTo(t, pc)
  BY DEF BackendInv, Lock, HasPc, MovesTo
<1>2. mutex = NoThread /\ mutex' = t /\ stream' = NoStream /\ saver' = NoSaver
  BY DEF BackendInv, Lock, QuietWhenUnlocked
<1> QED BY <1>1, <1>2, InsideStep DEF InOrder

LEMMA BackendSound ==
  ASSUME BackendInv, NEW t \in Thread, Backend(t)
  PROVE  BackendInv'
<1>1. HasPc /\ InOrder(th[t].pc, stream, saver)
  BY DEF BackendInv
<1>2. InBackend(t) => mutex = t
  BY DEF BackendInv, Serialized
<1>3. ASSUME NEW state \in {"NotLoaded", "PartiallyLoaded"}, NewData(t, state) PROVE BackendInv'
  <2>1. MovesTo(t, "open") /\ InBackend(t)
    BY <1>1, <1>3 DEF NewData, HasPc, MovesTo, InBackend
  <2>2. InOrder("open", stream', saver')
    BY <1>1, <1>3 DEF NewData, InOrder
  <2> QED BY <1>2, <1>3, <2>1, <2>2, InsideStep DEF NewData
<1>4. CASE OpenMessageStream(t)
  <2>1. stream = NoStream /\ saver = NoSaver /\ saver' = saver
    BY <1>1, <1>4 DEF OpenMessageStream, InOrder
  <2>2. AfterOpen(t) \in {"open save", "sgfc"}
    BY <2>1 DEF AfterOpen, NoStream
  <2>3. MovesTo(t, AfterOpen(t)) /\ InBackend(t)
    BY <1>1, <1>4 DEF OpenMessageStream, HasPc, MovesTo, InBackend
  <2>4. InOrder(AfterOpen(t), stream', saver')
    BY <2>1, <2>2 DEF InOrder
  <2> QED BY <1>2, <1>4, <2>3, <2>4, InsideStep DEF OpenMessageStream
<1>5. ASSUME NEW kind \in {"warning", "fatal"}, Report(t, kind) PROVE BackendInv'
  <2>1. MovesTo(t, th[t].pc) /\ InBackend(t)
    BY <1>1, <1>5 DEF Report, HasPc, MovesTo, InBackend
  <2>2. InOrder(th[t].pc, stream', saver')
    BY <1>1, <1>5 DEF Report, InOrder
  <2> QED BY <1>2, <1>5, <2>1, <2>2, InsideStep DEF Report
<1>6. CASE ParseReturns(t)
  <2>1. \E pc \in {"open save", "collect"} : MovesTo(t, pc)
    BY <1>1, <1>6 DEF ParseReturns, HasPc, MovesTo
  <2>2. InBackend(t) /\ saver' = NoSaver
    BY <1>1, <1>6 DEF ParseReturns, InBackend, InOrder
  <2> QED BY <1>2, <1>6, <2>1, <2>2, InsideStep DEF ParseReturns, InOrder
<1>7. CASE OpenSaveStream(t)
  <2>1. ~saver.capturing
    <3>1. saver = NoSaver
      BY <1>1, <1>7 DEF OpenSaveStream, InOrder
    <3> QED BY <3>1 DEF NoSaver
  <2>2. th' = [th EXCEPT ![t].pc = "save"]
    BY <1>7, <2>1 DEF OpenSaveStream
  <2>3. MovesTo(t, "save")
    BY <1>1, <2>2 DEF HasPc, MovesTo
  <2>4. InBackend(t) /\ InOrder("save", stream', saver')
    BY <1>7 DEF OpenSaveStream, InBackend, InOrder
  <2> QED BY <1>2, <1>7, <2>3, <2>4, InsideStep DEF OpenSaveStream
<1>8. CASE OpenFile(t)
  <2>1. MovesTo(t, "save") /\ InBackend(t)
    BY <1>1, <1>8 DEF OpenFile, HasPc, MovesTo, InBackend
  <2> QED BY <1>2, <1>8, <2>1, InsideStep DEF OpenFile, InOrder
<1>9. CASE CloseFile(t)
  <2>1. MovesTo(t, "save") /\ InBackend(t)
    BY <1>1, <1>9 DEF CloseFile, HasPc, MovesTo, InBackend
  <2> QED BY <1>2, <1>9, <2>1, InsideStep DEF CloseFile, InOrder
<1>10. CASE SaveReturns(t)
  <2>1. MovesTo(t, "collect") /\ InBackend(t)
    BY <1>1, <1>10 DEF SaveReturns, HasPc, MovesTo, InBackend
  <2> QED BY <1>2, <1>10, <2>1, InsideStep DEF SaveReturns, InOrder
<1>11. CASE Collect(t)
  <2>1. \E pc \in {"write", "close"} : MovesTo(t, pc)
    BY <1>1, <1>11 DEF Collect, HasPc, MovesTo
  <2>2. InBackend(t) /\ saver' = NoSaver
    BY <1>1, <1>11 DEF Collect, InBackend, InOrder
  <2> QED BY <1>2, <1>11, <2>1, <2>2, InsideStep DEF Collect, InOrder
<1>12. ASSUME NEW success \in BOOLEAN, WriteContent(t, success) PROVE BackendInv'
  <2>1. MovesTo(t, "write") /\ InBackend(t)
    BY <1>1, <1>12 DEF WriteContent, HasPc, MovesTo, InBackend
  <2>2. InOrder("write", stream', saver')
    BY <1>1, <1>12 DEF WriteContent, InOrder
  <2> QED BY <1>2, <1>12, <2>1, <2>2, InsideStep DEF WriteContent
<1>13. CASE ContentsWritten(t)
  <2>1. MovesTo(t, "close") /\ InBackend(t)
    BY <1>1, <1>13 DEF ContentsWritten, HasPc, MovesTo, InBackend
  <2>2. InOrder("close", stream', saver')
    BY <1>1, <1>13 DEF ContentsWritten, InOrder
  <2> QED BY <1>2, <1>13, <2>1, <2>2, InsideStep DEF ContentsWritten
<1>14. CASE OutOfMemory(t)
  <2>1. CASE oomHook
    <3>1. /\ InBackend(t) /\ saver' = NoSaver
          /\ th[t].operation = "load" => stream' = NoStream
      BY <1>14, <2>1 DEF OutOfMemory, InBackend
    <3> DEFINE next == IF th[t].operation = "load" THEN "unlock" ELSE "close"
               reason == <<[by |-> t, kind |-> "out of memory"]>>
               data == IF th[t].operation = "load" THEN "none" ELSE th[t].data
               content == IF th[t].operation = "load" THEN FALSE ELSE th[t].content
    <3>2. th' = [th EXCEPT ![t].pc = next, ![t].result = reason,
                           ![t].data = data, ![t].content = content]
      BY <1>14, <2>1 DEF OutOfMemory
    <3>5. MovesTo(t, next)
      <4> HIDE DEF next, reason, data, content
      <4> QED BY <1>1, <3>2 DEF HasPc, MovesTo
    <3>6. InOrder(next, stream', saver')
      BY <3>1 DEF InOrder
    <3> QED BY <1>2, <1>14, <3>1, <3>5, <3>6, InsideStep DEF OutOfMemory
  <2>2. CASE ~oomHook
    <3>1. MovesTo(t, th[t].pc) /\ InBackend(t)
      BY <1>1, <1>14, <2>2 DEF OutOfMemory, HasPc, MovesTo, InBackend
    <3>2. InOrder(th[t].pc, stream', saver')
      BY <1>1, <1>14, <2>2 DEF OutOfMemory
    <3> QED BY <1>2, <1>14, <3>1, <3>2, InsideStep DEF OutOfMemory
  <2> QED BY <2>1, <2>2
<1>15. CASE CloseMessageStream(t)
  <2>1. MovesTo(t, "unlock") /\ InBackend(t)
    BY <1>1, <1>15 DEF CloseMessageStream, HasPc, MovesTo, InBackend
  <2>2. stream' = NoStream /\ saver' = NoSaver
    BY <1>1, <1>15 DEF CloseMessageStream, InOrder
  <2> QED BY <1>2, <1>15, <2>1, <2>2, InsideStep DEF CloseMessageStream, InOrder
<1>16. CASE Unlock(t)
  <2>1. MovesTo(t, "idle") /\ InBackend(t)
    BY <1>1, <1>16 DEF Unlock, HasPc, MovesTo, InBackend
  <2>2. stream' = NoStream /\ saver' = NoSaver
    BY <1>1, <1>16 DEF Unlock, InOrder
  <2> QED BY <1>16, <2>1, <2>2, InsideStep DEF Unlock, InOrder
<1> QED BY <1>3, <1>4, <1>5, <1>6, <1>7, <1>8, <1>9, <1>10, <1>11, <1>12, <1>13, <1>14, <1>15, <1>16
        DEF Backend

LEMMA StepSound == BackendInv /\ [Next]_vars => BackendInv'
<1> SUFFICES ASSUME BackendInv, [Next]_vars PROVE BackendInv'
  OBVIOUS
<1>1. CASE UNCHANGED vars
  BY <1>1 DEF vars, BackendInv, HasPc, Serialized, QuietWhenUnlocked, InBackend
<1>2. ASSUME NEW t \in Thread, Client(t) \/ Lock(t) \/ Backend(t) PROVE BackendInv'
  BY <1>2, ClientSound, LockSound, BackendSound
<1> QED BY <1>1, <1>2 DEF Next, Exited

LEMMA AlwaysSound == Spec => []BackendInv
BY InitSound, StepSound, PTL DEF Spec

-----------------------------------------------------------------------------
(* The theorems.                                                           *)

(* At most one thread is inside SGFC and the hooks, and it has the mutex.  *)
THEOREM AlwaysSerialized == Spec => []Serialized
<1>1. BackendInv => Serialized
  BY DEF BackendInv
<1> QED BY <1>1, AlwaysSound, PTL

(* Whenever the mutex is free, nothing of an earlier operation is left,    *)
(* however that ended.                                                     *)
THEOREM AlwaysQuiet == Spec => []QuietWhenUnlocked
<1>1. BackendInv => QuietWhenUnlocked
  BY DEF BackendInv
<1> QED BY <1>1, AlwaysSound, PTL

(* The constructors of the streams never find another one open.            *)
THEOREM NeverAnInterfacingError == Spec => []NoInterfacingError
<1>1. BackendInv => NoInterfacingError
  BY DEF BackendInv, InOrder, NoInterfacingError
<1> QED BY <1>1, AlwaysSound, PTL

-----------------------------------------------------------------------------
(* The invariant: what the record r of a thread says about its operation,  *)
(* and what the streams hold on behalf of the thread.                      *)

Count(n) == [i \in 1..n |-> i]

(* The frontends: who can do what, and from when on the hook is installed. *)
Owned(r, hook) ==
  /\ r.pc # "idle" => r.frontend # "none"
  /\ r.frontend # "none" /\ ~hook => r.pc = "lock" /\ r.operation = "parse"
  /\ r.pc = "new data" => r.operation = "load"
  /\ r.pc \in {"open save", "save", "write"} => r.operation = "save"

(* The data: a failed load leaves no valid content behind.                 *)
DataKnown(r) ==
  /\ r.operation = "save" =>
       \/ r.data = "FullyLoaded"
       \/ r.frontend = "writer" /\ r.data = "PartiallyLoaded"
  /\ r.pc \in {"open save", "save"} => r.data = "FullyLoaded"
  /\ r.pc = "collect" /\ r.operation = "load" /\ ~HasFatal(r.reported) => r.data = "FullyLoaded"
  /\ r.frontend = "writer" => ~r.content /\ r.operation # "load"
  /\ r.content /\ (r.operation = "load" => r.pc \in {"lock", "close", "unlock", "idle"}) =>
       r.data = "FullyLoaded"

(* Before SaveSGF returns nothing has been delivered.                      *)
NothingYet(r) ==
  /\ r.pc \in {"lock", "new data", "open", "sgfc", "open save", "save"} =>
       r.saved = <<>> /\ r.target = Untouched(r.frontend, r.location)
  /\ r.pc \in {"lock", "new data", "open", "sgfc", "open save"} => r.produced = 0
  /\ r.pc \in {"lock", "new data", "open"} => r.reported = <<>>

(* The files that are delivered and those that still are to be written.    *)
Complete(r) ==
  /\ Len(r.target) + Len(r.saved) = r.produced
  /\ \A i \in 1..Len(r.target) : r.target[i] = i
  /\ \A i \in 1..Len(r.saved) : r.saved[i].content = Len(r.target) + i

OutOfMemoryIn(ms) == \E i \in DOMAIN ms : ms[i].kind = "out of memory"

(* After SaveSGF has returned.                                             *)
Delivered(r) ==
  /\ \A i \in DOMAIN r.saved : r.saved[i].path = r.saved[i].content
  /\ r.pc = "collect" =>
       /\ HasFatal(r.reported) => r.saved = <<>>
       /\ r.operation = "save" /\ ~HasFatal(r.reported) =>
            /\ Len(r.saved) = r.produced
            /\ \A i \in 1..Len(r.saved) : r.saved[i].content = i
  /\ r.pc = "write" =>
       /\ HasFatal(r.reported) => r.saved = <<>> /\ r.target = <<>>
       /\ ~HasFatal(r.result) => Complete(r)
  /\ r.operation = "save" /\ r.pc \in {"close", "unlock", "idle"} =>
       /\ OutOfMemoryIn(r.result) => r.target = Untouched(r.frontend, r.location)
       /\ HasFatal(r.reported) /\ ~OutOfMemoryIn(r.result) => r.target = <<>>
       /\ ~HasFatal(r.result) => r.target = Count(r.produced)

(* The messages an operation returns; running out of memory is not one of  *)
(* SGFC's.                                                                 *)
Reported(r) ==
  /\ ~OutOfMemoryIn(r.reported)
  /\ r.pc = "write" => ReportsExactly(r.result, r.reported)
  /\ r.pc \in {"close", "unlock", "idle"} /\ ~OutOfMemoryIn(r.result) =>
       /\ r.operation \in {"load", "save"} => ReportsExactly(r.result, r.reported)
       /\ r.operation = "parse" => r.result = InvalidCommandLineReason(r.reported)

(* The streams of a thread that is inside SGFC.                            *)
Streams(r, messageStream, saveStream) ==
  /\ r.pc \in {"sgfc", "open save", "save", "collect"} =>
       messageStream.hook /\ messageStream.messages = r.reported
  /\ r.pc = "save" =>
       /\ saveStream.contents = Count(r.produced)
       /\ saveStream.paths \in {Count(r.produced), Count(r.produced + 1)}

Local(r, hook) ==
  Owned(r, hook) /\ DataKnown(r) /\ NothingYet(r) /\ Delivered(r) /\ Reported(r)

ResultInv ==
  /\ BackendInv
  /\ TypeOK
  /\ \A t \in Thread : Local(th[t], oomHook) /\ Streams(th[t], stream, saver)

-----------------------------------------------------------------------------
(* What a step of a thread must keep.                                      *)

Field ==
  {"pc", "frontend", "valid", "operation", "location", "data", "content", "result",
   "saved", "target", "reported", "produced"}

(* Two records of a thread differ at most in the given fields.             *)
Keeps(q, r, changed) == \A f \in Field \ changed : q[f] = r[f]

(* A step of t, after which t and the streams are as they must be.         *)
StepOf(t) ==
  /\ th'[t] \in ThreadState
  /\ th' = [th EXCEPT ![t] = th'[t]]
  /\ stream' \in StreamState /\ saver' \in SaverState
  /\ Local(th'[t], oomHook') /\ Streams(th'[t], stream', saver')
  /\ oomHook' \in BOOLEAN /\ exited' \in BOOLEAN /\ (oomHook => oomHook')
  /\ mutex' \in {mutex, t, NoThread}

(* The others are outside the backend, or the streams do not change.       *)
LEMMA StepKeepsInv ==
  ASSUME ResultInv, BackendInv', NEW t \in Thread, StepOf(t),
         \/ InBackend(t)
         \/ UNCHANGED <<stream, saver>> /\ (mutex' = mutex \/ (mutex' = t /\ InBackend(t)')),
         mutex' = t => InBackend(t)'
  PROVE  ResultInv'
<1>1. /\ th' \in [Thread -> ThreadState] /\ DOMAIN th' = Thread
      /\ \A u \in Thread \ {t} : th'[u] = th[u]
  BY DEF StepOf, ResultInv, TypeOK
<1>2. ASSUME NEW u \in Thread PROVE Local(th'[u], oomHook')
  <2>1. CASE u = t
    BY <2>1 DEF StepOf
  <2>2. CASE u # t
    <3>1. Local(th[u], oomHook) /\ th'[u] = th[u]
      BY <1>1, <2>2 DEF ResultInv
    <3>2. oomHook \in BOOLEAN /\ oomHook' \in BOOLEAN /\ (oomHook => oomHook')
      BY DEF ResultInv, TypeOK, StepOf
    <3> QED BY <3>1, <3>2 DEF Local, Owned
  <2> QED BY <2>1, <2>2
<1>3. ASSUME NEW u \in Thread PROVE Streams(th'[u], stream', saver')
  <2>1. CASE u = t
    BY <2>1 DEF StepOf
  <2>2. CASE u # t /\ InBackend(t)
    <3>1. ~InBackend(u) /\ th'[u] = th[u]
      BY <1>1, <2>2 DEF ResultInv, BackendInv, Serialized
    <3> QED BY <3>1 DEF Streams, InBackend
  <2>3. CASE u # t /\ UNCHANGED <<stream, saver>>
    <3>1. Streams(th[u], stream, saver) /\ th'[u] = th[u]
      BY <1>1, <2>3 DEF ResultInv
    <3> QED BY <2>3, <3>1
  <2> QED BY <2>1, <2>2, <2>3
<1>4. mutex' \in {NoThread} \cup {u \in Thread : InBackend(u)'}
  <2>1. CASE mutex' = t \/ mutex' = NoThread
    BY <2>1
  <2>2. CASE mutex' = mutex /\ mutex \in Thread /\ mutex # t
    <3>1. InBackend(mutex) /\ th'[mutex] = th[mutex]
      BY <1>1, <2>2, BackendAssumption DEF ResultInv, TypeOK
    <3> QED BY <2>2, <3>1 DEF InBackend
  <2>3. mutex \in {NoThread} \cup Thread
    BY DEF ResultInv, TypeOK
  <2> QED BY <2>1, <2>2, <2>3 DEF StepOf
<1> QED BY <1>1, <1>2, <1>3, <1>4 DEF StepOf, ResultInv, TypeOK

-----------------------------------------------------------------------------
(* Sequences of messages.                                                  *)

LEMMA AppendFacts ==
  ASSUME NEW S, NEW seq \in Seq(S), NEW e \in S
  PROVE  /\ Append(seq, e) \in Seq(S) /\ Len(seq) \in Nat /\ Len(Append(seq, e)) = Len(seq) + 1
         /\ DOMAIN seq = 1..Len(seq) /\ DOMAIN Append(seq, e) = 1..Len(seq) + 1
         /\ Append(seq, e)[Len(seq) + 1] = e
         /\ \A i \in 1..Len(seq) : Append(seq, e)[i] = seq[i]
<1>1. /\ Append(seq, e) \in Seq(S) /\ Len(seq) \in Nat /\ Len(Append(seq, e)) = Len(seq) + 1
      /\ Append(seq, e)[Len(seq) + 1] = e
      /\ \A i \in 1..Len(seq) : Append(seq, e)[i] = seq[i]
  OBVIOUS
<1> QED BY <1>1, LenProperties

LEMMA SingletonFacts ==
  ASSUME NEW S, NEW e \in S
  PROVE  <<e>> \in Seq(S) /\ Len(<<e>>) = 1 /\ 1 \in DOMAIN <<e>> /\ <<e>>[1] = e
OBVIOUS

LEMMA HasFatalAppend ==
  ASSUME NEW ms \in Seq(Message), NEW m \in Message
  PROVE  /\ Append(ms, m) \in Seq(Message)
         /\ HasFatal(Append(ms, m)) <=> (HasFatal(ms) \/ m.kind # "warning")
<1> DEFINE longer == Append(ms, m)
<1>1. /\ longer \in Seq(Message) /\ Len(ms) \in Nat
      /\ DOMAIN longer = 1..Len(ms) + 1 /\ DOMAIN ms = 1..Len(ms)
      /\ longer[Len(ms) + 1] = m /\ \A i \in 1..Len(ms) : longer[i] = ms[i]
  BY AppendFacts
<1> HIDE DEF longer
<1>2. 1..Len(ms) + 1 = 1..Len(ms) \cup {Len(ms) + 1}
  BY <1>1
<1>3. HasFatal(longer) <=> (HasFatal(ms) \/ m.kind # "warning")
  BY <1>1, <1>2 DEF HasFatal
<1> QED BY <1>1, <1>3 DEF longer

LEMMA LeastNumber ==
  ASSUME NEW S, S \subseteq Nat, S # {}
  PROVE  \E i \in S : \A j \in S : i <= j
<1> DEFINE Less == {p \in Nat \X Nat : p[1] < p[2]}
<1>1. IsWellFoundedOn(Less, Nat)
  <2>1. Less = OpToRel(<, Nat)
    BY DEF OpToRel
  <2> QED BY <2>1, NatLessThanWellFounded
<1>2. PICK i \in S : \A j \in S : ~(<<j, i>> \in Less)
  <2> HIDE DEF Less
  <2> QED BY <1>1, WFMin
<1>3. ASSUME NEW j \in S PROVE i <= j
  <2>1. i \in Nat /\ j \in Nat
    OBVIOUS
  <2>2. ~(j < i)
    BY <1>2, <2>1
  <2> QED BY <2>1, <2>2
<1> QED BY <1>3

LEMMA ReportsItself ==
  ASSUME NEW ms \in Seq(Message)
  PROVE  ReportsExactly(ms, ms)
<1>1. Len(ms) \in Nat /\ DOMAIN ms = 1..Len(ms)
  OBVIOUS
<1> QED BY <1>1 DEF ReportsExactly

(* The first fatal error exists if there is one at all.                    *)
LEMMA ReasonType ==
  ASSUME NEW ms \in Seq(Message)
  PROVE  InvalidCommandLineReason(ms) \in Seq(Message)
<1> DEFINE fatal == {i \in DOMAIN ms : ms[i].kind # "warning"}
<1>1. CASE fatal = {}
  BY <1>1 DEF InvalidCommandLineReason
<1>2. CASE fatal # {}
  <2>1. fatal \subseteq Nat /\ fatal \subseteq 1..Len(ms)
    OBVIOUS
  <2>2. \E i \in fatal : \A j \in fatal : i <= j
    <3> HIDE DEF fatal
    <3> QED BY <1>2, <2>1, LeastNumber
  <2>4. (CHOOSE k \in fatal : \A j \in fatal : k <= j) \in fatal
    BY <2>2
  <2> QED BY <1>2, <2>1, <2>4 DEF InvalidCommandLineReason
<1> QED BY <1>1, <1>2

-----------------------------------------------------------------------------
(* The client's side.                                                      *)

Blank(r) ==
  /\ r.pc = "lock" /\ r.location = "none" /\ r.produced = 0
  /\ r.result = <<>> /\ r.saved = <<>> /\ r.target = <<>> /\ r.reported = <<>>

LEMMA BeginFields ==
  ASSUME ResultInv, NEW t \in Thread, NEW op \in {"parse", "load", "save"}
  PROVE  /\ Begin(t, op) \in ThreadState
         /\ Keeps(Begin(t, op), th[t], {"pc", "operation", "location", "result", "saved",
                                       "target", "reported", "produced"})
         /\ Begin(t, op).operation = op /\ Blank(Begin(t, op))
<1>1. th[t] \in ThreadState
  BY DEF ResultInv, TypeOK
<1>2. Begin(t, op) \in ThreadState
  <2>1. /\ <<>> \in Seq(Message) /\ <<>> \in Seq(Nat)
        /\ <<>> \in Seq([path : Nat, content : Nat]) /\ 0 \in Nat
    OBVIOUS
  <2> QED BY <1>1, <2>1, Zenon DEF Begin, ThreadState
<1>3. Keeps(Begin(t, op), th[t], {"pc", "operation", "location", "result", "saved",
                                  "target", "reported", "produced"})
  BY <1>1 DEF Begin, ThreadState, Keeps, Field
<1>4. Begin(t, op).operation = op /\ Blank(Begin(t, op))
  BY <1>1 DEF Begin, ThreadState, Blank
<1> QED BY <1>2, <1>3, <1>4

(* An operation that has not begun yet.                                    *)
LEMMA WaitingSound ==
  ASSUME NEW q, q.pc = "lock", q.operation \in {"parse", "load", "save"}, q.saved = <<>>,
         q.target = Untouched(q.frontend, q.location), q.reported = <<>>, q.produced = 0,
         NEW hook, Owned(q, hook), DataKnown(q)
  PROVE  Local(q, hook) /\ Streams(q, stream, saver)
<1>1. NothingYet(q) /\ Reported(q) /\ Streams(q, stream, saver)
  BY DEF NothingYet, Reported, OutOfMemoryIn, Streams
<1>2. Delivered(q)
  BY DEF Delivered
<1> QED BY <1>1, <1>2 DEF Local

LEMMA NewControllerStep ==
  ASSUME ResultInv, NEW t \in Thread, NEW kind \in {"command line", "reader", "writer"},
         NewController(t, kind)
  PROVE  StepOf(t)
<1> DEFINE start == Begin(t, "parse")
           q == [start EXCEPT !.frontend = kind]
<1>1. /\ start \in ThreadState /\ Blank(start) /\ start.operation = "parse"
      /\ start.data = "none" /\ start.content = FALSE
  <2>1. th[t].data = "none" /\ th[t].content = FALSE
    <3>1. th[t] = NoFrontend
      BY DEF NewController
    <3>2. NoFrontend.data = "none" /\ NoFrontend.content = FALSE
      BY DEF NoFrontend
    <3> QED BY <3>1, <3>2
  <2>2. start.data = th[t].data /\ start.content = th[t].content
    BY BeginFields DEF Keeps, Field
  <2> QED BY <2>1, <2>2, BeginFields
<1>2. th' = [th EXCEPT ![t] = q] /\ th'[t] = q
  BY DEF NewController, ResultInv, TypeOK
<1> HIDE DEF start
<1>3. q \in ThreadState /\ Keeps(q, start, {"frontend"}) /\ q.frontend = kind
  BY <1>1 DEF ThreadState, Keeps, Field
<1> HIDE DEF q
<1>4. /\ q.pc = "lock" /\ q.operation = "parse" /\ q.data = "none" /\ q.content = FALSE
      /\ q.saved = <<>> /\ q.target = <<>> /\ q.location = "none"
      /\ q.reported = <<>> /\ q.produced = 0
  BY <1>1, <1>3 DEF Keeps, Field, Blank
<1>5. Owned(q, oomHook) /\ DataKnown(q)
  BY <1>3, <1>4 DEF Owned, DataKnown
<1>6. Local(q, oomHook) /\ Streams(q, stream, saver)
  BY <1>4, <1>5, WaitingSound DEF Untouched
<1> QED BY <1>2, <1>3, <1>6 DEF StepOf, NewController, ResultInv, TypeOK

LEMMA LoadStep ==
  ASSUME ResultInv, NEW t \in Thread, Load(t)
  PROVE  StepOf(t)
<1> DEFINE q == Begin(t, "load")
<1>1. th' = [th EXCEPT ![t] = q] /\ th'[t] = q
  BY DEF Load, ResultInv, TypeOK
<1>2. /\ q \in ThreadState /\ q.pc = "lock" /\ q.operation = "load"
      /\ q.saved = <<>> /\ q.target = <<>> /\ q.location = "none"
      /\ q.reported = <<>> /\ q.produced = 0
      /\ q.frontend = th[t].frontend /\ q.data = th[t].data /\ q.content = th[t].content
  BY BeginFields DEF Keeps, Field, Blank
<1> HIDE DEF q
<1>3. /\ th[t].pc = "idle" /\ th[t].frontend \in {"command line", "reader"}
      /\ Local(th[t], oomHook)
  BY DEF Load, ResultInv
<1>4. Owned(q, oomHook) /\ DataKnown(q)
  BY <1>2, <1>3 DEF Local, Owned, DataKnown
<1>5. Local(q, oomHook) /\ Streams(q, stream, saver)
  BY <1>2, <1>4, WaitingSound DEF Untouched
<1> QED BY <1>1, <1>2, <1>5 DEF StepOf, Load, ResultInv, TypeOK

(* The common part of Save and Write.                                      *)
LEMMA BeginSaveFields ==
  ASSUME ResultInv, NEW t \in Thread, NEW location \in {"file", "memory"}
  PROVE  LET q == BeginSave(t, location)
         IN  /\ q \in ThreadState /\ q.pc = "lock" /\ q.operation = "save"
             /\ q.saved = <<>> /\ q.target = Untouched(q.frontend, q.location)
             /\ q.reported = <<>> /\ q.produced = 0
             /\ q.frontend = th[t].frontend /\ q.data = th[t].data
             /\ q.content = th[t].content
<1> DEFINE start == Begin(t, "save")
           target == Untouched(th[t].frontend, location)
           q == [start EXCEPT !.location = location, !.target = target]
<1>1. start \in ThreadState /\ Blank(start) /\ start.operation = "save"
  BY BeginFields
<1>2. /\ start.frontend = th[t].frontend /\ start.data = th[t].data
      /\ start.content = th[t].content
  BY BeginFields DEF Keeps, Field
<1>3. target \in Seq(Nat)
  <2>1. Stale \in Nat /\ Encoded \in Nat
    BY BackendAssumption DEF Stale, Encoded
  <2>2. <<>> \in Seq(Nat) /\ <<Stale>> \in Seq(Nat) /\ <<Encoded>> \in Seq(Nat)
    <3> HIDE DEF Stale, Encoded
    <3> QED BY <2>1
  <2> QED BY <2>2 DEF Untouched
<1>4. BeginSave(t, location) = q
  BY DEF BeginSave
<1> HIDE DEF start, target
<1>5. q \in ThreadState
  BY <1>1, <1>3 DEF ThreadState
<1>6. Keeps(q, start, {"location", "target"}) /\ q.target = target /\ q.location = location
  BY <1>1 DEF ThreadState, Keeps, Field
<1> HIDE DEF q
<1>7. q.frontend = th[t].frontend /\ q.data = th[t].data /\ q.content = th[t].content
  BY <1>2, <1>6 DEF Keeps, Field
<1>8. q.target = Untouched(q.frontend, q.location)
  BY <1>6, <1>7 DEF target
<1> QED BY <1>1, <1>4, <1>5, <1>6, <1>7, <1>8 DEF Keeps, Field, Blank

LEMMA SaveStep ==
  ASSUME ResultInv, NEW t \in Thread, NEW location \in {"file", "memory"}, Save(t, location)
  PROVE  StepOf(t)
<1> DEFINE q == BeginSave(t, location)
<1>1. th' = [th EXCEPT ![t] = q] /\ th'[t] = q
  BY DEF Save, ResultInv, TypeOK
<1>2. /\ q \in ThreadState /\ q.pc = "lock" /\ q.operation = "save"
      /\ q.saved = <<>> /\ q.target = Untouched(q.frontend, q.location)
      /\ q.reported = <<>> /\ q.produced = 0
      /\ q.frontend = th[t].frontend /\ q.data = th[t].data /\ q.content = th[t].content
  BY BeginSaveFields
<1> HIDE DEF q
<1>3. /\ th[t].pc = "idle" /\ th[t].frontend = "command line" /\ th[t].content
      /\ Local(th[t], oomHook)
  BY DEF Save, ResultInv
<1>4. Owned(q, oomHook) /\ DataKnown(q)
  BY <1>2, <1>3 DEF Local, Owned, DataKnown
<1>5. Local(q, oomHook) /\ Streams(q, stream, saver)
  BY <1>2, <1>4, WaitingSound
<1> QED BY <1>1, <1>2, <1>5 DEF StepOf, Save, ResultInv, TypeOK

LEMMA WriteStep ==
  ASSUME ResultInv, NEW t \in Thread, NEW location \in {"file", "memory"}, Write(t, location)
  PROVE  StepOf(t)
<1> DEFINE start == BeginSave(t, location)
           q == [start EXCEPT !.data = "PartiallyLoaded"]
<1>1. th' = [th EXCEPT ![t] = q] /\ th'[t] = q
  BY DEF Write, ResultInv, TypeOK
<1>2. /\ start \in ThreadState /\ start.pc = "lock" /\ start.operation = "save"
      /\ start.saved = <<>> /\ start.target = Untouched(start.frontend, start.location)
      /\ start.reported = <<>> /\ start.produced = 0
      /\ start.frontend = th[t].frontend /\ start.content = th[t].content
  BY BeginSaveFields
<1> HIDE DEF start
<1>3. q \in ThreadState /\ Keeps(q, start, {"data"}) /\ q.data = "PartiallyLoaded"
  BY <1>2 DEF ThreadState, Keeps, Field
<1> HIDE DEF q
<1>4. /\ q.pc = "lock" /\ q.operation = "save"
      /\ q.saved = <<>> /\ q.target = Untouched(q.frontend, q.location)
      /\ q.reported = <<>> /\ q.produced = 0
      /\ q.frontend = th[t].frontend /\ q.content = th[t].content
  BY <1>2, <1>3 DEF Keeps, Field
<1>5. th[t].pc = "idle" /\ th[t].frontend = "writer" /\ Local(th[t], oomHook)
  BY DEF Write, ResultInv
<1>6. Owned(q, oomHook) /\ DataKnown(q)
  BY <1>3, <1>4, <1>5 DEF Local, Owned, DataKnown
<1>7. Local(q, oomHook) /\ Streams(q, stream, saver)
  BY <1>4, <1>6, WaitingSound
<1> QED BY <1>1, <1>3, <1>7 DEF StepOf, Write, ResultInv, TypeOK

LEMMA NoFrontendSound ==
  ASSUME NEW hook
  PROVE  Local(NoFrontend, hook) /\ Streams(NoFrontend, stream, saver)
<1>1. /\ NoFrontend.pc = "idle" /\ NoFrontend.frontend = "none" /\ NoFrontend.operation = "none"
      /\ NoFrontend.content = FALSE /\ NoFrontend.saved = <<>> /\ NoFrontend.reported = <<>>
  BY DEF NoFrontend
<1>2. Owned(NoFrontend, hook) /\ DataKnown(NoFrontend) /\ NothingYet(NoFrontend)
  BY <1>1 DEF Owned, DataKnown, NothingYet
<1>3. Delivered(NoFrontend)
  BY <1>1 DEF Delivered
<1>4. Reported(NoFrontend) /\ Streams(NoFrontend, stream, saver)
  BY <1>1 DEF Reported, OutOfMemoryIn, Streams
<1> QED BY <1>2, <1>3, <1>4 DEF Local

LEMMA DestroyStep ==
  ASSUME ResultInv, NEW t \in Thread, Destroy(t)
  PROVE  StepOf(t)
<1>1. th' = [th EXCEPT ![t] = NoFrontend] /\ th'[t] = NoFrontend
  BY DEF Destroy, ResultInv, TypeOK
<1>2. NoFrontend \in ThreadState
  BY DEF NoFrontend, ThreadState
<1>3. Local(NoFrontend, oomHook) /\ Streams(NoFrontend, stream, saver)
  BY NoFrontendSound
<1> QED BY <1>1, <1>2, <1>3 DEF StepOf, Destroy, ResultInv, TypeOK

-----------------------------------------------------------------------------
(* The operation.                                                          *)

(* What a thread may rely on.                                              *)
LEMMA Before ==
  ASSUME ResultInv, NEW t \in Thread
  PROVE  /\ th[t] \in ThreadState /\ stream \in StreamState /\ saver \in SaverState
         /\ oomHook \in BOOLEAN /\ exited \in BOOLEAN
         /\ Owned(th[t], oomHook) /\ DataKnown(th[t]) /\ NothingYet(th[t])
         /\ Delivered(th[t]) /\ Reported(th[t]) /\ Streams(th[t], stream, saver)
BY DEF ResultInv, TypeOK, Local

LEMMA LockStep ==
  ASSUME ResultInv, NEW t \in Thread, Lock(t)
  PROVE  StepOf(t)
<1> DEFINE r == th[t]
           next == IF r.operation = "load" THEN "new data" ELSE "open"
           q == [r EXCEPT !.pc = next]
<1>1. th' = [th EXCEPT ![t] = q] /\ th'[t] = q
  BY DEF Lock, ResultInv, TypeOK
<1>2. q \in ThreadState /\ Keeps(q, r, {"pc"}) /\ q.pc = next
  <2>1. next \in {"new data", "open"}
    OBVIOUS
  <2> HIDE DEF next
  <2>2. r \in ThreadState
    BY Before
  <2> HIDE DEF r
  <2>3. q \in ThreadState
    BY <2>1, <2>2, Zenon DEF ThreadState
  <2>4. Keeps(q, r, {"pc"}) /\ q.pc = next
    BY <2>2 DEF ThreadState, Keeps, Field
  <2> QED BY <2>3, <2>4
<1> HIDE DEF q
<1>3. r.pc = "lock" /\ oomHook' = (oomHook \/ r.operation = "parse")
  BY DEF Lock
<1>4. Owned(q, oomHook')
  BY <1>2, <1>3, Before DEF Keeps, Field, Owned
<1>5. DataKnown(q) /\ NothingYet(q)
  BY <1>2, <1>3, Before DEF Keeps, Field, DataKnown, NothingYet
<1>6. Delivered(q) /\ Reported(q)
  BY <1>2, <1>3, Before DEF Keeps, Field, Delivered, Reported
<1>7. Streams(q, stream, saver)
  BY <1>2, <1>3 DEF Streams
<1> QED BY <1>1, <1>2, <1>3, <1>4, <1>5, <1>6, <1>7, Before DEF StepOf, Local, Lock

LEMMA NewDataStep ==
  ASSUME ResultInv, NEW t \in Thread, NEW state \in {"NotLoaded", "PartiallyLoaded"},
         NewData(t, state)
  PROVE  StepOf(t)
<1> DEFINE r == th[t]
           q == [r EXCEPT !.pc = "open", !.data = state]
<1>1. th' = [th EXCEPT ![t] = q] /\ th'[t] = q
  BY DEF NewData, ResultInv, TypeOK
<1>2. q \in ThreadState /\ Keeps(q, r, {"pc", "data"}) /\ q.pc = "open" /\ q.data = state
  BY Before DEF ThreadState, Keeps, Field
<1> HIDE DEF q
<1>3. r.pc = "new data"
  BY DEF NewData
<1>4. Owned(q, oomHook)
  BY <1>2, <1>3, Before DEF Keeps, Field, Owned
<1>5. DataKnown(q) /\ NothingYet(q)
  <2>1. /\ q.frontend = r.frontend /\ q.location = r.location /\ q.operation = r.operation
        /\ q.content = r.content /\ q.saved = r.saved /\ q.target = r.target
        /\ q.reported = r.reported /\ q.produced = r.produced
    BY <1>2 DEF Keeps, Field
  <2>2. r.operation = "load"
    BY <1>3, Before DEF Owned
  <2>3. DataKnown(q)
    BY <1>2, <1>3, <2>1, <2>2, Before DEF DataKnown
  <2>4. NothingYet(q)
    BY <1>2, <1>3, <2>1, Before DEF NothingYet
  <2> QED BY <2>3, <2>4
<1>6. Delivered(q) /\ Reported(q)
  BY <1>2, <1>3, Before DEF Keeps, Field, Delivered, Reported
<1>7. Streams(q, stream, saver)
  BY <1>2, <1>3 DEF Streams
<1> QED BY <1>1, <1>2, <1>4, <1>5, <1>6, <1>7, Before DEF StepOf, Local, NewData

LEMMA OpenMessageStreamStep ==
  ASSUME ResultInv, NEW t \in Thread, OpenMessageStream(t)
  PROVE  StepOf(t) /\ InBackend(t)'
<1> DEFINE r == th[t]
           q == [r EXCEPT !.pc = AfterOpen(t)]
<1>1. r.pc = "open" /\ stream = NoStream
  BY DEF OpenMessageStream, ResultInv, BackendInv, InOrder
<1>2. /\ ~stream.capturing
      /\ stream' = [hook |-> TRUE, messages |-> <<>>, capturing |-> TRUE]
  BY <1>1 DEF NoStream, OpenMessageStream
<1>3. /\ AfterOpen(t) \in {"open save", "sgfc"}
      /\ AfterOpen(t) = "open save" => r.operation = "save" /\ r.data # "PartiallyLoaded"
  BY <1>2 DEF AfterOpen
<1>4. th' = [th EXCEPT ![t] = q] /\ th'[t] = q
  BY DEF OpenMessageStream, ResultInv, TypeOK
<1>5. q \in ThreadState /\ Keeps(q, r, {"pc"}) /\ q.pc = AfterOpen(t)
  BY <1>3, Before DEF ThreadState, Keeps, Field
<1> HIDE DEF q
<1>6. Owned(q, oomHook)
  BY <1>1, <1>3, <1>5, Before DEF Keeps, Field, Owned
<1>7. DataKnown(q) /\ NothingYet(q)
  <2>1. /\ q.frontend = r.frontend /\ q.location = r.location /\ q.operation = r.operation
        /\ q.content = r.content /\ q.saved = r.saved /\ q.target = r.target
        /\ q.reported = r.reported /\ q.produced = r.produced /\ q.data = r.data
    BY <1>5 DEF Keeps, Field
  <2>2. DataKnown(q)
    BY <1>1, <1>3, <1>5, <2>1, Before DEF DataKnown
  <2>3. NothingYet(q)
    BY <1>1, <1>3, <1>5, <2>1, Before DEF NothingYet
  <2> QED BY <2>2, <2>3
<1>8. Delivered(q) /\ Reported(q)
  BY <1>1, <1>3, <1>5, Before DEF Keeps, Field, Delivered, Reported
<1>9. Streams(q, stream', saver)
  <2>1. q.reported = <<>> /\ q.pc # "save"
    BY <1>1, <1>3, <1>5, Before DEF Keeps, Field, NothingYet
  <2> QED BY <1>2, <2>1 DEF Streams
<1>10. stream' \in StreamState
  BY <1>2 DEF StreamState
<1> QED BY <1>3, <1>4, <1>5, <1>6, <1>7, <1>8, <1>9, <1>10, Before
        DEF StepOf, Local, InBackend, OpenMessageStream

LEMMA ReportStep ==
  ASSUME ResultInv, NEW t \in Thread, NEW kind \in {"warning", "fatal"}, Report(t, kind)
  PROVE  StepOf(t)
<1> DEFINE r == th[t]
           m == [by |-> t, kind |-> kind]
           reported == Append(r.reported, m)
           q == [r EXCEPT !.reported = reported]
<1>1. r.pc \in {"sgfc", "save"}
  BY DEF Report
<1>2. r.reported \in Seq(Message) /\ m \in Message /\ reported \in Seq(Message)
  <2>1. r.reported \in Seq(Message)
    BY Before DEF ThreadState
  <2>2. m \in Message
    BY DEF Message, Kind
  <2> QED BY <2>1, <2>2
<1>3. th' = [th EXCEPT ![t] = q] /\ th'[t] = q
  BY DEF Report, ResultInv, TypeOK
<1>4. stream.hook /\ stream.messages = r.reported
  BY <1>1, Before DEF Streams
<1>5. stream' = [stream EXCEPT !.messages = reported]
  BY <1>4 DEF Report
<1>12. ~OutOfMemoryIn(reported)
  <2>1. ~OutOfMemoryIn(r.reported) /\ m.kind # "out of memory"
    BY Before DEF Reported
  <2>2. /\ DOMAIN reported = 1..Len(r.reported) + 1 /\ reported[Len(r.reported) + 1] = m
        /\ DOMAIN r.reported = 1..Len(r.reported) /\ Len(r.reported) \in Nat
        /\ \A i \in 1..Len(r.reported) : reported[i] = r.reported[i]
    BY <1>2, AppendFacts
  <2> HIDE DEF m, reported
  <2>3. 1..Len(r.reported) + 1 = 1..Len(r.reported) \cup {Len(r.reported) + 1}
    BY <2>2
  <2> QED BY <2>1, <2>2, <2>3 DEF OutOfMemoryIn
<1> HIDE DEF m, reported
<1>6. q \in ThreadState /\ Keeps(q, r, {"reported"}) /\ q.reported = reported
  BY <1>2, Before DEF ThreadState, Keeps, Field
<1> HIDE DEF q
<1>7. stream' \in StreamState /\ stream'.hook /\ stream'.messages = q.reported
  BY <1>2, <1>4, <1>5, <1>6, Before DEF StreamState
<1>8. Owned(q, oomHook)
  BY <1>1, <1>6, Before DEF Keeps, Field, Owned
<1>9. DataKnown(q) /\ NothingYet(q)
  BY <1>1, <1>6, Before DEF Keeps, Field, DataKnown, NothingYet
<1>10. Delivered(q) /\ Reported(q)
  BY <1>1, <1>6, <1>12, Before DEF Keeps, Field, Delivered, Reported
<1>11. Streams(q, stream', saver)
  BY <1>1, <1>6, <1>7, Before DEF Keeps, Field, Streams
<1> QED BY <1>3, <1>6, <1>7, <1>8, <1>9, <1>10, <1>11, Before DEF StepOf, Local, Report

LEMMA ParseReturnsStep ==
  ASSUME ResultInv, NEW t \in Thread, ParseReturns(t)
  PROVE  StepOf(t)
<1> DEFINE r == th[t]
           next == IF r.operation = "save" /\ ~HasFatal(r.reported) THEN "open save" ELSE "collect"
           data == IF r.operation # "parse" /\ ~HasFatal(r.reported) THEN "FullyLoaded" ELSE r.data
           q == [r EXCEPT !.pc = next, !.data = data]
<1>1. r.pc = "sgfc" /\ th' = [th EXCEPT ![t] = q] /\ th'[t] = q
  <2>1. r.pc = "sgfc" /\ th' = [th EXCEPT ![t].pc = next, ![t].data = data]
    BY DEF ParseReturns
  <2> HIDE DEF next, data
  <2> QED BY <2>1 DEF ResultInv, TypeOK
<1>2. next \in {"open save", "collect"} /\ data \in {r.data, "FullyLoaded"}
  OBVIOUS
<1> HIDE DEF next, data
<1>3. q \in ThreadState /\ Keeps(q, r, {"pc", "data"}) /\ q.pc = next /\ q.data = data
  <2>1. data \in {"none", "NotLoaded", "PartiallyLoaded", "FullyLoaded"}
    BY <1>2, Before DEF ThreadState
  <2>2. q \in ThreadState
    <3>1. r \in ThreadState
      BY Before
    <3> QED BY <1>2, <2>1, <3>1, Zenon DEF ThreadState
  <2>3. Keeps(q, r, {"pc", "data"}) /\ q.pc = next /\ q.data = data
    BY Before DEF ThreadState, Keeps, Field
  <2> QED BY <2>2, <2>3
<1> HIDE DEF q
<1>4. Owned(q, oomHook)
  BY <1>1, <1>3, Before DEF Keeps, Field, Owned, next
<1>5. DataKnown(q)
  BY <1>1, <1>3, Before DEF Keeps, Field, DataKnown, next, data
<1>6. NothingYet(q)
  BY <1>1, <1>2, <1>3, Before DEF Keeps, Field, NothingYet
<1>7. Delivered(q)
  <2>1. r.saved = <<>>
    BY <1>1, Before DEF NothingYet
  <2>2. q.pc = "collect" => ~(q.operation = "save" /\ ~HasFatal(q.reported))
    BY <1>3 DEF Keeps, Field, next
  <2> QED BY <1>2, <1>3, <2>1, <2>2, Before DEF Keeps, Field, Delivered
<1>8. Reported(q)
  BY <1>2, <1>3, Before DEF Keeps, Field, Reported
<1>9. Streams(q, stream, saver)
  BY <1>1, <1>2, <1>3, Before DEF Keeps, Field, Streams
<1> QED BY <1>1, <1>3, <1>4, <1>5, <1>6, <1>7, <1>8, <1>9, Before DEF StepOf, Local, ParseReturns

LEMMA OpenSaveStreamStep ==
  ASSUME ResultInv, NEW t \in Thread, OpenSaveStream(t)
  PROVE  StepOf(t) /\ InBackend(t)'
<1> DEFINE r == th[t]
           q == [r EXCEPT !.pc = "save"]
<1>1. r.pc = "open save" /\ saver = NoSaver
  BY DEF OpenSaveStream, ResultInv, BackendInv, InOrder
<1>2. ~saver.capturing /\ saver' = [paths |-> <<>>, contents |-> <<>>, capturing |-> TRUE]
  BY <1>1 DEF NoSaver, OpenSaveStream
<1>3. th' = [th EXCEPT ![t] = q] /\ th'[t] = q
  BY <1>2 DEF OpenSaveStream, ResultInv, TypeOK
<1>4. q \in ThreadState /\ Keeps(q, r, {"pc"}) /\ q.pc = "save"
  BY Before DEF ThreadState, Keeps, Field
<1> HIDE DEF q
<1>5. Owned(q, oomHook)
  BY <1>1, <1>4, Before DEF Keeps, Field, Owned
<1>6. DataKnown(q) /\ NothingYet(q)
  BY <1>1, <1>4, Before DEF Keeps, Field, DataKnown, NothingYet
<1>7. Delivered(q) /\ Reported(q)
  BY <1>1, <1>4, Before DEF Keeps, Field, Delivered, Reported
<1>8. Streams(q, stream, saver')
  <2>1. q.produced = 0
    BY <1>1, <1>4, Before DEF Keeps, Field, NothingYet
  <2>2. Count(0) = <<>>
    BY DEF Count
  <2>3. saver'.contents = Count(q.produced) /\ saver'.paths = Count(q.produced)
    BY <1>2, <2>1, <2>2
  <2>4. stream.hook /\ stream.messages = q.reported
    BY <1>1, <1>4, Before DEF Keeps, Field, Streams
  <2> QED BY <2>3, <2>4 DEF Streams
<1>9. saver' \in SaverState
  BY <1>2 DEF SaverState
<1> QED BY <1>3, <1>4, <1>5, <1>6, <1>7, <1>8, <1>9, Before DEF StepOf, Local, InBackend, OpenSaveStream

(* What SgfcSaveStream counts.                                             *)
LEMMA CountAppend ==
  ASSUME NEW n \in Nat
  PROVE  /\ Count(n) \in Seq(Nat) /\ Len(Count(n)) = n
         /\ Append(Count(n), n + 1) = Count(n + 1)
<1>1. Count(n) \in Seq(Nat) /\ Len(Count(n)) = n
  BY DEF Count
<1>2. Count(n + 1) \in Seq(Nat) /\ Len(Count(n + 1)) = n + 1
  BY DEF Count
<1>3. Append(Count(n), n + 1) = Count(n + 1)
  <2> DEFINE longer == Append(Count(n), n + 1)
  <2>1. /\ longer \in Seq(Nat) /\ Len(longer) = n + 1 /\ longer[n + 1] = n + 1
        /\ \A i \in 1..n : longer[i] = Count(n)[i]
    BY <1>1
  <2>2. \A i \in 1..n : Count(n)[i] = i
    BY DEF Count
  <2>3. \A i \in 1..n + 1 : Count(n + 1)[i] = i
    BY DEF Count
  <2> HIDE DEF longer
  <2>4. \A i \in 1..n + 1 : longer[i] = Count(n + 1)[i]
    BY <2>1, <2>2, <2>3
  <2>5. longer = Count(n + 1)
    BY <1>2, <2>1, <2>4, SeqEqual
  <2> QED BY <2>5 DEF longer
<1> QED BY <1>1, <1>3

LEMMA OpenFileStep ==
  ASSUME ResultInv, NEW t \in Thread, OpenFile(t)
  PROVE  StepOf(t)
<1> DEFINE r == th[t]
           n == r.produced
<1>1. r.pc = "save" /\ n \in Nat
  BY Before DEF OpenFile, ThreadState
<1>2. saver.contents = Count(n) /\ saver.paths \in {Count(n), Count(n + 1)}
  BY <1>1, Before DEF Streams
<1>3. Len(saver.paths) = Len(saver.contents) /\ Len(Count(n)) = n /\ Len(Count(n + 1)) = n + 1
  BY <1>1, CountAppend DEF OpenFile
<1>4. saver.paths = Count(n)
  BY <1>1, <1>2, <1>3
<1>5. saver' = [saver EXCEPT !.paths = Count(n + 1)]
  BY <1>1, <1>3, <1>4, <1>2, CountAppend DEF OpenFile
<1>6. saver' \in SaverState /\ saver'.contents = Count(n) /\ saver'.paths = Count(n + 1)
  BY <1>1, <1>2, <1>5, Before, CountAppend DEF SaverState
<1>7. Streams(r, stream, saver')
  BY <1>1, <1>6, Before DEF Streams
<1> QED BY <1>6, <1>7, Before DEF StepOf, Local, OpenFile, ResultInv, TypeOK

LEMMA CloseFileStep ==
  ASSUME ResultInv, NEW t \in Thread, CloseFile(t)
  PROVE  StepOf(t)
<1> DEFINE r == th[t]
           n == r.produced
           q == [r EXCEPT !.produced = n + 1]
<1>1. r.pc = "save" /\ n \in Nat /\ th' = [th EXCEPT ![t] = q] /\ th'[t] = q
  BY Before DEF CloseFile, ThreadState, ResultInv, TypeOK
<1>2. q \in ThreadState /\ Keeps(q, r, {"produced"}) /\ q.produced = n + 1
  <2> DEFINE more == n + 1
  <2>1. more \in Nat
    BY <1>1
  <2> HIDE DEF more
  <2>2. [r EXCEPT !.produced = more] \in ThreadState
    BY <2>1, Before DEF ThreadState
  <2>3. Keeps([r EXCEPT !.produced = more], r, {"produced"})
    BY Before DEF ThreadState, Keeps, Field
  <2>4. [r EXCEPT !.produced = more].produced = more
    BY Before DEF ThreadState
  <2> QED BY <2>2, <2>3, <2>4 DEF more
<1>3. saver.contents = Count(n) /\ saver.paths \in {Count(n), Count(n + 1)}
  BY <1>1, Before DEF Streams
<1>4. Len(saver.paths) > Len(saver.contents) /\ Len(Count(n)) = n /\ Len(Count(n + 1)) = n + 1
  BY <1>1, CountAppend DEF CloseFile
<1>5. saver.paths = Count(n + 1) /\ Len(saver.paths) = n + 1
  BY <1>1, <1>3, <1>4
<1>6. saver' = [saver EXCEPT !.contents = Count(n + 1)]
  BY <1>1, <1>3, <1>5, CountAppend DEF CloseFile
<1>7. saver' \in SaverState /\ saver'.contents = Count(n + 1) /\ saver'.paths = Count(n + 1)
  BY <1>1, <1>5, <1>6, Before, CountAppend DEF SaverState
<1> HIDE DEF q
<1>8. Streams(q, stream, saver')
  BY <1>1, <1>2, <1>7, Before DEF Keeps, Field, Streams
<1>9. Owned(q, oomHook) /\ DataKnown(q)
  BY <1>1, <1>2, Before DEF Keeps, Field, Owned, DataKnown
<1>10. NothingYet(q)
  BY <1>1, <1>2, Before DEF Keeps, Field, NothingYet
<1>11. Delivered(q) /\ Reported(q)
  BY <1>1, <1>2, Before DEF Keeps, Field, Delivered, Reported
<1> QED BY <1>1, <1>2, <1>7, <1>8, <1>9, <1>10, <1>11, Before DEF StepOf, Local, CloseFile

(* The paths and the contents are paired as SGFC produced them.            *)
LEMMA SavedContents ==
  ASSUME ResultInv, NEW t \in Thread, th[t].pc = "save", Len(saver.paths) = Len(saver.contents)
  PROVE  /\ GetSgfContents \in Seq([path : Nat, content : Nat])
         /\ Len(GetSgfContents) = th[t].produced
         /\ \A i \in 1..Len(GetSgfContents) :
              GetSgfContents[i].path = i /\ GetSgfContents[i].content = i
<1> DEFINE n == th[t].produced
           pairs == [i \in 1..n |-> [path |-> i, content |-> i]]
<1>1. n \in Nat
  BY Before DEF ThreadState
<1>2. saver.contents = Count(n) /\ saver.paths \in {Count(n), Count(n + 1)}
  BY Before DEF Streams
<1>3. saver.paths = Count(n)
  <2> HIDE DEF n
  <2>1. n + 1 \in Nat /\ n + 1 # n
    BY <1>1
  <2>2. Len(Count(n)) = n
    BY <1>1, CountAppend
  <2>3. Len(Count(n + 1)) = n + 1
    BY <2>1, CountAppend
  <2> QED BY <1>2, <2>1, <2>2, <2>3
<1>4. GetSgfContents = pairs
  BY <1>2, <1>3 DEF GetSgfContents, Count
<1>5. pairs \in Seq([path : Nat, content : Nat]) /\ Len(pairs) = n
  <2> DEFINE Pair == [path : Nat, content : Nat]
  <2>1. pairs \in [1..n -> Pair]
    OBVIOUS
  <2> HIDE DEF Pair, pairs
  <2>2. pairs \in Seq(Pair)
    BY <1>1, <2>1
  <2>3. Len(pairs) = n
    BY <1>1, <2>1, <2>2
  <2> QED BY <2>2, <2>3 DEF Pair
<1>6. \A i \in 1..n : pairs[i].path = i /\ pairs[i].content = i
  OBVIOUS
<1> QED BY <1>4, <1>5, <1>6

LEMMA SaveReturnsStep ==
  ASSUME ResultInv, NEW t \in Thread, SaveReturns(t)
  PROVE  StepOf(t)
<1> DEFINE r == th[t]
           saved == IF HasFatal(r.reported) THEN <<>> ELSE GetSgfContents
           q == [r EXCEPT !.pc = "collect", !.saved = saved]
<1>1. /\ r.pc = "save" /\ (HasFatal(r.reported) \/ Len(saver.paths) = Len(saver.contents))
      /\ th' = [th EXCEPT ![t].pc = "collect", ![t].saved = saved] /\ saver' = NoSaver
  BY DEF SaveReturns
<1>2. /\ saved \in Seq([path : Nat, content : Nat])
      /\ HasFatal(r.reported) => saved = <<>>
      /\ ~HasFatal(r.reported) => Len(saved) = r.produced
      /\ \A i \in 1..Len(saved) : saved[i].path = i /\ saved[i].content = i
  BY <1>1, SavedContents
<1> HIDE DEF saved
<1>3. th' = [th EXCEPT ![t] = q] /\ th'[t] = q
  BY <1>1 DEF ResultInv, TypeOK
<1>4. q \in ThreadState /\ Keeps(q, r, {"pc", "saved"}) /\ q.pc = "collect" /\ q.saved = saved
  <2>1. q \in ThreadState
    <3>1. r \in ThreadState
      BY Before
    <3> QED BY <1>2, <3>1, Zenon DEF ThreadState
  <2>2. Keeps(q, r, {"pc", "saved"}) /\ q.pc = "collect" /\ q.saved = saved
    BY Before DEF ThreadState, Keeps, Field
  <2> QED BY <2>1, <2>2
<1> HIDE DEF q
<1>5. Owned(q, oomHook)
  BY <1>1, <1>4, Before DEF Keeps, Field, Owned
<1>6. DataKnown(q)
  BY <1>1, <1>4, Before DEF Keeps, Field, DataKnown
<1>7. NothingYet(q) /\ Reported(q)
  BY <1>4, Before DEF Keeps, Field, NothingYet, Reported
<1>8. Delivered(q)
  <2>1. /\ q.reported = r.reported /\ q.produced = r.produced
    BY <1>1, <1>4, Before DEF Keeps, Field, NothingYet
  <2>2. DOMAIN q.saved = 1..Len(q.saved)
    BY <1>2, <1>4
  <2> QED BY <1>2, <1>4, <2>1, <2>2 DEF Delivered
<1>9. Streams(q, stream, saver')
  BY <1>1, <1>4, Before DEF Keeps, Field, Streams
<1>10. saver' \in SaverState
  BY <1>1 DEF NoSaver, SaverState
<1> QED BY <1>1, <1>3, <1>4, <1>5, <1>6, <1>7, <1>8, <1>9, <1>10, Before DEF StepOf, Local, SaveReturns

LEMMA CollectStep ==
  ASSUME ResultInv, NEW t \in Thread, Collect(t)
  PROVE  StepOf(t)
<1> DEFINE r == th[t]
           ms == r.reported
           next == IF r.operation = "save" THEN "write" ELSE "close"
           result == IF r.operation = "parse" THEN InvalidCommandLineReason(ms) ELSE ms
           valid == IF r.operation = "parse" THEN ~HasFatal(ms) ELSE r.valid
           content == IF r.operation = "load" THEN ~HasFatal(ms) ELSE r.content
           q == [r EXCEPT !.pc = next, !.result = result, !.valid = valid,
                          !.content = content, !.target = <<>>]
<1>1. r.pc = "collect" /\ stream.messages = ms
  BY Before DEF Collect, Streams
<1>2. th' = [th EXCEPT ![t].pc = next, ![t].result = result, ![t].valid = valid,
                       ![t].content = content, ![t].target = <<>>]
  BY <1>1 DEF Collect
<1>3. ms \in Seq(Message) /\ result \in Seq(Message) /\ <<>> \in Seq(Nat)
  <2>1. ms \in Seq(Message)
    BY Before DEF ThreadState
  <2> QED BY <2>1, ReasonType
<1>4. next \in {"write", "close"} /\ valid \in BOOLEAN /\ content \in BOOLEAN
  <2>1. r.valid \in BOOLEAN /\ r.content \in BOOLEAN
    BY Before DEF ThreadState
  <2> QED BY <2>1 DEF HasFatal
<1> HIDE DEF next, result, valid, content
<1>5. th' = [th EXCEPT ![t] = q] /\ th'[t] = q
  BY <1>2 DEF ResultInv, TypeOK
<1>6. q \in ThreadState
  <2>1. r \in ThreadState
    BY Before
  <2> QED BY <1>3, <1>4, <2>1, Zenon DEF ThreadState
<1>7. Keeps(q, r, {"pc", "result", "valid", "content", "target"})
  BY Before DEF ThreadState, Keeps, Field
<1>8. q.pc = next /\ q.result = result /\ q.content = content /\ q.target = <<>>
  BY Before DEF ThreadState
<1> HIDE DEF q
<1>9. /\ q.frontend = r.frontend /\ q.operation = r.operation /\ q.data = r.data
      /\ q.reported = ms /\ q.saved = r.saved /\ q.produced = r.produced
  BY <1>7 DEF Keeps, Field
<1>10. Owned(q, oomHook)
  BY <1>1, <1>4, <1>8, <1>9, Before DEF Owned, next
<1>11. DataKnown(q)
  BY <1>1, <1>4, <1>8, <1>9, Before DEF DataKnown, Owned, content
<1>12. NothingYet(q) /\ Streams(q, stream, saver)
  BY <1>4, <1>8 DEF NothingYet, Streams
<1>13. Delivered(q)
  <2>1. /\ \A i \in DOMAIN q.saved : q.saved[i].path = q.saved[i].content
        /\ q.pc # "collect"
        /\ q.pc = "write" <=> q.operation = "save"
        /\ q.pc = "write" => q.result = ms
    BY <1>4, <1>8, <1>9, Before DEF Delivered, next, result
  <2>2. HasFatal(ms) => q.saved = <<>>
    BY <1>1, <1>9, Before DEF Delivered
  <2>3. ASSUME q.pc = "write", ~HasFatal(ms) PROVE Complete(q)
    <3>1. /\ Len(q.saved) = q.produced
          /\ \A i \in 1..Len(q.saved) : q.saved[i].content = i
      BY <1>1, <1>9, <2>1, <2>3, Before DEF Delivered
    <3>2. Len(q.saved) \in Nat /\ Len(q.target) = 0
      <4>1. q.saved \in Seq([path : Nat, content : Nat])
        BY <1>6 DEF ThreadState
      <4> QED BY <1>8, <4>1, LenProperties, EmptySeq
    <3> QED BY <3>1, <3>2 DEF Complete
  <2> QED BY <1>4, <1>8, <1>9, <2>1, <2>2, <2>3 DEF Delivered
<1>14. Reported(q)
  <2>1. ReportsExactly(ms, ms)
    BY <1>3, ReportsItself
  <2>2. ~OutOfMemoryIn(ms)
    BY Before DEF Reported
  <2>3. /\ q.pc \in {"write", "close"}
        /\ q.operation = "parse" => q.result = InvalidCommandLineReason(ms)
        /\ q.operation # "parse" => q.result = ms
        /\ q.pc = "write" => q.operation = "save"
    <3>1. /\ r.operation = "save" => q.pc = "write"
          /\ r.operation # "save" => q.pc = "close"
      BY <1>8, Zenon DEF next
    <3>2. /\ r.operation = "parse" => q.result = InvalidCommandLineReason(ms)
          /\ r.operation # "parse" => q.result = ms
      BY <1>8, Zenon DEF result
    <3>3. q.operation = r.operation
      BY <1>9
    <3> QED BY <3>1, <3>2, <3>3, Zenon
  <2>4. q.pc \in {"close", "write"} /\ q.reported = ms
    BY <1>9, <2>3
  <2> QED BY <2>1, <2>2, <2>3, <2>4 DEF Reported
<1> QED BY <1>5, <1>6, <1>10, <1>11, <1>12, <1>13, <1>14, Before DEF StepOf, Local, Collect

LEMMA CloseMessageStreamStep ==
  ASSUME ResultInv, NEW t \in Thread, CloseMessageStream(t)
  PROVE  StepOf(t)
<1> DEFINE r == th[t]
           q == [r EXCEPT !.pc = "unlock"]
<1>1. r.pc = "close" /\ th' = [th EXCEPT ![t] = q] /\ th'[t] = q /\ stream' = NoStream
  BY DEF CloseMessageStream, ResultInv, TypeOK
<1>2. q \in ThreadState /\ Keeps(q, r, {"pc"}) /\ q.pc = "unlock"
  BY Before DEF ThreadState, Keeps, Field
<1> HIDE DEF q
<1>3. Owned(q, oomHook)
  BY <1>1, <1>2, Before DEF Keeps, Field, Owned
<1>4. DataKnown(q) /\ NothingYet(q)
  BY <1>1, <1>2, Before DEF Keeps, Field, DataKnown, NothingYet
<1>5. Delivered(q)
  BY <1>1, <1>2, Before DEF Keeps, Field, Delivered
<1>6. Reported(q)
  BY <1>1, <1>2, Before DEF Keeps, Field, Reported
<1>7. Streams(q, stream', saver) /\ stream' \in StreamState
  BY <1>1, <1>2 DEF Streams, NoStream, StreamState
<1> QED BY <1>1, <1>2, <1>3, <1>4, <1>5, <1>6, <1>7, Before DEF StepOf, Local, CloseMessageStream

LEMMA UnlockStep ==
  ASSUME ResultInv, NEW t \in Thread, Unlock(t)
  PROVE  StepOf(t)
<1> DEFINE r == th[t]
           q == [r EXCEPT !.pc = "idle"]
<1>1. r.pc = "unlock" /\ th' = [th EXCEPT ![t] = q] /\ th'[t] = q
  BY DEF Unlock, ResultInv, TypeOK
<1>2. q \in ThreadState /\ Keeps(q, r, {"pc"}) /\ q.pc = "idle"
  BY Before DEF ThreadState, Keeps, Field
<1> HIDE DEF q
<1>3. Owned(q, oomHook)
  BY <1>1, <1>2, Before DEF Keeps, Field, Owned
<1>4. DataKnown(q) /\ NothingYet(q)
  BY <1>1, <1>2, Before DEF Keeps, Field, DataKnown, NothingYet
<1>5. Delivered(q)
  BY <1>1, <1>2, Before DEF Keeps, Field, Delivered
<1>6. Reported(q)
  BY <1>1, <1>2, Before DEF Keeps, Field, Reported
<1>7. Streams(q, stream, saver)
  BY <1>2 DEF Streams
<1> QED BY <1>1, <1>2, <1>3, <1>4, <1>5, <1>6, <1>7, Before DEF StepOf, Local, Unlock

(* Running out of memory always finds the hook installed.                  *)
LEMMA OutOfMemoryStep ==
  ASSUME ResultInv, NEW t \in Thread, OutOfMemory(t)
  PROVE  StepOf(t) /\ InBackend(t)' /\ oomHook
<1> DEFINE r == th[t]
           next == IF r.operation = "load" THEN "unlock" ELSE "close"
           m == [by |-> t, kind |-> "out of memory"]
           result == <<m>>
           data == IF r.operation = "load" THEN "none" ELSE r.data
           content == IF r.operation = "load" THEN FALSE ELSE r.content
           q == [r EXCEPT !.pc = next, !.result = result, !.data = data, !.content = content]
<1>1. r.pc \in {"new data", "sgfc", "save"}
  BY DEF OutOfMemory
<1>2. oomHook
  BY <1>1, Before DEF Owned
<1>3. /\ th' = [th EXCEPT ![t].pc = next, ![t].result = result, ![t].data = data,
                          ![t].content = content]
      /\ saver' = NoSaver /\ stream' \in {NoStream, stream}
      /\ UNCHANGED <<exited, mutex, oomHook>>
  BY <1>2 DEF OutOfMemory
<1>4. m \in Message /\ m.kind = "out of memory"
  BY DEF Message, Kind
<1> HIDE DEF m
<1>5. result \in Seq(Message) /\ HasFatal(result) /\ OutOfMemoryIn(result)
  <2>1. result \in Seq(Message) /\ 1 \in DOMAIN result /\ result[1] = m
    BY <1>4, SingletonFacts
  <2> QED BY <1>4, <2>1 DEF HasFatal, OutOfMemoryIn
<1>6. /\ next \in {"unlock", "close"} /\ content \in BOOLEAN
      /\ data \in {"none", "NotLoaded", "PartiallyLoaded", "FullyLoaded"}
  BY Before DEF ThreadState
<1> HIDE DEF next, result, data, content
<1>7. th' = [th EXCEPT ![t] = q] /\ th'[t] = q
  BY <1>3 DEF ResultInv, TypeOK
<1>8. q \in ThreadState
  <2>1. r \in ThreadState
    BY Before
  <2> QED BY <1>5, <1>6, <2>1, Zenon DEF ThreadState
<1>9. Keeps(q, r, {"pc", "result", "data", "content"})
  BY Before DEF ThreadState, Keeps, Field
<1>10. q.pc = next /\ q.result = result /\ q.data = data /\ q.content = content
  BY Before DEF ThreadState
<1> HIDE DEF q
<1>11. /\ q.frontend = r.frontend /\ q.operation = r.operation /\ q.reported = r.reported
       /\ q.saved = r.saved /\ q.target = r.target /\ q.produced = r.produced
       /\ q.location = r.location
  BY <1>9 DEF Keeps, Field
<1>12. Owned(q, oomHook)
  BY <1>1, <1>2, <1>6, <1>10, <1>11, Before DEF Owned
<1>13. DataKnown(q)
  BY <1>1, <1>6, <1>10, <1>11, Before DEF DataKnown, data, content
<1>14. NothingYet(q) /\ Reported(q)
  BY <1>5, <1>6, <1>10, <1>11, Before DEF NothingYet, Reported
<1>15. Delivered(q)
  <2>1. r.target = Untouched(r.frontend, r.location)
    BY <1>1, Before DEF NothingYet
  <2> QED BY <1>5, <1>6, <1>10, <1>11, <2>1, Before DEF Delivered
<1>16. Streams(q, stream', saver')
  BY <1>6, <1>10 DEF Streams
<1>17. stream' \in StreamState /\ saver' \in SaverState
  <2>1. NoStream \in StreamState /\ NoSaver \in SaverState
    BY DEF NoStream, StreamState, NoSaver, SaverState
  <2> QED BY <1>3, <2>1, Before
<1> QED BY <1>2, <1>3, <1>6, <1>7, <1>8, <1>10, <1>12, <1>13, <1>14, <1>15, <1>16, <1>17, Before
        DEF StepOf, Local, InBackend

LEMMA Bounded ==
  ASSUME NEW m \in Nat, NEW n \in Nat, NEW i \in 1..m, i <= n
  PROVE  i \in 1..n
OBVIOUS

(* Neither SGFC's messages nor failures to write are about memory.         *)
LEMMA NotOutOfMemory ==
  ASSUME NEW ms \in Seq(Message), NEW reported \in Seq(Message), ReportsExactly(ms, reported),
         ~OutOfMemoryIn(reported)
  PROVE  ~OutOfMemoryIn(ms)
<1> SUFFICES ASSUME NEW i \in DOMAIN ms, ms[i].kind = "out of memory" PROVE FALSE
  BY DEF OutOfMemoryIn
<1>1. /\ DOMAIN ms = 1..Len(ms) /\ Len(ms) \in Nat
      /\ DOMAIN reported = 1..Len(reported) /\ Len(reported) \in Nat
  BY LenProperties
<1>2. IF i <= Len(reported) THEN ms[i] = reported[i] ELSE ms[i].kind = "write failed"
  BY DEF ReportsExactly
<1>3. i <= Len(reported) /\ ms[i] = reported[i]
  BY <1>2
<1>4. i \in DOMAIN reported
  BY <1>1, <1>3, Bounded, Zenon
<1> QED BY <1>3, <1>4, Zenon DEF OutOfMemoryIn

(* What Complete says when nothing is left to write.                       *)
LEMMA CompleteDelivered ==
  ASSUME NEW r \in ThreadState, Complete(r), r.saved = <<>>
  PROVE  r.target = Count(r.produced)
<1>1. r.target \in Seq(Nat) /\ r.produced \in Nat
  BY DEF ThreadState
<1>2. Len(r.target) = r.produced /\ \A i \in 1..Len(r.target) : r.target[i] = i
  <2>1. Len(r.saved) = 0 /\ Len(r.target) \in Nat
    BY <1>1, EmptySeq, LenProperties
  <2> QED BY <1>1, <2>1 DEF Complete
<1>3. Count(r.produced) \in Seq(Nat) /\ Len(Count(r.produced)) = r.produced
  BY <1>1, CountAppend
<1>4. \A i \in 1..Len(r.target) : r.target[i] = Count(r.produced)[i]
  BY <1>2 DEF Count
<1> QED BY <1>1, <1>2, <1>3, <1>4, SeqEqual

LEMMA ContentsWrittenStep ==
  ASSUME ResultInv, NEW t \in Thread, ContentsWritten(t)
  PROVE  StepOf(t)
<1> DEFINE r == th[t]
           q == [r EXCEPT !.pc = "close"]
<1>1. r.pc = "write" /\ r.saved = <<>> /\ th' = [th EXCEPT ![t] = q] /\ th'[t] = q
  BY DEF ContentsWritten, ResultInv, TypeOK
<1>2. q \in ThreadState /\ Keeps(q, r, {"pc"}) /\ q.pc = "close"
  BY Before DEF ThreadState, Keeps, Field
<1> HIDE DEF q
<1>3. Owned(q, oomHook)
  BY <1>1, <1>2, Before DEF Keeps, Field, Owned
<1>4. DataKnown(q)
  BY <1>1, <1>2, Before DEF Keeps, Field, DataKnown, Owned
<1>5. NothingYet(q) /\ Streams(q, stream, saver)
  BY <1>2 DEF NothingYet, Streams
<1>6. Delivered(q)
  <2>1. /\ HasFatal(r.reported) => r.target = <<>>
        /\ ~HasFatal(r.result) => r.target = Count(r.produced)
    BY <1>1, Before, CompleteDelivered DEF Delivered
  <2>2. ~OutOfMemoryIn(r.result)
    <3>1. r.result \in Seq(Message) /\ r.reported \in Seq(Message)
      BY Before DEF ThreadState
    <3>2. ReportsExactly(r.result, r.reported) /\ ~OutOfMemoryIn(r.reported)
      BY <1>1, Before DEF Reported
    <3> QED BY <3>1, <3>2, NotOutOfMemory
  <2> QED BY <1>1, <1>2, <2>1, <2>2, Before DEF Keeps, Field, Delivered
<1>7. Reported(q)
  <2>1. ReportsExactly(r.result, r.reported) /\ r.operation = "save" /\ ~OutOfMemoryIn(r.reported)
    BY <1>1, Before DEF Reported, Owned
  <2>2. q.result = r.result /\ q.reported = r.reported /\ q.operation = r.operation
    BY <1>2 DEF Keeps, Field
  <2> QED BY <1>2, <2>1, <2>2 DEF Reported
<1> QED BY <1>1, <1>2, <1>3, <1>4, <1>5, <1>6, <1>7, Before DEF StepOf, Local, ContentsWritten

(* One content more is delivered.                                          *)
LEMMA CompleteNext ==
  ASSUME NEW r \in ThreadState, NEW q \in ThreadState, Complete(r), r.saved # <<>>,
         q.saved = Tail(r.saved), q.target = Append(r.target, Head(r.saved).content),
         q.produced = r.produced
  PROVE  Complete(q)
<1> DEFINE Pair == [path : Nat, content : Nat]
           m == Len(r.target)
           n == Len(r.saved)
<1>1. r.saved \in Seq(Pair) /\ r.target \in Seq(Nat)
  BY DEF ThreadState
<1>2. /\ m \in Nat /\ n \in Nat \ {0} /\ Len(q.saved) = n - 1 /\ Head(r.saved) = r.saved[1]
      /\ \A i \in 1..n - 1 : q.saved[i] = r.saved[i + 1]
  <2> HIDE DEF Pair
  <2> QED BY <1>1, HeadTailProperties, LenProperties, EmptySeq
<1>3. /\ m + n = r.produced
      /\ \A i \in 1..m : r.target[i] = i
      /\ \A i \in 1..n : r.saved[i].content = m + i
  BY DEF Complete
<1>4. Head(r.saved).content = m + 1
  BY <1>2, <1>3
<1>5. Len(q.target) = m + 1 /\ \A i \in 1..m + 1 : q.target[i] = i
  BY <1>1, <1>2, <1>3, <1>4
<1> HIDE DEF m, n
<1>6. \A i \in 1..n - 1 : q.saved[i].content = (m + 1) + i
  <2> SUFFICES ASSUME NEW i \in 1..n - 1 PROVE q.saved[i].content = (m + 1) + i
    OBVIOUS
  <2>1. i + 1 \in 1..n /\ q.saved[i] = r.saved[i + 1]
    BY <1>2
  <2>2. r.saved[i + 1].content = m + (i + 1)
    BY <1>3, <2>1
  <2>3. m + (i + 1) = (m + 1) + i
    BY <1>2
  <2> QED BY <2>1, <2>2, <2>3
<1>7. (m + 1) + (n - 1) = q.produced
  BY <1>2, <1>3
<1> QED BY <1>2, <1>5, <1>6, <1>7 DEF Complete

WriteFailed == {m \in Message : m.kind = "write failed"}

(* A failure to write is reported after SGFC's messages.                   *)
LEMMA ReportsExactlyAppend ==
  ASSUME NEW ms \in Seq(Message), NEW reported \in Seq(Message), ReportsExactly(ms, reported),
         NEW m \in WriteFailed
  PROVE  ReportsExactly(Append(ms, m), reported)
<1> DEFINE longer == Append(ms, m)
           n == Len(ms)
           k == Len(reported)
<1>0. m \in Message
  BY DEF WriteFailed
<1>1. /\ DOMAIN longer = 1..n + 1 /\ longer[n + 1] = m
      /\ \A i \in 1..n : longer[i] = ms[i]
  BY <1>0, AppendFacts
<1>2. Len(longer) = n + 1 /\ n \in Nat /\ k \in Nat /\ DOMAIN ms = 1..n
  BY <1>0, AppendFacts, LenProperties
<1>3. k <= n
  BY DEF ReportsExactly
<1>4. \A i \in 1..n : IF i <= k THEN ms[i] = reported[i] ELSE ms[i].kind = "write failed"
  BY <1>2 DEF ReportsExactly
<1> HIDE DEF n, k, longer
<1>5. k <= n + 1 /\ ~(n + 1 <= k)
  BY <1>2, <1>3
<1>6. ASSUME NEW i \in 1..n + 1
      PROVE  IF i <= k THEN longer[i] = reported[i] ELSE longer[i].kind = "write failed"
  <2>1. CASE i \in 1..n
    BY <1>1, <1>4, <2>1
  <2>2. CASE i = n + 1
    BY <1>1, <1>5, <2>2 DEF WriteFailed
  <2>3. i \in 1..n \/ i = n + 1
    BY <1>2
  <2> QED BY <2>1, <2>2, <2>3
<1>7. Len(reported) <= Len(longer)
  BY <1>2, <1>5 DEF k
<1> QED BY <1>1, <1>6, <1>7 DEF ReportsExactly, longer, k

LEMMA WriteContentStep ==
  ASSUME ResultInv, NEW t \in Thread, NEW success \in BOOLEAN, WriteContent(t, success)
  PROVE  StepOf(t)
<1> DEFINE r == th[t]
           m == [by |-> t, kind |-> "write failed"]
           saved == Tail(r.saved)
           target == IF success THEN Append(r.target, Head(r.saved).content) ELSE r.target
           result == IF success THEN r.result ELSE Append(r.result, m)
           q == [r EXCEPT !.saved = saved, !.target = target, !.result = result]
<1>1. r.pc = "write" /\ r.saved # <<>>
  BY DEF WriteContent
<1>2. th' = [th EXCEPT ![t].saved = saved, ![t].target = target, ![t].result = result]
  BY DEF WriteContent
<1>3. /\ r.saved \in Seq([path : Nat, content : Nat]) /\ r.target \in Seq(Nat)
      /\ r.result \in Seq(Message) /\ r.reported \in Seq(Message)
  BY Before DEF ThreadState
<1>4. m \in Message /\ m.kind = "write failed"
  BY DEF Message, Kind
<1>5. /\ saved \in Seq([path : Nat, content : Nat]) /\ Head(r.saved) \in [path : Nat, content : Nat]
      /\ Len(saved) = Len(r.saved) - 1 /\ \A i \in 1..Len(saved) : saved[i] = r.saved[i + 1]
  <2> DEFINE Pair == [path : Nat, content : Nat]
  <2>1. r.saved \in Seq(Pair)
    BY <1>3
  <2> HIDE DEF Pair
  <2>2. /\ saved \in Seq(Pair) /\ Head(r.saved) \in Pair
        /\ Len(saved) = Len(r.saved) - 1 /\ \A i \in 1..Len(saved) : saved[i] = r.saved[i + 1]
    BY <1>1, <2>1, HeadTailProperties
  <2> QED BY <2>2 DEF Pair
<1> HIDE DEF m
<1>6. target \in Seq(Nat) /\ result \in Seq(Message)
  <2>1. Head(r.saved).content \in Nat
    BY <1>5
  <2> QED BY <1>3, <1>4, <2>1, AppendFacts
<1>7. ReportsExactly(result, r.reported)
  <2>1. m \in WriteFailed
    BY <1>4 DEF WriteFailed
  <2> QED BY <1>1, <1>3, <2>1, ReportsExactlyAppend, Before DEF Reported
<1>8. success \/ HasFatal(result)
  BY <1>3, <1>4, HasFatalAppend
<1> HIDE DEF saved, target, result
<1>9. th' = [th EXCEPT ![t] = q] /\ th'[t] = q
  BY <1>2 DEF ResultInv, TypeOK
<1>10. q \in ThreadState
  <2>1. r \in ThreadState
    BY Before
  <2> QED BY <1>5, <1>6, <2>1, Zenon DEF ThreadState
<1>11. Keeps(q, r, {"saved", "target", "result"})
  BY Before DEF ThreadState, Keeps, Field
<1>12. q.saved = saved /\ q.target = target /\ q.result = result
  BY Before DEF ThreadState
<1> HIDE DEF q
<1>13. /\ q.pc = "write" /\ q.frontend = r.frontend /\ q.operation = r.operation
       /\ q.data = r.data /\ q.content = r.content /\ q.reported = r.reported
       /\ q.produced = r.produced
  BY <1>1, <1>11 DEF Keeps, Field
<1>14. Owned(q, oomHook) /\ DataKnown(q)
  BY <1>1, <1>13, Before DEF Owned, DataKnown
<1>15. NothingYet(q) /\ Streams(q, stream, saver) /\ Reported(q)
  BY <1>7, <1>12, <1>13, Before DEF NothingYet, Streams, Reported
<1>16. Delivered(q)
  <2>1. \A i \in DOMAIN q.saved : q.saved[i].path = q.saved[i].content
    <3>2. DOMAIN saved = 1..Len(saved)
      BY <1>5
    <3> SUFFICES ASSUME NEW i \in 1..Len(saved) PROVE saved[i].path = saved[i].content
      BY <1>12, <3>2
    <3>1. i + 1 \in DOMAIN r.saved
      BY <1>3, <1>5
    <3>3. r.saved[i + 1].path = r.saved[i + 1].content
      BY <3>1, Before DEF Delivered
    <3> QED BY <1>5, <3>3
  <2>2. ~HasFatal(r.reported)
    BY <1>1, Before DEF Delivered
  <2>3. ASSUME ~HasFatal(q.result) PROVE Complete(q)
    <3>1. success /\ result = r.result
      BY <1>8, <1>12, <2>3 DEF result
    <3>2. Complete(r)
      BY <1>1, <1>12, <2>3, <3>1, Before DEF Delivered
    <3> QED BY <1>1, <1>10, <1>12, <1>13, <3>1, <3>2, CompleteNext, Before DEF saved, target
  <2> QED BY <1>13, <2>1, <2>2, <2>3 DEF Delivered
<1> QED BY <1>9, <1>10, <1>14, <1>15, <1>16, Before DEF StepOf, Local, WriteContent

-----------------------------------------------------------------------------
(* The inductive step.                                                     *)

LEMMA InitResult == Init => ResultInv
<1> SUFFICES ASSUME Init PROVE ResultInv
  OBVIOUS
<1>1. BackendInv
  BY InitSound
<1>2. NoFrontend \in ThreadState
  BY DEF NoFrontend, ThreadState
<1>3. TypeOK
  <2>1. NoStream \in StreamState /\ NoSaver \in SaverState
    BY DEF NoStream, StreamState, NoSaver, SaverState
  <2> QED BY <1>2, <2>1 DEF Init, TypeOK
<1>4. Local(NoFrontend, FALSE) /\ Streams(NoFrontend, stream, saver)
  BY NoFrontendSound
<1>5. \A t \in Thread : th[t] = NoFrontend
  BY DEF Init
<1> QED BY <1>1, <1>3, <1>4, <1>5 DEF Init, ResultInv

LEMMA ClientResult ==
  ASSUME ResultInv, BackendInv', NEW t \in Thread, Client(t)
  PROVE  ResultInv'
<1>1. ASSUME StepOf(t), ~InBackend(t), UNCHANGED <<stream, saver, mutex>> PROVE ResultInv'
  <2>1. mutex # t
    BY <1>1, BackendAssumption DEF ResultInv, TypeOK
  <2> QED BY <1>1, <2>1, StepKeepsInv
<1>2. th[t].pc = "idle" => ~InBackend(t)
  BY DEF InBackend
<1>3. ASSUME NEW kind \in {"command line", "reader", "writer"}, NewController(t, kind)
      PROVE  ResultInv'
  <2>1. th[t].pc = "idle"
    <3>1. th[t] = NoFrontend /\ NoFrontend.pc = "idle"
      BY <1>3 DEF NewController, NoFrontend
    <3> QED BY <3>1
  <2> QED BY <1>1, <1>2, <1>3, <2>1, NewControllerStep DEF NewController
<1>4. CASE NewControllerExits(t)
  <2>1. th[t].pc = "idle" /\ UNCHANGED <<th, stream, saver, mutex, oomHook>> /\ exited' = TRUE
    <3>1. th[t] = NoFrontend /\ NoFrontend.pc = "idle"
      BY <1>4 DEF NewControllerExits, NoFrontend
    <3> QED BY <1>4, <3>1 DEF NewControllerExits
  <2>2. StepOf(t)
    BY <2>1, Before DEF StepOf, ResultInv, TypeOK, Local
  <2> QED BY <1>1, <1>2, <2>1, <2>2
<1>5. CASE Destroy(t)
  BY <1>1, <1>2, <1>5, DestroyStep DEF Destroy
<1>6. CASE Load(t)
  BY <1>1, <1>2, <1>6, LoadStep DEF Load
<1>7. ASSUME NEW location \in {"file", "memory"}, Save(t, location) PROVE ResultInv'
  BY <1>1, <1>2, <1>7, SaveStep DEF Save
<1>8. ASSUME NEW location \in {"file", "memory"}, Write(t, location) PROVE ResultInv'
  BY <1>1, <1>2, <1>8, WriteStep DEF Write
<1> QED BY <1>3, <1>4, <1>5, <1>6, <1>7, <1>8 DEF Client

LEMMA LockResult ==
  ASSUME ResultInv, BackendInv', NEW t \in Thread, Lock(t)
  PROVE  ResultInv'
<1>1. StepOf(t) /\ mutex' = t /\ UNCHANGED <<stream, saver>>
  BY LockStep DEF Lock
<1>2. InBackend(t)'
  <2>1. th'[t].pc \in {"new data", "open"}
    BY Before DEF Lock, ResultInv, TypeOK, ThreadState
  <2> QED BY <2>1 DEF InBackend
<1> QED BY <1>1, <1>2, StepKeepsInv

(* A thread in the backend keeps the mutex, or gives it back at the end.   *)
LEMMA BackendStep ==
  ASSUME ResultInv, NEW t \in Thread, Backend(t)
  PROVE  StepOf(t) /\ InBackend(t) /\ (mutex' = t => InBackend(t)')
<1>0. HasPc
  BY DEF ResultInv, BackendInv
<1>1. ASSUME NEW state \in {"NotLoaded", "PartiallyLoaded"}, NewData(t, state)
      PROVE  StepOf(t) /\ InBackend(t) /\ (mutex' = t => InBackend(t)')
  BY <1>0, <1>1, NewDataStep DEF NewData, HasPc, InBackend
<1>2. CASE OpenMessageStream(t)
  BY <1>2, OpenMessageStreamStep DEF OpenMessageStream, InBackend
<1>3. ASSUME NEW kind \in {"warning", "fatal"}, Report(t, kind)
      PROVE  StepOf(t) /\ InBackend(t) /\ (mutex' = t => InBackend(t)')
  BY <1>0, <1>3, ReportStep DEF Report, HasPc, InBackend
<1>4. CASE ParseReturns(t)
  BY <1>0, <1>4, ParseReturnsStep DEF ParseReturns, HasPc, InBackend
<1>5. CASE OpenSaveStream(t)
  BY <1>5, OpenSaveStreamStep DEF OpenSaveStream, InBackend
<1>6. CASE OpenFile(t)
  BY <1>0, <1>6, OpenFileStep DEF OpenFile, HasPc, InBackend
<1>7. CASE CloseFile(t)
  BY <1>0, <1>7, CloseFileStep DEF CloseFile, HasPc, InBackend
<1>8. CASE SaveReturns(t)
  BY <1>0, <1>8, SaveReturnsStep DEF SaveReturns, HasPc, InBackend
<1>9. CASE Collect(t)
  BY <1>0, <1>9, CollectStep DEF Collect, HasPc, InBackend
<1>10. ASSUME NEW success \in BOOLEAN, WriteContent(t, success)
       PROVE  StepOf(t) /\ InBackend(t) /\ (mutex' = t => InBackend(t)')
  BY <1>0, <1>10, WriteContentStep DEF WriteContent, HasPc, InBackend
<1>11. CASE ContentsWritten(t)
  BY <1>0, <1>11, ContentsWrittenStep DEF ContentsWritten, HasPc, InBackend
<1>12. CASE OutOfMemory(t)
  BY <1>12, OutOfMemoryStep DEF OutOfMemory, InBackend
<1>13. CASE CloseMessageStream(t)
  BY <1>0, <1>13, CloseMessageStreamStep DEF CloseMessageStream, HasPc, InBackend
<1>14. CASE Unlock(t)
  BY <1>14, UnlockStep, BackendAssumption DEF Unlock, InBackend
<1> QED BY <1>1, <1>2, <1>3, <1>4, <1>5, <1>6, <1>7, <1>8, <1>9, <1>10, <1>11, <1>12, <1>13, <1>14
        DEF Backend

LEMMA BackendResult ==
  ASSUME ResultInv, BackendInv', NEW t \in Thread, Backend(t)
  PROVE  ResultInv'
<1> QED BY BackendStep, StepKeepsInv

LEMMA StepResult == ResultInv /\ [Next]_vars => ResultInv'
<1> SUFFICES ASSUME ResultInv, [Next]_vars PROVE ResultInv'
  OBVIOUS
<1>1. BackendInv'
  BY StepSound DEF ResultInv
<1>2. CASE UNCHANGED vars
  BY <1>1, <1>2 DEF vars, ResultInv, TypeOK, InBackend
<1>3. ASSUME NEW t \in Thread, Client(t) \/ Lock(t) \/ Backend(t) PROVE ResultInv'
  BY <1>1, <1>3, ClientResult, LockResult, BackendResult
<1> QED BY <1>2, <1>3 DEF Next, Exited

LEMMA AlwaysResult == Spec => []ResultInv
BY InitResult, StepResult, PTL DEF Spec

-----------------------------------------------------------------------------
(* The theorems.                                                           *)

(* Types; and only a thread that is inside the backend owns the mutex.     *)
THEOREM BackendTypes == Spec => []TypeOK
<1>1. ResultInv => TypeOK
  BY DEF ResultInv
<1> QED BY <1>1, AlwaysResult, PTL

(* An operation returns exactly the messages SGFC reported in it.          *)
THEOREM AlwaysOwnMessages == Spec => []OwnMessages
<1>1. ResultInv => OwnMessages
  BY Before DEF OwnMessages, Returned, RanOutOfMemory, Reported, OutOfMemoryIn
<1> QED BY <1>1, AlwaysResult, PTL

(* SaveSGF never runs on data that SGFC has not parsed without a fatal     *)
(* error.                                                                  *)
THEOREM AlwaysParsedBeforeSaved == Spec => []OnlyParsedDataSaved
<1>1. ResultInv => OnlyParsedDataSaved
  BY Before DEF OnlyParsedDataSaved, DataKnown
<1> QED BY <1>1, AlwaysResult, PTL

(* A save that reports success has delivered every file, in order.         *)
THEOREM AlwaysSuccessIsComplete == Spec => []SuccessIsComplete
<1>1. ResultInv => SuccessIsComplete
  BY Before DEF SuccessIsComplete, Returned, Delivered, Count
<1> QED BY <1>1, AlwaysResult, PTL

(* A save in which SGFC failed has delivered none of SGFC's files.  After  *)
(* a fatal error the client's string is empty; when memory ran out, be it  *)
(* after a fatal error, it is what the save found: its old content, or of  *)
(* a document writer the whole encoded document.                           *)
THEOREM AlwaysFailureDeliversNothing == Spec => []FailureDeliversNothing
<1>1. ResultInv => FailureDeliversNothing
  BY Before DEF FailureDeliversNothing, Returned, RanOutOfMemory, OutOfMemoryIn, Delivered
<1> QED BY <1>1, AlwaysResult, PTL

(* What ends the process.                                                  *)
LEMMA ExitWithoutHook ==
  ASSUME ResultInv, Next, exited', ~exited
  PROVE  ~oomHook
<1> SUFFICES ASSUME NEW t \in Thread, Client(t) \/ Lock(t) \/ Backend(t) PROVE ~oomHook
  BY DEF Next, Exited
<1>1. CASE Client(t)
  BY <1>1 DEF Client, NewController, NewControllerExits, Destroy, Load, Save, Write
<1>2. CASE Lock(t)
  BY <1>2 DEF Lock
<1>3. CASE Backend(t)
  BY <1>3 DEF Backend, NewData, OpenMessageStream, Report, ParseReturns, OpenSaveStream, OpenFile,
              CloseFile, SaveReturns, Collect, WriteContent, ContentsWritten, OutOfMemory,
              CloseMessageStream, Unlock
<1> QED BY <1>1, <1>2, <1>3

(* Running out of memory ends the process only as long as no constructor   *)
(* of a controller has completed.                                          *)
THEOREM NeverExitsLater == Spec => ExitsOnlyBeforeFirstController
<1>1. ResultInv /\ [Next]_vars =>
        [exited' /\ ~exited =>
           \A t \in Thread : th[t].operation \in {"none", "parse"}
                             /\ th[t].pc = "idle" => th[t].frontend = "none"]_vars
  BY ExitWithoutHook, Before DEF Owned
<1> QED BY <1>1, AlwaysResult, PTL DEF Spec, ExitsOnlyBeforeFirstController

-----------------------------------------------------------------------------
(* Arguments.                                                              *)

Parameters ==
  {"no parameter", "UTF-8"} \cup IntegerParameters \cup Encodings \cup PropertyTypeParameters \cup MessageIDs
Given == [type : ArgumentTypes, parameter : Parameters]

(* An option is of one kind.                                               *)
LEMMA Kinds ==
  /\ ArgumentTypes = NoParameterTypes \cup IntegerTypes \cup StringTypes \cup RepeatableTypes
  /\ NoParameterTypes \cap (IntegerTypes \cup StringTypes \cup RepeatableTypes) = {}
  /\ RepeatableTypes \cap (IntegerTypes \cup StringTypes) = {}
  /\ IntegerTypes \cap StringTypes = {}
  /\ StringTypes = {"DefaultEncoding", "ForcedEncoding"}
<1>1. IntegerTypes = {"HardLineBreakMode", "EncodingMode", "BeginningOfSgfData"}
  BY DEF IntegerTypes, Modes
<1>2. RepeatableTypes = {"DeletePropertyType", "DisableMessageID"}
  BY DEF RepeatableTypes, PropertyTypeTypes, MessageIDTypes
<1>3. NoParameterTypes \cap (IntegerTypes \cup StringTypes \cup RepeatableTypes) = {}
  BY <1>1, <1>2 DEF NoParameterTypes, DeletionTypes, StyleTypes, StringTypes
<1> QED BY <1>1, <1>2, <1>3 DEF StringTypes, ArgumentTypes

LEMMA ConvertibleType ==
  ASSUME NEW parameter \in PropertyTypeParameters,
         MapPropertyTypeToPropertyName(parameter) = "invalid_argument"
  PROVE  parameter = UnknownType
<1>1. "invalid_argument" \notin StandardTypes
  BY DEF StandardTypes, MoveTypes, SetupTypes, NodeAnnotations, MoveAnnotations, MarkupTypes,
         RootTypes, GameInfoTypes, TimingTypes, OtherTypes, OldTypes, GoTypes
<1>2. parameter \in StandardTypes \cup {UnknownType}
  BY ArgumentsAssumption DEF AllPropertyTypes
<1> QED BY <1>1, <1>2 DEF MapPropertyTypeToPropertyName

-----------------------------------------------------------------------------
(* What SGFC makes of a command line.                                      *)

(* The function that parses a command line exists.                         *)
LEMMA ParsedFunction ==
  ASSUME NEW n \in Nat, NEW list
  PROVE  \E f : f = [k \in 0 .. n |->
                      IF k = 0 THEN SGFCDefaultOptions ELSE ApplyArgument(f[k - 1], list[k])]
<1> DEFINE Good(j) == \E f : f = [k \in 0 .. j |->
                        IF k = 0 THEN SGFCDefaultOptions ELSE ApplyArgument(f[k - 1], list[k])]
           Bad == {j \in 0 .. n : ~Good(j)}
<1>1. Good(0)
  <2> DEFINE f == [k \in 0 .. 0 |-> SGFCDefaultOptions]
  <2>1. f = [k \in 0 .. 0 |-> IF k = 0 THEN SGFCDefaultOptions ELSE ApplyArgument(f[k - 1], list[k])]
    OBVIOUS
  <2> QED BY <2>1
<1>2. ASSUME NEW j \in 1 .. n, Good(j - 1) PROVE Good(j)
  <2>1. PICK f : f = [k \in 0 .. j - 1 |->
                        IF k = 0 THEN SGFCDefaultOptions ELSE ApplyArgument(f[k - 1], list[k])]
    BY <1>2
  <2> DEFINE g == [k \in 0 .. j |-> IF k = j THEN ApplyArgument(f[j - 1], list[j]) ELSE f[k]]
  <2>2. ASSUME NEW k \in 0 .. j
        PROVE  g[k] = IF k = 0 THEN SGFCDefaultOptions ELSE ApplyArgument(g[k - 1], list[k])
    <3>1. k # 0 => k - 1 \in 0 .. j - 1 /\ g[k - 1] = f[k - 1]
      OBVIOUS
    <3>2. CASE k = j
      BY <3>1, <3>2
    <3>3. CASE k # j
      <4>1. k \in 0 .. j - 1 /\ g[k] = f[k]
        BY <3>3
      <4>2. f[k] = IF k = 0 THEN SGFCDefaultOptions ELSE ApplyArgument(f[k - 1], list[k])
        BY <2>1, <4>1
      <4> QED BY <3>1, <4>1, <4>2
    <3> QED BY <3>2, <3>3
  <2>3. g = [k \in 0 .. j |->
               IF k = 0 THEN SGFCDefaultOptions ELSE ApplyArgument(g[k - 1], list[k])]
    BY <2>2
  <2> HIDE DEF g
  <2> QED BY <2>3
<1> HIDE DEF Good
<1>3. Bad = {}
  <2> SUFFICES ASSUME Bad # {} PROVE FALSE
    OBVIOUS
  <2>1. PICK j \in Bad : \A i \in Bad : j <= i
    <3>1. Bad \subseteq Nat
      OBVIOUS
    <3> HIDE DEF Bad
    <3> QED BY <3>1, LeastNumber
  <2>2. j # 0
    BY <1>1
  <2>3. j \in 1 .. n /\ j - 1 \in 0 .. n /\ ~(j <= j - 1)
    BY <2>2
  <2>4. Good(j - 1)
    BY <2>1, <2>3
  <2> QED BY <1>2, <2>3, <2>4
<1>4. Good(n)
  BY <1>3
<1> QED BY <1>4 DEF Good

(* The options that the first k arguments of a list make.                  *)
OptionsOf(list, k, options) ==
  /\ DOMAIN options = ArgumentTypes
  /\ \A option \in ArgumentTypes :
       LET given == {i \in 1 .. k : list[i].type = option}
       IN  /\ option \in NoParameterTypes => options[option] = IF given = {} THEN FALSE ELSE TRUE
           /\ option \in RepeatableTypes => options[option] = {list[i].parameter : i \in given}
           /\ option \in IntegerTypes \cup StringTypes =>
                IF given = {} THEN options[option] = SGFCDefaultOptions[option]
                ELSE \E i \in given : options[option] = list[i].parameter

LEMMA DefaultOptions == ASSUME NEW list PROVE OptionsOf(list, 0, SGFCDefaultOptions)
<1>1. DOMAIN SGFCDefaultOptions = ArgumentTypes
  BY DEF SGFCDefaultOptions
<1>2. \A option \in NoParameterTypes : SGFCDefaultOptions[option] = FALSE
  BY Kinds DEF SGFCDefaultOptions
<1>3. \A option \in RepeatableTypes : SGFCDefaultOptions[option] = {}
  BY Kinds DEF SGFCDefaultOptions
<1>4. ASSUME NEW option \in ArgumentTypes, NEW given, given = {}
      PROVE  /\ option \in NoParameterTypes =>
                  SGFCDefaultOptions[option] = IF given = {} THEN FALSE ELSE TRUE
             /\ option \in RepeatableTypes =>
                  SGFCDefaultOptions[option] = {list[i].parameter : i \in given}
             /\ option \in IntegerTypes \cup StringTypes =>
                  IF given = {} THEN SGFCDefaultOptions[option] = SGFCDefaultOptions[option]
                  ELSE \E i \in given : SGFCDefaultOptions[option] = list[i].parameter
  BY <1>2, <1>3, <1>4
<1>5. \A option : {i \in 1 .. 0 : list[i].type = option} = {}
  OBVIOUS
<1> QED BY <1>1, <1>4, <1>5 DEF OptionsOf

LEMMA OneMoreArgument ==
  ASSUME NEW list \in Seq(Given), NEW k \in 1 .. Len(list), NEW options,
         OptionsOf(list, k - 1, options)
  PROVE  OptionsOf(list, k, ApplyArgument(options, list[k]))
<1> DEFINE type == list[k].type
           parameter == list[k].parameter
           new == ApplyArgument(options, list[k])
           given(option) == {i \in 1 .. k : list[i].type = option}
           before(option) == {i \in 1 .. k - 1 : list[i].type = option}
<1>1. type \in ArgumentTypes
  <2>1. list[k] \in Given
    OBVIOUS
  <2> QED BY <2>1 DEF Given
<1>2. \A option : given(option) = IF option = type THEN before(option) \cup {k} ELSE before(option)
  OBVIOUS
<1>3. DOMAIN options = ArgumentTypes
  BY DEF OptionsOf
<1>4. DOMAIN new = ArgumentTypes
  BY <1>3 DEF ApplyArgument
<1>5. \A option \in ArgumentTypes : option # type => new[option] = options[option]
  BY <1>3 DEF ApplyArgument
<1>6. /\ type \in NoParameterTypes => new[type] = TRUE
      /\ type \in RepeatableTypes => new[type] = options[type] \cup {parameter}
      /\ type \in IntegerTypes \cup StringTypes => new[type] = parameter
  BY <1>1, <1>3, Kinds DEF ApplyArgument
<1>7. ASSUME NEW option \in ArgumentTypes
      PROVE  /\ option \in NoParameterTypes => options[option] = IF before(option) = {} THEN FALSE ELSE TRUE
             /\ option \in RepeatableTypes => options[option] = {list[i].parameter : i \in before(option)}
             /\ option \in IntegerTypes \cup StringTypes =>
                  IF before(option) = {} THEN options[option] = SGFCDefaultOptions[option]
                  ELSE \E i \in before(option) : options[option] = list[i].parameter
  BY DEF OptionsOf
<1> HIDE DEF new, given, before, type, parameter
<1>8. ASSUME NEW option \in ArgumentTypes
      PROVE  /\ option \in NoParameterTypes => new[option] = IF given(option) = {} THEN FALSE ELSE TRUE
             /\ option \in RepeatableTypes => new[option] = {list[i].parameter : i \in given(option)}
             /\ option \in IntegerTypes \cup StringTypes =>
                  IF given(option) = {} THEN new[option] = SGFCDefaultOptions[option]
                  ELSE \E i \in given(option) : new[option] = list[i].parameter
  <2>1. CASE option # type
    <3>1. given(option) = before(option) /\ new[option] = options[option]
      BY <1>2, <1>5, <2>1
    <3> QED BY <1>7, <3>1
  <2>2. CASE option = type
    <3>1. given(option) = before(option) \cup {k}
      BY <1>2, <2>2
    <3>2. parameter = list[k].parameter
      BY DEF parameter
    <3>3. option \in RepeatableTypes => new[option] = {list[i].parameter : i \in given(option)}
      <4>1. {list[i].parameter : i \in given(option)} =
              {list[i].parameter : i \in before(option)} \cup {parameter}
        BY <3>1, <3>2
      <4> QED BY <1>6, <1>7, <2>2, <4>1
    <3>4. option \in NoParameterTypes => new[option] = IF given(option) = {} THEN FALSE ELSE TRUE
      BY <1>6, <2>2, <3>1
    <3> QED BY <1>6, <2>2, <3>1, <3>2, <3>3, <3>4
  <2> QED BY <2>1, <2>2
<1> QED BY <1>4, <1>8 DEF OptionsOf, new, given

(* SGFC's options are those that its command line asks for.                *)
LEMMA ParsedOptions ==
  ASSUME NEW list \in Seq(Given)
  PROVE  OptionsOf(list, Len(list), ParseArgs(list))
<1> DEFINE n == Len(list)
           parsed == CHOOSE f : f = [k \in 0 .. n |->
                       IF k = 0 THEN SGFCDefaultOptions ELSE ApplyArgument(f[k - 1], list[k])]
           Bad == {k \in 0 .. n : ~OptionsOf(list, k, parsed[k])}
<1>1. n \in Nat
  OBVIOUS
<1>2. parsed = [k \in 0 .. n |->
                  IF k = 0 THEN SGFCDefaultOptions ELSE ApplyArgument(parsed[k - 1], list[k])]
  BY <1>1, ParsedFunction
<1>3. ParseArgs(list) = parsed[n]
  BY DEF ParseArgs
<1> HIDE DEF parsed
<1>4. OptionsOf(list, 0, parsed[0])
  BY <1>1, <1>2, DefaultOptions
<1>5. ASSUME NEW k \in 1 .. n, OptionsOf(list, k - 1, parsed[k - 1])
      PROVE  OptionsOf(list, k, parsed[k])
  <2>1. parsed[k] = ApplyArgument(parsed[k - 1], list[k])
    BY <1>1, <1>2
  <2> QED BY <1>5, <2>1, OneMoreArgument
<1>6. Bad = {}
  <2> SUFFICES ASSUME Bad # {} PROVE FALSE
    OBVIOUS
  <2>1. PICK k \in Bad : \A i \in Bad : k <= i
    <3>1. Bad \subseteq Nat
      OBVIOUS
    <3> HIDE DEF Bad
    <3> QED BY <3>1, LeastNumber
  <2>2. k # 0
    BY <1>4
  <2>3. k \in 1 .. n /\ k - 1 \in 0 .. n /\ ~(k <= k - 1)
    BY <1>1, <2>2
  <2>4. OptionsOf(list, k - 1, parsed[k - 1])
    BY <2>1, <2>3
  <2> QED BY <1>5, <2>3, <2>4
<1> QED BY <1>1, <1>3, <1>6

-----------------------------------------------------------------------------
(* The invariant: of an option that may be given once there is one         *)
(* argument, and a controller has the options of its command line.         *)

GivenOnce ==
  \A i, j \in 1 .. Len(added) :
    i # j /\ added[i].type = added[j].type => added[i].type \in RepeatableTypes

PropertyTypesGiven ==
  \A i \in 1 .. Len(added) :
    added[i].type = "DeletePropertyType" => added[i].parameter \in PropertyTypeParameters

ControllerOK ==
  /\ controller \in {"valid", "operating"} => capturedOptions = ParseArgs(added)
  /\ controller = "operating" => sgfcOptions = RestoreOptions(capturedOptions)
  /\ controller = "invalid_argument" => \E argument \in Range(added) : ~IsConvertible(argument)

ArgumentsInv == added \in Seq(Given) /\ GivenOnce /\ PropertyTypesGiven /\ ControllerOK

LEMMA ArgumentsInitInv == ArgumentsInit => ArgumentsInv
<1> SUFFICES ASSUME ArgumentsInit PROVE ArgumentsInv
  OBVIOUS
<1>1. controller = "none"
  BY DEF ArgumentsInit
<1>2. CASE added = <<>>
  BY <1>1, <1>2 DEF ArgumentsInv, GivenOnce, PropertyTypesGiven, ControllerOK
<1>3. CASE added = WriterArguments
  <2> DEFINE argument == [type |-> "DefaultEncoding", parameter |-> "UTF-8"]
  <2>1. argument \in Given /\ argument.type = "DefaultEncoding"
    BY Kinds DEF Given, Parameters
  <2>2. added = <<argument>>
    BY <1>3 DEF WriterArguments
  <2> HIDE DEF argument
  <2>3. added \in Seq(Given) /\ Len(added) = 1 /\ added[1] = argument
    BY <2>1, <2>2
  <2> QED BY <1>1, <2>1, <2>3 DEF ArgumentsInv, GivenOnce, PropertyTypesGiven, ControllerOK
<1> QED BY <1>2, <1>3 DEF ArgumentsInit

LEMMA AddKeepsInv ==
  ASSUME ArgumentsInv, NEW type \in ArgumentTypes, NEW parameter \in Parameters,
         type = "DeletePropertyType" => parameter \in PropertyTypeParameters,
         AddArgument(type, parameter)
  PROVE  ArgumentsInv'
<1> DEFINE argument == [type |-> type, parameter |-> parameter]
<1>1. /\ controller = "none" /\ controller' = "none" /\ ~IsMultiplicityViolated(argument)
      /\ added' = Append(added, argument)
  BY DEF AddArgument
<1>2. argument \in Given /\ argument.type = type /\ argument.parameter = parameter
  BY DEF Given
<1> HIDE DEF argument
<1>3. added \in Seq(Given) /\ Len(added) \in Nat /\ DOMAIN added = 1 .. Len(added)
  BY DEF ArgumentsInv
<1>4. /\ added' \in Seq(Given) /\ Len(added') = Len(added) + 1 /\ added'[Len(added) + 1] = argument
      /\ \A i \in 1 .. Len(added) : added'[i] = added[i]
  BY <1>1, <1>2, <1>3
<1>5. \A i \in 1 .. Len(added) : added[i].type = type => type \in RepeatableTypes
  <2> SUFFICES ASSUME NEW i \in 1 .. Len(added), added[i].type = type, type \notin RepeatableTypes
               PROVE  FALSE
    OBVIOUS
  <2>1. added[i] \in Range(added)
    BY <1>3 DEF Range
  <2> QED BY <1>1, <1>2, <2>1 DEF IsMultiplicityViolated, ArgumentTypeCanBeAddedMultipleTimes
<1>6. GivenOnce'
  <2> SUFFICES ASSUME NEW i \in 1 .. Len(added) + 1, NEW j \in 1 .. Len(added) + 1,
                      i # j, added'[i].type = added'[j].type
               PROVE  added'[i].type \in RepeatableTypes
    BY <1>4 DEF GivenOnce
  <2>1. CASE i # Len(added) + 1 /\ j # Len(added) + 1
    BY <1>3, <1>4, <2>1 DEF ArgumentsInv, GivenOnce
  <2>2. CASE i = Len(added) + 1 \/ j = Len(added) + 1
    BY <1>2, <1>3, <1>4, <1>5, <2>2
  <2> QED BY <2>1, <2>2
<1>7. PropertyTypesGiven'
  <2> SUFFICES ASSUME NEW i \in 1 .. Len(added) + 1, added'[i].type = "DeletePropertyType"
               PROVE  added'[i].parameter \in PropertyTypeParameters
    BY <1>4 DEF PropertyTypesGiven
  <2>1. CASE i = Len(added) + 1
    BY <1>2, <1>4, <2>1
  <2>2. CASE i # Len(added) + 1
    BY <1>3, <1>4, <2>2 DEF ArgumentsInv, PropertyTypesGiven
  <2> QED BY <2>1, <2>2
<1> QED BY <1>1, <1>4, <1>6, <1>7 DEF ArgumentsInv, ControllerOK

LEMMA ArgumentsNextInv == ArgumentsInv /\ [ArgumentsNext]_argumentVars => ArgumentsInv'
<1> SUFFICES ASSUME ArgumentsInv, [ArgumentsNext]_argumentVars PROVE ArgumentsInv'
  OBVIOUS
<1> USE DEF ArgumentsInv
<1>1. CASE AddAnyArgument
  <2>1. ASSUME NEW type \in NoParameterTypes, AddArgument(type, "no parameter") PROVE ArgumentsInv'
    <3>1. type \in ArgumentTypes /\ type # "DeletePropertyType"
      BY Kinds DEF RepeatableTypes, PropertyTypeTypes
    <3> QED BY <2>1, <3>1, AddKeepsInv DEF Parameters
  <2>2. ASSUME NEW type \in IntegerTypes, NEW parameter \in IntegerParameters, AddArgument(type, parameter)
        PROVE  ArgumentsInv'
    <3>1. type \in ArgumentTypes /\ type # "DeletePropertyType"
      BY Kinds DEF RepeatableTypes, PropertyTypeTypes
    <3> QED BY <2>2, <3>1, AddKeepsInv DEF Parameters
  <2>3. ASSUME NEW type \in StringTypes, NEW parameter \in Encodings, AddArgument(type, parameter)
        PROVE  ArgumentsInv'
    <3>1. type \in ArgumentTypes /\ type # "DeletePropertyType"
      BY Kinds DEF RepeatableTypes, PropertyTypeTypes
    <3> QED BY <2>3, <3>1, AddKeepsInv DEF Parameters
  <2>4. ASSUME NEW type \in PropertyTypeTypes, NEW parameter \in PropertyTypeParameters,
               AddArgument(type, parameter)
        PROVE  ArgumentsInv'
    <3>1. type \in ArgumentTypes
      BY Kinds DEF RepeatableTypes
    <3> QED BY <2>4, <3>1, AddKeepsInv DEF Parameters
  <2>5. ASSUME NEW type \in MessageIDTypes, NEW parameter \in MessageIDs, AddArgument(type, parameter)
        PROVE  ArgumentsInv'
    <3>1. type \in ArgumentTypes /\ type # "DeletePropertyType"
      BY Kinds DEF RepeatableTypes, MessageIDTypes
    <3> QED BY <2>5, <3>1, AddKeepsInv DEF Parameters
  <2> QED BY <1>1, <2>1, <2>2, <2>3, <2>4, <2>5 DEF AddAnyArgument
<1>2. CASE ClearArguments
  BY <1>2 DEF ClearArguments, GivenOnce, PropertyTypesGiven, ControllerOK
<1>3. CASE ConstructBackendController
  BY <1>3 DEF ConstructBackendController, GivenOnce, PropertyTypesGiven, ControllerOK
<1>4. CASE BeginLoadOrSave
  BY <1>4 DEF BeginLoadOrSave, GivenOnce, PropertyTypesGiven, ControllerOK
<1>5. CASE EndLoadOrSave
  BY <1>5 DEF EndLoadOrSave, GivenOnce, PropertyTypesGiven, ControllerOK
<1>6. CASE DestroyBackendController
  BY <1>6 DEF DestroyBackendController, GivenOnce, PropertyTypesGiven, ControllerOK
<1>7. CASE UNCHANGED argumentVars
  BY <1>7 DEF argumentVars, GivenOnce, PropertyTypesGiven, ControllerOK
<1> QED BY <1>1, <1>2, <1>3, <1>4, <1>5, <1>6, <1>7 DEF ArgumentsNext

-----------------------------------------------------------------------------
(* What the options of the command line are, by what is asked for.         *)
LEMMA AskedOptions ==
  ASSUME ArgumentsInv, NEW option \in ArgumentTypes
  PROVE  LET asked == ParametersOf(option)
             parsed == ParseArgs(added)[option]
         IN  /\ option \in NoParameterTypes => parsed = IF asked = {} THEN FALSE ELSE TRUE
             /\ option \in RepeatableTypes => parsed = asked
             /\ option \in IntegerTypes \cup StringTypes =>
                  IF asked = {} THEN parsed = SGFCDefaultOptions[option] ELSE asked = {parsed}
<1> DEFINE asked == ParametersOf(option)
           parsed == ParseArgs(added)[option]
           given == {i \in 1 .. Len(added) : added[i].type = option}
<1>1. added \in Seq(Given) /\ Len(added) \in Nat /\ DOMAIN added = 1 .. Len(added) /\ GivenOnce
  BY DEF ArgumentsInv
<1>2. asked = {added[i].parameter : i \in given}
  BY <1>1 DEF ParametersOf, Range
<1>3. OptionsOf(added, Len(added), ParseArgs(added))
  BY <1>1, ParsedOptions
<1>4. /\ option \in NoParameterTypes => parsed = IF given = {} THEN FALSE ELSE TRUE
      /\ option \in RepeatableTypes => parsed = {added[i].parameter : i \in given}
      /\ option \in IntegerTypes \cup StringTypes =>
           IF given = {} THEN parsed = SGFCDefaultOptions[option]
           ELSE \E i \in given : parsed = added[i].parameter
  BY <1>3 DEF OptionsOf
<1>5. (asked = {}) <=> (given = {})
  BY <1>2
<1>6. ASSUME option \in IntegerTypes \cup StringTypes, given # {} PROVE asked = {parsed}
  <2>1. PICK i \in given : parsed = added[i].parameter
    BY <1>4, <1>6
  <2>2. option \notin RepeatableTypes
    BY <1>6, Kinds
  <2>3. given = {i}
    BY <1>1, <2>2 DEF GivenOnce
  <2> HIDE DEF given
  <2> QED BY <1>2, <2>1, <2>3
<1> HIDE DEF given, asked, parsed
<1> QED BY <1>2, <1>4, <1>5, <1>6 DEF asked, parsed

(* Each argument of a controller takes effect in each of its operations,   *)
(* and what no argument asks for is as SGFC has it by default.             *)
THEOREM EachArgumentTakesEffect == ArgumentsSpec => []ArgumentsTakeEffect
<1>1. ASSUME ArgumentsInv PROVE ArgumentsTakeEffect
  <2>1. ASSUME controller = "operating", NEW option \in ArgumentTypes
        PROVE  LET asked == ParametersOf(option)
               IN  /\ option \in NoParameterTypes => sgfcOptions[option] = (asked # {})
                   /\ option \in RepeatableTypes => sgfcOptions[option] = asked
                   /\ option \in IntegerTypes \cup StringTypes /\ asked = {} =>
                        sgfcOptions[option] = SGFCDefaultOptions[option]
                   /\ option \in IntegerTypes /\ asked # {} => asked = {sgfcOptions[option]}
                   /\ option \in StringTypes => asked \ ShortEncodings \subseteq {sgfcOptions[option]}
    <3> DEFINE asked == ParametersOf(option)
               parsed == ParseArgs(added)[option]
               restored == sgfcOptions[option]
    <3>1. restored = IF option \in StringTypes /\ parsed \in ShortEncodings THEN NoEncoding ELSE parsed
      BY <1>1, <2>1 DEF ArgumentsInv, ControllerOK, RestoreOptions
    <3>2. /\ option \in NoParameterTypes => parsed = IF asked = {} THEN FALSE ELSE TRUE
          /\ option \in RepeatableTypes => parsed = asked
          /\ option \in IntegerTypes \cup StringTypes =>
               IF asked = {} THEN parsed = SGFCDefaultOptions[option] ELSE asked = {parsed}
      BY <1>1, AskedOptions
    <3>3. option \in {"DefaultEncoding", "ForcedEncoding"} =>
            SGFCDefaultOptions[option] \in {DefaultEncodingName, NoEncoding}
      BY <2>1, Kinds DEF SGFCDefaultOptions
    <3>4. DefaultEncodingName \notin ShortEncodings
      BY ArgumentsAssumption
    <3> HIDE DEF asked, parsed, restored
    <3>5. option \in NoParameterTypes => restored = (asked # {})
      BY <3>1, <3>2, Kinds
    <3>6. option \in RepeatableTypes => restored = asked
      BY <3>1, <3>2, Kinds
    <3>7. ASSUME option \in IntegerTypes \cup StringTypes, asked = {}
          PROVE  restored = SGFCDefaultOptions[option]
      BY <3>1, <3>2, <3>3, <3>4, <3>7, Kinds
    <3>8. option \in IntegerTypes /\ asked # {} => asked = {restored}
      BY <3>1, <3>2, Kinds
    <3>9. option \in StringTypes => asked \ ShortEncodings \subseteq {restored}
      BY <3>1, <3>2, <3>7
    <3> QED BY <3>5, <3>6, <3>7, <3>8, <3>9 DEF asked, restored
  <2>2. ASSUME controller = "invalid_argument" PROVE UnknownType \in ParametersOf("DeletePropertyType")
    <3>1. PICK argument \in Range(added) : ~IsConvertible(argument)
      BY <1>1, <2>2 DEF ArgumentsInv, ControllerOK
    <3>2. PICK i \in 1 .. Len(added) : argument = added[i]
      BY <1>1, <3>1 DEF ArgumentsInv, Range
    <3>3. /\ argument.type = "DeletePropertyType"
          /\ MapPropertyTypeToPropertyName(argument.parameter) = "invalid_argument"
      BY <3>1 DEF IsConvertible, PropertyTypeTypes
    <3>4. argument.parameter = UnknownType
      BY <1>1, <3>2, <3>3, ConvertibleType DEF ArgumentsInv, PropertyTypesGiven
    <3> QED BY <3>1, <3>3, <3>4 DEF ParametersOf
  <2> QED BY <2>1, <2>2 DEF ArgumentsTakeEffect
<1> QED BY <1>1, ArgumentsInitInv, ArgumentsNextInv, PTL DEF ArgumentsSpec
=============================================================================
