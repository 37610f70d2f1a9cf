------------------------ MODULE ProcessorThreadProofs ------------------------
(***************************************************************************)
(* Proofs about ProcessorThread: if a thread starts within the 10 ms that  *)
(* process_thread::stop waits for it, stop() always joins it, and the      *)
(* thread never touches the event or the processor after they are deleted; *)
(* if dispatches end before the processor is joined as well, every message *)
(* is released once.  For any set of posting threads and any number of     *)
(* messages.                                                               *)
(***************************************************************************)
EXTENDS ProcessorThread, TLAPS

\* control points inside run()
Live == {"loop", "get", "handle", "reset", "wait", "blocked"}
\* control points of stop() after process_thread::stop has returned
Freeing == {"release", "free", "done"}

ControlOK ==
    /\ opc \in {"new", "created", "started", "up", "stop", "test", "sleep",
                "check", "join"} \cup Freeing
    /\ wpc \in {"none", "born", "done"} \cup Live
    /\ pass \in {1, 2}
    /\ object \in {"none", "alive", "deleted"}
    /\ running \in BOOLEAN /\ thread \in BOOLEAN /\ event \in BOOLEAN

\* What the flags say of the thread, at each point of start and stop.
ThreadInv ==
    /\ wpc = "none" <=> opc = "new"
    /\ wpc = "none" => ~running /\ pass = 1 /\ object = "none"
    /\ wpc = "born" => thread /\ ~running /\ pass = 1 /\ opc # "check" /\ opc # "join"
    /\ wpc \in Live => (running \/ opc = "join") /\ pass = 1
    /\ wpc = "done" => ~running

\* What exists while the thread can still use it.
FreeInv ==
    /\ opc \in Freeing \/ pass = 2 => wpc = "done"
    /\ opc # "new" /\ pass = 1 => event
    /\ object = "deleted" => opc = "done"

LifeInv == ControlOK /\ ThreadInv /\ FreeInv

LEMMA LifeInit == Init => LifeInv
<1> SUFFICES ASSUME Init PROVE LifeInv
  OBVIOUS
<1>1. ControlOK
  <2>1. running = FALSE /\ thread = FALSE /\ event = FALSE
    BY DEF Init
  <2>2. opc = "new" /\ wpc = "none" /\ pass = 1 /\ object = "none"
    BY DEF Init
  <2> QED BY <2>1, <2>2 DEF ControlOK
<1>2. ThreadInv
  BY Zenon DEF Init, ThreadInv, Live
<1>3. FreeInv
  <2>1. opc = "new" /\ pass = 1 /\ object = "none"
    BY DEF Init
  <2> QED BY <2>1 DEF FreeInv, Freeing
<1> QED BY <1>1, <1>2, <1>3 DEF LifeInv

\* start(): the thread is born with its event in place
LEMMA LifeStart ==
    ASSUME LifeInv, StartProcessor \/ SetStarted \/ ServerUp \/ ServerStop
    PROVE  LifeInv'
<1>1. CASE StartProcessor
  BY <1>1 DEF LifeInv, ControlOK, ThreadInv, FreeInv, Live, Freeing, StartProcessor
<1>2. CASE SetStarted
  BY <1>2 DEF LifeInv, ControlOK, ThreadInv, FreeInv, Live, Freeing, SetStarted
<1>3. CASE ServerUp
  BY <1>3 DEF LifeInv, ControlOK, ThreadInv, FreeInv, Live, Freeing, ServerUp
<1>4. CASE ServerStop
  BY <1>4 DEF LifeInv, ControlOK, ThreadInv, FreeInv, Live, Freeing, ServerStop
<1> QED BY <1>1, <1>2, <1>3, <1>4

\* stop(): the only step that needs PromptStart is the 10 ms sleep
LEMMA LifeStop ==
    ASSUME PromptStart, LifeInv, StopStep
    PROVE  LifeInv'
<1>1. CASE StopFlag
  BY <1>1 DEF LifeInv, ControlOK, ThreadInv, FreeInv, Live, Freeing, StopFlag
<1>2. CASE StopTest
  BY <1>2 DEF LifeInv, ControlOK, ThreadInv, FreeInv, Live, Freeing, StopTest
<1>3. CASE StopSleep
  BY <1>3 DEF LifeInv, ControlOK, ThreadInv, FreeInv, Live, Freeing, StopSleep
<1>4. CASE StopCheck
  BY <1>4 DEF LifeInv, ControlOK, ThreadInv, FreeInv, Live, Freeing, StopCheck
<1>5. CASE StopJoin
  BY <1>5 DEF LifeInv, ControlOK, ThreadInv, FreeInv, Live, Freeing, StopJoin
<1>6. CASE StopRelease
  BY <1>6 DEF LifeInv, ControlOK, ThreadInv, FreeInv, Live, Freeing, StopRelease
<1>7. CASE StopFreeEvent
  <2>1. wpc = "done" /\ ~running /\ object # "deleted"
    BY <1>7 DEF LifeInv, ThreadInv, FreeInv, Freeing, StopFreeEvent
  <2>2. pass' = 2 /\ event' = FALSE /\ UNCHANGED <<running, thread, wpc>>
    BY <1>7 DEF StopFreeEvent
  <2>3. \/ opc' = "stop" /\ object' = object
        \/ opc' = "done" /\ object' = "deleted"
    BY <1>7 DEF StopFreeEvent
  <2>4. ControlOK'
    BY <2>2, <2>3 DEF LifeInv, ControlOK, Freeing
  <2> QED BY <2>1, <2>2, <2>3, <2>4 DEF LifeInv, ThreadInv, FreeInv, Live, Freeing
<1> QED BY <1>1, <1>2, <1>3, <1>4, <1>5, <1>6, <1>7 DEF StopStep

\* run(): the loop ends only when stop() has cleared is_running_
LEMMA LifeWorker ==
    ASSUME LifeInv, WorkerStep
    PROVE  LifeInv'
<1>1. CASE ThreadBegins
  BY <1>1 DEF LifeInv, ControlOK, ThreadInv, FreeInv, Live, Freeing, ThreadBegins, ownerVars
<1>2. CASE RunExit
  BY <1>2 DEF LifeInv, ControlOK, ThreadInv, FreeInv, Live, Freeing, RunExit, ownerVars
<1>3. CASE RunGate
  BY <1>3 DEF LifeInv, ControlOK, ThreadInv, FreeInv, Live, Freeing, RunGate, ownerVars
<1>4. CASE RunGet
  BY <1>4 DEF LifeInv, ControlOK, ThreadInv, FreeInv, Live, Freeing, RunGet, ownerVars
<1>5. CASE RunHandle
  BY <1>5 DEF LifeInv, ControlOK, ThreadInv, FreeInv, Live, Freeing, RunHandle, ownerVars
<1>6. CASE RunReset
  BY <1>6 DEF LifeInv, ControlOK, ThreadInv, FreeInv, Live, Freeing, RunReset, ownerVars
<1>7. CASE RunWait
  BY <1>7 DEF LifeInv, ControlOK, ThreadInv, FreeInv, Live, Freeing, RunWait, ownerVars
<1>8. CASE RunWake
  BY <1>8 DEF LifeInv, ControlOK, ThreadInv, FreeInv, Live, Freeing, RunWake, ownerVars
<1> QED BY <1>1, <1>2, <1>3, <1>4, <1>5, <1>6, <1>7, <1>8 DEF WorkerStep

\* dispatch_message and post() change nothing LifeInv speaks of
LEMMA LifePost ==
    ASSUME LifeInv, NEW p \in Posters, Dispatch(p) \/ PostStep(p)
    PROVE  LifeInv'
<1>1. UNCHANGED <<ownerVars, running, event, wpc>>
  BY DEF Dispatch, PostStep, PostPush, PostTest, PostSet
<1> QED BY <1>1 DEF LifeInv, ControlOK, ThreadInv, FreeInv, Live, Freeing, ownerVars

LEMMA LifeNext ==
    ASSUME PromptStart, LifeInv, [Next]_vars
    PROVE  LifeInv'
<1>1. CASE UNCHANGED vars
  BY <1>1 DEF LifeInv, ControlOK, ThreadInv, FreeInv, Live, Freeing, vars
<1>2. CASE Next
  BY <1>2, LifeStart, LifeStop, LifeWorker, LifePost DEF Next
<1> QED BY <1>1, <1>2

LEMMA LifeAlways == ASSUME PromptStart PROVE Spec => []LifeInv
BY LifeInit, LifeNext, PTL DEF Spec

\* The processor's thread has left run() before the processor is deleted, and it
\* uses msg_event_ only while it exists, provided the thread starts within the
\* 10 ms that process_thread::stop waits: for every number of posters.
THEOREM WorkerIsSafe == ASSUME PromptStart PROVE Spec => []WorkerSafe
<1>1. LifeInv => WorkerSafe
  BY DEF LifeInv, ControlOK, ThreadInv, FreeInv, Live, Freeing, WorkerSafe
<1> QED BY <1>1, LifeAlways, PTL

\* When process_thread::stop returns the thread has ended, under the same
\* assumption about how fast a thread starts.
THEOREM StopJoins == ASSUME PromptStart PROVE Spec => []StopEndsThread
<1>1. LifeInv => StopEndsThread
  BY DEF LifeInv, FreeInv, Freeing, StopEndsThread
<1> QED BY <1>1, LifeAlways, PTL

-----------------------------------------------------------------------------
(* Types                                                                   *)

\* What TypeOK needs: a thread that is about to pass a message on has one.
HoldsMessage ==
    /\ wpc = "handle" => wmsg \in Msgs
    /\ \A p \in Posters : ppc[p] # "idle" => sent[p] \in 1..MaxPost

TypeInv == TypeOK /\ HoldsMessage

LEMMA TypeInit == ThreadAssumption /\ Init => TypeInv
<1> SUFFICES ASSUME ThreadAssumption, Init PROVE TypeInv
  OBVIOUS
<1>1. /\ server \in BOOLEAN /\ started \in BOOLEAN /\ running \in BOOLEAN
      /\ thread \in BOOLEAN /\ event \in BOOLEAN
  BY Zenon DEF Init
<1>2. /\ signals \in Nat /\ queue \in Seq(Msgs) /\ handled \in Seq(Msgs) /\ gone \in [Msgs -> Nat]
      /\ sent \in [Posters -> 0..MaxPost] /\ ppc \in [Posters -> {"idle", "push", "test", "set"}]
  BY DEF Init, ThreadAssumption
<1>3. wmsg = NULL /\ object = "none" /\ pass = 1 /\ opc = "new" /\ wpc = "none"
  BY DEF Init
<1>4. \A p \in Posters : ppc[p] = "idle"
  BY DEF Init
<1> QED BY <1>1, <1>2, <1>3, <1>4 DEF TypeInv, TypeOK, HoldsMessage

LEMMA ReleasedType ==
    ASSUME TypeOK, NEW ms
    PROVE  /\ Released(ms) \in [Msgs -> Nat]
           /\ \A m \in Msgs : Released(ms)[m] = IF m \in ms THEN gone[m] + 1 ELSE gone[m]
BY DEF TypeOK, Released

LEMMA TypeOwner ==
    ASSUME TypeInv, StartProcessor \/ SetStarted \/ ServerUp \/ ServerStop \/ StopStep
    PROVE  TypeInv'
<1> USE DEF TypeInv, TypeOK, HoldsMessage
<1>1. CASE StartProcessor
  BY <1>1 DEF StartProcessor
<1>2. CASE SetStarted
  BY <1>2 DEF SetStarted
<1>3. CASE ServerUp
  BY <1>3 DEF ServerUp
<1>4. CASE ServerStop
  BY <1>4 DEF ServerStop
<1>5. CASE StopFlag
  BY <1>5 DEF StopFlag
<1>6. CASE StopTest
  BY <1>6 DEF StopTest
<1>7. CASE StopSleep
  BY <1>7 DEF StopSleep
<1>8. CASE StopCheck
  <2>1. opc' \in {"join", "release"} /\ running' \in BOOLEAN
    BY <1>8 DEF StopCheck
  <2> QED BY <1>8, <2>1 DEF StopCheck
<1>9. CASE StopJoin
  BY <1>9 DEF StopJoin
<1>10. CASE StopRelease
  <2>1. gone' \in [Msgs -> Nat]
    BY <1>10, ReleasedType DEF StopRelease
  <2> QED BY <1>10, <2>1 DEF StopRelease
<1>11. CASE StopFreeEvent
  BY <1>11 DEF StopFreeEvent
<1> QED BY <1>1, <1>2, <1>3, <1>4, <1>5, <1>6, <1>7, <1>8, <1>9, <1>10, <1>11 DEF StopStep

LEMMA TypeWorker ==
    ASSUME TypeInv, WorkerStep
    PROVE  TypeInv'
<1> USE DEF TypeInv, TypeOK, HoldsMessage, ownerVars
<1>1. CASE ThreadBegins
  BY <1>1 DEF ThreadBegins
<1>2. CASE RunExit
  BY <1>2 DEF RunExit
<1>3. CASE RunGate
  BY <1>3 DEF RunGate
<1>4. CASE RunGet
  <2>1. CASE queue # <<>>
    <3>1. Head(queue) \in Msgs /\ Tail(queue) \in Seq(Msgs)
      BY <2>1
    <3>2. wmsg' \in Msgs /\ queue' \in Seq(Msgs) /\ wpc' = "handle"
      BY <1>4, <2>1, <3>1 DEF RunGet
    <3> QED BY <1>4, <3>2 DEF RunGet
  <2>2. CASE queue = <<>>
    <3>1. wmsg' = wmsg /\ queue' = queue /\ wpc' = "reset"
      BY <1>4, <2>2 DEF RunGet
    <3> QED BY <1>4, <3>1 DEF RunGet
  <2> QED BY <2>1, <2>2
<1>5. CASE RunHandle
  <2>1. gone' \in [Msgs -> Nat]
    BY <1>5, ReleasedType DEF RunHandle
  <2>2. wmsg \in Msgs /\ handled' = Append(handled, wmsg) /\ handled' \in Seq(Msgs)
    BY <1>5 DEF RunHandle
  <2> QED BY <1>5, <2>1, <2>2 DEF RunHandle
<1>6. CASE RunReset
  BY <1>6 DEF RunReset
<1>7. CASE RunWait
  BY <1>7 DEF RunWait
<1>8. CASE RunWake
  BY <1>8 DEF RunWake
<1> QED BY <1>1, <1>2, <1>3, <1>4, <1>5, <1>6, <1>7, <1>8 DEF WorkerStep

LEMMA TypePost ==
    ASSUME ThreadAssumption, TypeInv, NEW p \in Posters, Dispatch(p) \/ PostStep(p)
    PROVE  TypeInv'
<1> USE DEF TypeInv, TypeOK, HoldsMessage, ownerVars
<1>1. CASE Dispatch(p)
  <2>1. gone' \in [Msgs -> Nat]
    BY <1>1, ReleasedType DEF Dispatch
  <2>2. sent[p] + 1 \in 1..MaxPost /\ sent' = [sent EXCEPT ![p] = sent[p] + 1]
    BY <1>1 DEF Dispatch, ThreadAssumption
  <2>3. sent' \in [Posters -> 0..MaxPost] /\ \A q \in Posters : q # p => sent'[q] = sent[q]
    BY <2>2 DEF ThreadAssumption
  <2>4. /\ ppc' \in [Posters -> {"idle", "push", "test", "set"}]
        /\ \A q \in Posters : q # p => ppc'[q] = ppc[q]
    BY <1>1 DEF Dispatch
  <2>5. HoldsMessage'
    BY <1>1, <2>2, <2>3, <2>4 DEF Dispatch
  <2> QED BY <1>1, <2>1, <2>3, <2>4, <2>5 DEF Dispatch
<1>2. CASE PostPush(p)
  <2>1. <<p, sent[p]>> \in Msgs
    BY <1>2 DEF PostPush, Msgs
  <2> QED BY <1>2, <2>1 DEF PostPush
<1>3. CASE PostTest(p)
  BY <1>3 DEF PostTest
<1>4. CASE PostSet(p)
  BY <1>4 DEF PostSet
<1> QED BY <1>1, <1>2, <1>3, <1>4 DEF PostStep

LEMMA TypeNext ==
    ASSUME ThreadAssumption, TypeInv, [Next]_vars
    PROVE  TypeInv'
<1>1. CASE UNCHANGED vars
  BY <1>1 DEF TypeInv, TypeOK, HoldsMessage, vars
<1>2. CASE Next
  BY <1>2, TypeOwner, TypeWorker, TypePost DEF Next
<1> QED BY <1>1, <1>2

\* Every variable keeps its type, with any number of posters and messages.
THEOREM ThreadTypes == Spec => []TypeOK
<1>1. Init => TypeInv
  BY ThreadAssumption, TypeInit
<1>2. TypeInv /\ [Next]_vars => TypeInv'
  BY ThreadAssumption, TypeNext
<1>3. TypeInv => TypeOK
  BY DEF TypeInv
<1> QED BY <1>1, <1>2, <1>3, PTL DEF Spec

-----------------------------------------------------------------------------
(* The posters                                                             *)

AllIdle == \A p \in Posters : ppc[p] = "idle"

\* Posters are under way only between the server's start and the end of the
\* first stop(), and what they use exists all that time.
PostInv ==
    /\ server <=> opc = "up"
    /\ pass = 1 \/ opc \notin {"new", "created", "started", "up"}
    /\ opc \in {"new", "created", "started", "free", "done"} \/ pass = 2 => AllIdle
    /\ opc # "new" /\ opc # "done" => object = "alive"
    /\ opc \notin {"new", "done"} /\ pass = 1 => event
    /\ opc = "done" => pass = 2
    /\ opc = "new" => wpc = "none"

LEMMA PostInit == Init => PostInv
<1> SUFFICES ASSUME Init PROVE PostInv
  OBVIOUS
<1>1. server = FALSE /\ opc = "new" /\ wpc = "none" /\ pass = 1 /\ AllIdle
  BY DEF Init, AllIdle
<1> QED BY <1>1 DEF PostInv

LEMMA PostOwner ==
    ASSUME PromptPost, TypeOK, PostInv, StartProcessor \/ SetStarted \/ ServerUp \/ ServerStop \/ StopStep
    PROVE  PostInv'
<1>1. UNCHANGED ppc
  BY DEF StartProcessor, SetStarted, ServerUp, ServerStop, StopStep, StopFlag, StopTest,
         StopSleep, StopCheck, StopJoin, StopRelease, StopFreeEvent
<1>2. AllIdle' <=> AllIdle
  BY <1>1 DEF AllIdle
<1> USE <1>2 DEF PostInv
<1>3. CASE StartProcessor
  BY <1>3 DEF StartProcessor, TypeOK
<1>4. CASE SetStarted
  BY <1>4 DEF SetStarted, TypeOK
<1>5. CASE ServerUp
  BY <1>5 DEF ServerUp, TypeOK
<1>6. CASE ServerStop
  BY <1>6 DEF ServerStop, TypeOK
<1>7. CASE StopFlag
  BY <1>7 DEF StopFlag, TypeOK
<1>8. CASE StopTest
  <2>1. opc' \in {"sleep", "check"}
    BY <1>8 DEF StopTest
  <2> QED BY <1>8, <2>1 DEF StopTest, TypeOK
<1>9. CASE StopSleep
  BY <1>9 DEF StopSleep, TypeOK
<1>10. CASE StopCheck
  <2>1. opc' \in {"join", "release"}
    BY <1>10 DEF StopCheck
  <2> QED BY <1>10, <2>1 DEF StopCheck, TypeOK
<1>11. CASE StopJoin
  BY <1>11 DEF StopJoin, TypeOK
<1>12. CASE StopRelease
  <2>1. AllIdle
    BY <1>12 DEF StopRelease, AllIdle
  <2> QED BY <1>12, <2>1 DEF StopRelease, TypeOK
<1>13. CASE StopFreeEvent
  <2>1. AllIdle /\ pass' = 2 /\ opc = "free" /\ server' = server
    BY <1>13 DEF StopFreeEvent
  <2>2. (opc' = "stop" /\ object' = object) \/ opc' = "done"
    BY <1>13 DEF StopFreeEvent
  <2> QED BY <2>1, <2>2
<1> QED BY <1>3, <1>4, <1>5, <1>6, <1>7, <1>8, <1>9, <1>10, <1>11, <1>12, <1>13 DEF StopStep

LEMMA PostWorker ==
    ASSUME PostInv, WorkerStep
    PROVE  PostInv'
<1>1. UNCHANGED <<ownerVars, event, ppc>>
  BY DEF WorkerStep, ThreadBegins, RunExit, RunGate, RunGet, RunHandle, RunReset, RunWait, RunWake
<1>2. wpc # "none"
  BY DEF WorkerStep, ThreadBegins, RunExit, RunGate, RunGet, RunHandle, RunReset, RunWait, RunWake
<1> QED BY <1>1, <1>2 DEF PostInv, AllIdle, ownerVars

LEMMA PostPosters ==
    ASSUME TypeOK, PostInv, NEW p \in Posters, Dispatch(p) \/ PostStep(p)
    PROVE  PostInv'
<1>1. UNCHANGED <<ownerVars, event, wpc>>
  BY DEF Dispatch, PostStep, PostPush, PostTest, PostSet
<1>2. AllIdle => server \/ AllIdle'
  BY DEF Dispatch, PostStep, PostPush, PostTest, PostSet, AllIdle, TypeOK
<1> QED BY <1>1, <1>2 DEF PostInv, ownerVars

LEMMA PostNext ==
    ASSUME PromptPost, TypeOK, PostInv, [Next]_vars
    PROVE  PostInv'
<1>1. CASE UNCHANGED vars
  BY <1>1 DEF PostInv, AllIdle, vars
<1>2. CASE Next
  BY <1>2, PostOwner, PostWorker, PostPosters DEF Next
<1> QED BY <1>1, <1>2

LEMMA PostAlways == ASSUME PromptPost PROVE Spec => [](TypeInv /\ PostInv)
<1>1. Init => TypeInv /\ PostInv
  BY ThreadAssumption, TypeInit, PostInit
<1>2. TypeInv /\ PostInv /\ [Next]_vars => (TypeInv /\ PostInv)'
  BY ThreadAssumption, TypeNext, PostNext DEF TypeInv
<1> QED BY <1>1, <1>2, PTL DEF Spec

-----------------------------------------------------------------------------
(* Each message is released once                                           *)

Begun(m) == m[2] <= sent[m[1]]
Pending(m) == ppc[m[1]] = "push" /\ sent[m[1]] = m[2]
InQueue(m) == \E i \in DOMAIN queue : queue[i] = m
Held(m) == Pending(m) \/ InQueue(m) \/ wmsg = m

\* A message that was dispatched and that nobody holds has been released, once.
MessageOK(m) ==
    /\ gone[m] = IF Begun(m) /\ ~Held(m) THEN 1 ELSE 0
    /\ Held(m) => Begun(m)
    /\ Pending(m) => ~InQueue(m)
    /\ wmsg = m => ~Pending(m) /\ ~InQueue(m)

PlaceInv ==
    /\ \A m \in Msgs : MessageOK(m)
    /\ \A i, j \in DOMAIN queue : queue[i] = queue[j] => i = j
    /\ wmsg # NULL <=> wpc = "handle"
    /\ opc \in {"free", "done"} \/ pass = 2 => queue = <<>>

LEMMA NullNoMsg == ASSUME ThreadAssumption, NEW m \in Msgs PROVE m # NULL
<1>1. m \in Posters \X Nat
  BY DEF Msgs
<1> QED BY <1>1 DEF ThreadAssumption

LEMMA MsgParts ==
    ASSUME NEW m \in Msgs
    PROVE  m[1] \in Posters /\ m[2] \in 1..MaxPost /\ m = <<m[1], m[2]>>
BY DEF Msgs

LEMMA PlaceInit == ThreadAssumption /\ Init => PlaceInv
<1> SUFFICES ASSUME ThreadAssumption, Init PROVE PlaceInv
  OBVIOUS
<1>1. queue = <<>> /\ wmsg = NULL /\ wpc = "none" /\ opc = "new"
  BY DEF Init
<1>2. ASSUME NEW m \in Msgs PROVE MessageOK(m)
  <2>1. gone[m] = 0 /\ sent[m[1]] = 0 /\ ppc[m[1]] = "idle" /\ m[2] > 0
    BY MsgParts DEF Init
  <2>2. ~Begun(m) /\ ~Held(m)
    BY <1>1, <2>1, NullNoMsg, MsgParts DEF Begun, Held, Pending, InQueue
  <2> QED BY <2>1, <2>2 DEF MessageOK, Held
<1> QED BY <1>1, <1>2 DEF PlaceInv

\* A step that neither moves a message nor leaves a processor with a queue.
LEMMA PlaceKept ==
    ASSUME PlaceInv, UNCHANGED <<queue, wmsg, sent, gone>>,
           \A m \in Msgs : Pending(m)' <=> Pending(m),
           wpc' = "handle" <=> wpc = "handle",
           opc' \in {"free", "done"} \/ pass' = 2 => opc \in {"free", "done"} \/ pass = 2
    PROVE  PlaceInv'
<1>1. ASSUME NEW m \in Msgs PROVE MessageOK(m)'
  <2>1. /\ Begun(m)' <=> Begun(m)
        /\ InQueue(m)' <=> InQueue(m)
        /\ Held(m)' <=> Held(m)
    BY DEF Begun, InQueue, Held
  <2>2. MessageOK(m)
    BY DEF PlaceInv
  <2> QED BY <2>1, <2>2 DEF MessageOK
<1> QED BY <1>1 DEF PlaceInv

\* the loop takes the first message from the queue
LEMMA PlaceGet ==
    ASSUME ThreadAssumption, TypeInv, PlaceInv, RunGet, queue # <<>>
    PROVE  PlaceInv'
<1> DEFINE h == Head(queue)
<1>1. queue \in Seq(Msgs) /\ Len(queue) \in Nat
  BY DEF TypeInv, TypeOK
<1>2. /\ DOMAIN queue = 1..Len(queue) /\ DOMAIN queue' = 1..(Len(queue) - 1)
      /\ 1 \in DOMAIN queue /\ h = queue[1] /\ h \in Msgs
      /\ \A i \in DOMAIN queue' : i + 1 \in DOMAIN queue /\ queue'[i] = queue[i + 1]
  BY <1>1 DEF RunGet
<1>3. wmsg = NULL /\ wmsg' = h /\ wpc' = "handle" /\ UNCHANGED <<sent, gone, ppc, opc, pass>>
  BY DEF RunGet, PlaceInv, ownerVars
<1> HIDE DEF h
<1>4. \A i, j \in DOMAIN queue : queue[i] = queue[j] => i = j
  BY DEF PlaceInv
<1>5. ASSUME NEW m \in Msgs PROVE InQueue(m)' <=> InQueue(m) /\ m # h
  <2>1. ASSUME NEW i \in DOMAIN queue', queue'[i] = m PROVE InQueue(m) /\ m # h
    <3>1. i + 1 \in DOMAIN queue /\ queue[i + 1] = m /\ i + 1 # 1
      BY <1>2, <2>1
    <3> QED BY <1>2, <1>4, <3>1 DEF InQueue
  <2>2. ASSUME NEW i \in DOMAIN queue, queue[i] = m, m # h PROVE InQueue(m)'
    <3>1. i - 1 \in DOMAIN queue' /\ queue'[i - 1] = m
      BY <1>1, <1>2, <2>2
    <3> QED BY <3>1 DEF InQueue
  <2> QED BY <2>1, <2>2 DEF InQueue
<1>6. InQueue(h)
  BY <1>2 DEF InQueue
<1>7. ASSUME NEW m \in Msgs PROVE MessageOK(m)'
  <2>1. (Begun(m)' <=> Begun(m)) /\ (Pending(m)' <=> Pending(m)) /\ gone'[m] = gone[m]
    BY <1>3 DEF Begun, Pending
  <2>2. MessageOK(m) /\ wmsg # m
    BY <1>3, NullNoMsg DEF PlaceInv
  <2>3. Held(m)' <=> Held(m)
    BY <1>3, <1>5, <1>6, <2>1, <2>2 DEF Held
  <2> QED BY <1>3, <1>5, <1>6, <2>1, <2>2, <2>3 DEF MessageOK, Held
<1>8. \A i, j \in DOMAIN queue' : queue'[i] = queue'[j] => i = j
  <2> SUFFICES ASSUME NEW i \in DOMAIN queue', NEW j \in DOMAIN queue', queue'[i] = queue'[j]
               PROVE  i = j
    OBVIOUS
  <2>1. i + 1 = j + 1
    BY <1>2, <1>4
  <2> QED BY <1>2, <2>1
<1>9. opc' \in {"free", "done"} \/ pass' = 2 => queue' = <<>>
  BY <1>3 DEF PlaceInv
<1>10. wmsg' # NULL
  BY <1>2, <1>3, NullNoMsg
<1> QED BY <1>3, <1>7, <1>8, <1>9, <1>10 DEF PlaceInv

\* the handler's loop releases it
LEMMA PlaceHandle ==
    ASSUME ThreadAssumption, TypeInv, PlaceInv, RunHandle
    PROVE  PlaceInv'
<1>1. wmsg \in Msgs /\ wmsg' = NULL /\ wpc' = "loop" /\ UNCHANGED <<queue, sent, ppc, opc, pass>>
  BY DEF RunHandle, TypeInv, HoldsMessage, ownerVars
<1>2. \A m \in Msgs : gone'[m] = IF m = wmsg THEN gone[m] + 1 ELSE gone[m]
  BY ReleasedType DEF RunHandle, TypeInv
<1>3. ASSUME NEW m \in Msgs PROVE MessageOK(m)'
  <2>1. (Begun(m)' <=> Begun(m)) /\ (Pending(m)' <=> Pending(m)) /\ (InQueue(m)' <=> InQueue(m))
    BY <1>1 DEF Begun, Pending, InQueue
  <2>2. MessageOK(m) /\ m # NULL
    BY NullNoMsg DEF PlaceInv
  <2>3. CASE m = wmsg
    <3>1. Begun(m) /\ Held(m) /\ ~Pending(m) /\ ~InQueue(m) /\ gone[m] = 0
      BY <2>2, <2>3 DEF MessageOK, Held
    <3>2. ~Held(m)' /\ Begun(m)' /\ gone'[m] = 1
      BY <1>1, <1>2, <2>1, <2>2, <2>3, <3>1 DEF Held
    <3> QED BY <1>1, <2>1, <2>2, <3>1, <3>2 DEF MessageOK
  <2>4. CASE m # wmsg
    <3>1. (Held(m)' <=> Held(m)) /\ gone'[m] = gone[m] /\ wmsg' # m
      BY <1>1, <1>2, <2>1, <2>2, <2>4 DEF Held
    <3> QED BY <2>1, <2>2, <3>1 DEF MessageOK
  <2> QED BY <2>3, <2>4
<1> QED BY <1>1, <1>3 DEF PlaceInv

\* release_messages releases what is queued
LEMMA PlaceRelease ==
    ASSUME ThreadAssumption, TypeInv, PlaceInv, StopRelease
    PROVE  PlaceInv'
<1>1. queue' = <<>> /\ UNCHANGED <<wmsg, wpc, sent, ppc>>
  BY DEF StopRelease
<1>2. \A m \in Msgs : gone'[m] = IF InQueue(m) THEN gone[m] + 1 ELSE gone[m]
  <2>1. \A m : m \in Range(queue) <=> InQueue(m)
    BY DEF Range, InQueue
  <2> QED BY <2>1, ReleasedType DEF StopRelease, TypeInv
<1>3. ASSUME NEW m \in Msgs PROVE MessageOK(m)'
  <2>1. (Begun(m)' <=> Begun(m)) /\ (Pending(m)' <=> Pending(m)) /\ ~InQueue(m)'
    BY <1>1 DEF Begun, Pending, InQueue
  <2>2. MessageOK(m)
    BY DEF PlaceInv
  <2>3. CASE InQueue(m)
    <3>1. Begun(m) /\ Held(m) /\ ~Pending(m) /\ wmsg # m /\ gone[m] = 0
      BY <2>2, <2>3 DEF MessageOK, Held
    <3>2. ~Held(m)' /\ Begun(m)' /\ gone'[m] = 1
      BY <1>1, <1>2, <2>1, <2>3, <3>1 DEF Held
    <3> QED BY <1>1, <2>1, <3>1, <3>2 DEF MessageOK
  <2>4. CASE ~InQueue(m)
    <3>1. (Held(m)' <=> Held(m)) /\ gone'[m] = gone[m]
      BY <1>1, <1>2, <2>1, <2>4 DEF Held
    <3> QED BY <1>1, <2>1, <2>2, <2>4, <3>1 DEF MessageOK
  <2> QED BY <2>3, <2>4
<1> QED BY <1>1, <1>3 DEF PlaceInv

\* dispatch_message begins with a new message, or releases it at once
LEMMA PlaceDispatch ==
    ASSUME ThreadAssumption, TypeInv, PlaceInv, NEW p \in Posters, Dispatch(p)
    PROVE  PlaceInv'
<1> DEFINE new == <<p, sent[p] + 1>>
<1>1. new \in Msgs
  BY DEF Dispatch, TypeInv, TypeOK, Msgs, ThreadAssumption
<1>2. /\ sent[p] \in Nat /\ sent'[p] = sent[p] + 1 /\ ppc[p] = "idle"
      /\ \A q \in Posters : q # p => sent'[q] = sent[q] /\ ppc'[q] = ppc[q]
      /\ UNCHANGED <<queue, wmsg, wpc, opc, pass>>
  BY DEF Dispatch, TypeInv, TypeOK, ownerVars
<1>3. \/ ppc'[p] = "push" /\ gone' = gone
      \/ ppc'[p] = "idle" /\ \A m \in Msgs : gone'[m] = IF m = new THEN gone[m] + 1 ELSE gone[m]
  BY ReleasedType DEF Dispatch, TypeInv, TypeOK
<1>4. ASSUME NEW m \in Msgs PROVE MessageOK(m)'
  <2>0. m[1] \in Posters /\ m[2] \in Nat /\ m = <<m[1], m[2]>> /\ MessageOK(m)
    BY MsgParts DEF PlaceInv
  <2>1. InQueue(m)' <=> InQueue(m)
    BY <1>2 DEF InQueue
  <2>2. CASE m = new
    <3>1. m[1] = p /\ m[2] = sent[p] + 1
      BY <2>2
    <3>2. ~Begun(m) /\ Begun(m)' /\ (Pending(m)' <=> ppc'[p] = "push")
      BY <1>2, <3>1 DEF Begun, Pending
    <3>3. ~Held(m) /\ gone[m] = 0
      BY <2>0, <3>2 DEF MessageOK
    <3>4. ~InQueue(m)' /\ wmsg' # m
      BY <1>2, <2>1, <3>3 DEF Held
    <3> QED BY <1>3, <2>2, <3>2, <3>3, <3>4 DEF MessageOK, Held
  <2>3. CASE m # new
    <3>1. gone'[m] = gone[m]
      BY <1>3, <2>3
    <3>2. CASE m[1] = p
      <4>1. m[2] # sent[p] + 1
        BY <2>0, <2>3, <3>2
      <4>2. (Begun(m)' <=> Begun(m)) /\ ~Pending(m)' /\ ~Pending(m)
        BY <1>2, <2>0, <3>2, <4>1 DEF Begun, Pending
      <4> QED BY <1>2, <2>0, <2>1, <3>1, <4>2 DEF MessageOK, Held
    <3>3. CASE m[1] # p
      <4>1. (Begun(m)' <=> Begun(m)) /\ (Pending(m)' <=> Pending(m))
        BY <1>2, <2>0, <3>3 DEF Begun, Pending
      <4> QED BY <1>2, <2>0, <2>1, <3>1, <4>1 DEF MessageOK, Held
    <3> QED BY <3>2, <3>3
  <2> QED BY <2>2, <2>3
<1> QED BY <1>2, <1>4 DEF PlaceInv

\* post() pushes it
LEMMA PlacePush ==
    ASSUME ThreadAssumption, TypeInv, PostInv, PlaceInv, NEW p \in Posters, PostPush(p)
    PROVE  PlaceInv'
<1> DEFINE new == <<p, sent[p]>>
<1>1. new \in Msgs
  BY DEF PostPush, TypeInv, HoldsMessage, Msgs
<1>2. queue \in Seq(Msgs) /\ Len(queue) \in Nat /\ queue' = Append(queue, new)
  BY DEF PostPush, TypeInv, TypeOK
<1>3. /\ DOMAIN queue = 1..Len(queue) /\ DOMAIN queue' = 1..(Len(queue) + 1)
      /\ \A i \in DOMAIN queue : i \in DOMAIN queue' /\ queue'[i] = queue[i]
      /\ queue'[Len(queue) + 1] = new /\ Len(queue) + 1 \in DOMAIN queue'
      /\ \A i \in DOMAIN queue' : i \in DOMAIN queue \/ i = Len(queue) + 1
  BY <1>2
<1>4. /\ ppc[p] = "push" /\ ppc'[p] = "test" /\ UNCHANGED <<wmsg, wpc, sent, gone, opc, pass>>
      /\ \A q \in Posters : q # p => ppc'[q] = ppc[q]
  BY DEF PostPush, TypeInv, TypeOK, ownerVars
<1>5. ASSUME NEW m \in Msgs PROVE InQueue(m)' <=> InQueue(m) \/ m = new
  BY <1>3 DEF InQueue
<1>6. ASSUME NEW m \in Msgs PROVE Pending(m)' <=> Pending(m) /\ m # new
  <2>1. m[1] \in Posters /\ m = <<m[1], m[2]>>
    BY MsgParts
  <2>2. CASE m[1] = p
    <3>1. ~Pending(m)'
      BY <1>4, <2>2 DEF Pending
    <3>2. Pending(m) => m = new
      BY <2>1, <2>2 DEF Pending
    <3> QED BY <3>1, <3>2
  <2>3. CASE m[1] # p
    BY <1>4, <2>1, <2>3 DEF Pending
  <2> QED BY <2>2, <2>3
<1>7. Pending(new)
  BY <1>4 DEF Pending
<1> HIDE DEF new
<1>8. ~InQueue(new) /\ wmsg # new
  BY <1>1, <1>7 DEF PlaceInv, MessageOK
<1>9. ASSUME NEW m \in Msgs PROVE MessageOK(m)'
  <2>1. (Begun(m)' <=> Begun(m)) /\ MessageOK(m)
    BY <1>4 DEF Begun, PlaceInv
  <2>2. Held(m)' <=> Held(m)
    BY <1>4, <1>5, <1>6, <1>7 DEF Held
  <2> QED BY <1>4, <1>5, <1>6, <1>8, <2>1, <2>2 DEF MessageOK
<1>10. \A i, j \in DOMAIN queue' : queue'[i] = queue'[j] => i = j
  BY <1>3, <1>8 DEF InQueue, PlaceInv
<1>11. ~(opc \in {"free", "done"} \/ pass = 2)
  BY <1>4 DEF PostInv, AllIdle
<1> QED BY <1>4, <1>9, <1>10, <1>11 DEF PlaceInv

LEMMA PlaceNext ==
    ASSUME ThreadAssumption, TypeInv, PostInv, PlaceInv, [Next]_vars
    PROVE  PlaceInv'
<1>1. CASE UNCHANGED vars
  <2>1. \A m \in Msgs : Pending(m)' <=> Pending(m)
    BY <1>1 DEF vars, Pending
  <2> QED BY <1>1, <2>1, PlaceKept DEF vars
<1>2. ASSUME UNCHANGED <<queue, wmsg, sent, gone, ppc>>,
             wpc' = "handle" <=> wpc = "handle",
             opc' \in {"free", "done"} \/ pass' = 2 => opc \in {"free", "done"} \/ pass = 2
      PROVE  PlaceInv'
  <2>1. \A m \in Msgs : Pending(m)' <=> Pending(m)
    BY <1>2 DEF Pending
  <2> QED BY <1>2, <2>1, PlaceKept
<1>3. CASE StartProcessor \/ SetStarted \/ ServerUp \/ ServerStop
  <2>1. wpc' = "handle" <=> wpc = "handle"
    <3>1. opc = "new" => wpc # "handle"
      BY DEF PostInv
    <3> QED BY <1>3, <3>1 DEF StartProcessor, SetStarted, ServerUp, ServerStop
  <2> QED BY <1>2, <1>3, <2>1 DEF StartProcessor, SetStarted, ServerUp, ServerStop
<1>4. CASE StopFlag \/ StopTest \/ StopSleep \/ StopCheck \/ StopJoin \/ StopFreeEvent
  BY <1>2, <1>4 DEF StopFlag, StopTest, StopSleep, StopCheck, StopJoin, StopFreeEvent
<1>5. CASE StopRelease
  BY <1>5, PlaceRelease
<1>6. CASE ThreadBegins \/ RunExit \/ RunGate \/ RunReset \/ RunWait \/ RunWake
  BY <1>2, <1>6 DEF ThreadBegins, RunExit, RunGate, RunReset, RunWait, RunWake, ownerVars
<1>7. CASE RunGet
  <2>1. CASE queue = <<>>
    BY <1>2, <1>7, <2>1 DEF RunGet, ownerVars
  <2> QED BY <1>7, <2>1, PlaceGet
<1>8. CASE RunHandle
  BY <1>8, PlaceHandle
<1>9. ASSUME NEW p \in Posters, Dispatch(p) PROVE PlaceInv'
  BY <1>9, PlaceDispatch
<1>10. ASSUME NEW p \in Posters, PostPush(p) PROVE PlaceInv'
  BY <1>10, PlacePush
<1>11. ASSUME NEW p \in Posters, PostTest(p) \/ PostSet(p) PROVE PlaceInv'
  <2>1. ASSUME NEW m \in Msgs PROVE Pending(m)' <=> Pending(m)
    BY <1>11, MsgParts DEF PostTest, PostSet, Pending, TypeInv, TypeOK
  <2> QED BY <1>11, <2>1, PlaceKept DEF PostTest, PostSet, ownerVars
<1> QED BY <1>1, <1>3, <1>4, <1>5, <1>6, <1>7, <1>8, <1>9, <1>10, <1>11
        DEF Next, StopStep, WorkerStep, PostStep

\* The dictionary of a message is released once, by its handler, by
\* release_messages or by a dispatch that finds the server down, and when the
\* processor is gone all that were dispatched are: for every number of posters
\* and messages, provided the thread starts in time and dispatches end before
\* stop() has joined it.
THEOREM DictionariesReleasedOnce ==
    ASSUME PromptStart, PromptPost PROVE Spec => []ReleasedOnce
<1>1. LifeInv /\ TypeInv /\ PostInv /\ PlaceInv => ReleasedOnce
  <2> SUFFICES ASSUME LifeInv, TypeInv, PostInv, PlaceInv, NEW p \in Posters, NEW n \in 1..MaxPost
               PROVE  /\ gone[<<p, n>>] <= 1
                      /\ opc = "done" /\ n <= sent[p] => gone[<<p, n>>] = 1
    BY DEF ReleasedOnce
  <2> DEFINE m == <<p, n>>
  <2>1. m \in Msgs /\ m[1] = p /\ m[2] = n /\ MessageOK(m) /\ m # NULL
    BY ThreadAssumption, NullNoMsg DEF Msgs, PlaceInv
  <2>2. ASSUME opc = "done" PROVE ~Held(m)
    <3>1. queue = <<>> /\ ppc[p] = "idle" /\ wpc = "done" /\ wmsg = NULL
      BY <2>2 DEF PlaceInv, PostInv, AllIdle, LifeInv, FreeInv, Freeing
    <3> QED BY <2>1, <3>1 DEF Held, Pending, InQueue
  <2> HIDE DEF m
  <2>3. gone[m] <= 1 /\ (opc = "done" /\ n <= sent[p] => gone[m] = 1)
    BY <2>1, <2>2 DEF MessageOK, Begun
  <2> QED BY <2>3 DEF m
<1>2. Init => PlaceInv
  BY ThreadAssumption, PlaceInit
<1>3. TypeInv /\ PostInv /\ PlaceInv /\ [Next]_vars => PlaceInv'
  BY ThreadAssumption, PlaceNext
<1> QED BY <1>1, <1>2, <1>3, LifeAlways, PostAlways, PTL DEF Spec
=============================================================================
