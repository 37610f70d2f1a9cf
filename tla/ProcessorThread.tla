--------------------------- MODULE ProcessorThread ---------------------------
(***************************************************************************)
(* The life of one processor of the trade server: process_thread (its      *)
(* thread), event (what the thread sleeps on), processor_base (its queue), *)
(* query_processor's start/post/stop/run skeleton, and the trade_server    *)
(* calls that drive them: start, dispatch_message, stop, delete.  Three    *)
(* kinds of thread interleave: the one that owns the server, the           *)
(* processor's own, and the threads that dispatch messages to it.  The     *)
(* queue is the FIFO that SrtQueue implements; what a handler does with a  *)
(* message is left to QueryProcessor.                                      *)
(***************************************************************************)
EXTENDS Integers, Sequences, Functions

CONSTANTS Posters,      \* threads that call trade_server::dispatch_message
          MaxPost,      \* bound: dispatch_message calls per poster
          PromptStart,  \* scheduling assumption: a thread starts within 10 ms
          PromptPost,   \* ... and a dispatch ends before the processor is joined
          NULL          \* no message

ASSUME ThreadAssumption == /\ MaxPost \in Nat
                           /\ PromptStart \in BOOLEAN /\ PromptPost \in BOOLEAN
                           /\ NULL \notin Posters \X Nat

VARIABLES
    server,     \* trade_server::started_
    started,    \* query_processor::started_
    running,    \* process_thread::is_running_
    thread,     \* process_thread::thread_ # 0
    event,      \* msg_event_: is there an event object?
    signals,    \* event::event_
    queue,      \* msg_queue_
    object,     \* the processor: "none", "alive" or "deleted"
    pass,       \* which stop() is running: 1 the server's, 2 the destructor's
    opc,        \* control point of the thread that owns the server
    wpc, wmsg,  \* control point and message of the processor's thread
    ppc, sent,  \* per poster: control point and number of dispatches begun
    handled,    \* history: messages handed to a handler, in order
    gone        \* history: how often the dictionary of a message was released

ownerVars == <<server, started, thread, object, pass, opc>>
vars == <<server, started, running, thread, event, signals, queue, object, pass,
          opc, wpc, wmsg, ppc, sent, handled, gone>>

Msgs == Posters \X (1..MaxPost)

Released(ms) == [m \in Msgs |-> gone[m] + (IF m \in ms THEN 1 ELSE 0)]

Init ==
    /\ server = FALSE /\ started = FALSE /\ running = FALSE
    /\ thread = FALSE /\ event = FALSE /\ signals = 0
    /\ queue = <<>> /\ object = "none" /\ pass = 1
    /\ opc = "new" /\ wpc = "none" /\ wmsg = NULL
    /\ ppc = [p \in Posters |-> "idle"] /\ sent = [p \in Posters |-> 0]
    /\ handled = <<>> /\ gone = [m \in Msgs |-> 0]

-----------------------------------------------------------------------------
(* The owner: trade_server::start, stop and ~query_processor.              *)

\* new query_processor, its event, and pthread_create
StartProcessor ==
    /\ opc = "new"
    /\ object' = "alive"
    /\ event' = TRUE /\ signals' = 0
    /\ thread' = TRUE /\ wpc' = "born"
    /\ opc' = "created"
    /\ UNCHANGED <<server, started, running, queue, pass, wmsg, ppc, sent, handled, gone>>

SetStarted ==
    /\ opc = "created"
    /\ started' = TRUE
    /\ opc' = "started"
    /\ UNCHANGED <<server, running, thread, event, signals, queue, object, pass,
                   wpc, wmsg, ppc, sent, handled, gone>>

ServerUp ==
    /\ opc = "started"
    /\ server' = TRUE
    /\ opc' = "up"
    /\ UNCHANGED <<started, running, thread, event, signals, queue, object, pass,
                   wpc, wmsg, ppc, sent, handled, gone>>

\* trade_server::stop, called by its owner or by start when a later part fails
ServerStop ==
    /\ opc \in {"started", "up"}
    /\ server' = FALSE
    /\ opc' = "stop"
    /\ UNCHANGED <<started, running, thread, event, signals, queue, object, pass,
                   wpc, wmsg, ppc, sent, handled, gone>>

StopFlag ==
    /\ opc = "stop"
    /\ started' = FALSE
    /\ opc' = "test"
    /\ UNCHANGED <<server, running, thread, event, signals, queue, object, pass,
                   wpc, wmsg, ppc, sent, handled, gone>>

\* process_thread::stop waits 10 ms for a thread that is not running yet
StopTest ==
    /\ opc = "test"
    /\ opc' = IF ~running /\ thread THEN "sleep" ELSE "check"
    /\ UNCHANGED <<server, started, running, thread, event, signals, queue, object,
                   pass, wpc, wmsg, ppc, sent, handled, gone>>

StopSleep ==
    /\ opc = "sleep"
    /\ PromptStart => wpc # "born"
    /\ opc' = "check"
    /\ UNCHANGED <<server, started, running, thread, event, signals, queue, object,
                   pass, wpc, wmsg, ppc, sent, handled, gone>>

\* mutant: the thread is told to stop but not joined
StopCheckNoJoin ==
    /\ opc = "check"
    /\ opc' = "release"
    /\ running' = FALSE
    /\ UNCHANGED <<server, started, thread, event, signals, queue, object, pass,
                   wpc, wmsg, ppc, sent, handled, gone>>

\* is_running_ = false and pthread_join, or neither
StopCheck ==
    /\ opc = "check"
    /\ opc' = IF running THEN "join" ELSE "release"
    /\ running' = FALSE
    /\ UNCHANGED <<server, started, thread, event, signals, queue, object, pass,
                   wpc, wmsg, ppc, sent, handled, gone>>

StopJoin ==
    /\ opc = "join"
    /\ wpc = "done"
    /\ thread' = FALSE
    /\ opc' = "release"
    /\ UNCHANGED <<server, started, running, event, signals, queue, object, pass,
                   wpc, wmsg, ppc, sent, handled, gone>>

\* mutant: the queue is dropped without releasing what is in it
StopReleaseLeak ==
    /\ opc = "release"
    /\ PromptPost => \A p \in Posters : ppc[p] = "idle"
    /\ queue' = <<>>
    /\ opc' = "free"
    /\ UNCHANGED <<server, started, running, thread, event, signals, object, pass,
                   wpc, wmsg, ppc, sent, handled, gone>>

\* release_messages
StopRelease ==
    /\ opc = "release"
    /\ PromptPost => \A p \in Posters : ppc[p] = "idle"
    /\ gone' = Released(Range(queue))
    /\ queue' = <<>>
    /\ opc' = "free"
    /\ UNCHANGED <<server, started, running, thread, event, signals, object, pass,
                   wpc, wmsg, ppc, sent, handled>>

\* delete msg_event_; then delete the processor, whose destructor stops again
StopFreeEvent ==
    /\ opc = "free"
    /\ event' = FALSE
    /\ IF pass = 1
       THEN pass' = 2 /\ opc' = "stop" /\ object' = object
       ELSE pass' = 2 /\ opc' = "done" /\ object' = "deleted"
    /\ UNCHANGED <<server, started, running, thread, signals, queue, wpc, wmsg,
                   ppc, sent, handled, gone>>

-----------------------------------------------------------------------------
(* The processor's thread: _thread_proc and query_processor::run.          *)

ThreadBegins ==
    /\ wpc = "born"
    /\ running' = TRUE
    /\ wpc' = "loop"
    /\ UNCHANGED <<ownerVars, event, signals, queue, wmsg, ppc, sent, handled, gone>>

RunExit ==
    /\ wpc = "loop" /\ ~running
    /\ wpc' = "done"
    /\ UNCHANGED <<ownerVars, running, event, signals, queue, wmsg, ppc, sent, handled, gone>>

\* while the server flag is off the thread sleeps and tests again
RunGate ==
    /\ wpc = "loop" /\ running /\ server
    /\ wpc' = "get"
    /\ UNCHANGED <<ownerVars, running, event, signals, queue, wmsg, ppc, sent, handled, gone>>

RunGet ==
    /\ wpc = "get"
    /\ IF queue # <<>>
       THEN wmsg' = Head(queue) /\ queue' = Tail(queue) /\ wpc' = "handle"
       ELSE wpc' = "reset" /\ UNCHANGED <<wmsg, queue>>
    /\ UNCHANGED <<ownerVars, running, event, signals, ppc, sent, handled, gone>>

RunHandle ==
    /\ wpc = "handle"
    /\ handled' = Append(handled, wmsg)
    /\ gone' = Released({wmsg})
    /\ wmsg' = NULL
    /\ wpc' = "loop"
    /\ UNCHANGED <<ownerVars, running, event, signals, queue, ppc, sent>>

\* event::reset
RunReset ==
    /\ wpc = "reset" /\ event
    /\ signals' = 0
    /\ wpc' = "wait"
    /\ UNCHANGED <<ownerVars, running, event, queue, wmsg, ppc, sent, handled, gone>>

\* event::wait(50): consume a signal, or block on the condition
RunWait ==
    /\ wpc = "wait" /\ event
    /\ IF signals > 0 THEN signals' = signals - 1 /\ wpc' = "loop"
                      ELSE signals' = signals /\ wpc' = "blocked"
    /\ UNCHANGED <<ownerVars, running, event, queue, wmsg, ppc, sent, handled, gone>>

\* mutant: the wait has no time limit
RunWakeUntimed ==
    /\ wpc = "blocked" /\ event
    /\ signals > 0
    /\ wpc' = "loop"
    /\ UNCHANGED <<ownerVars, running, event, signals, queue, wmsg, ppc, sent, handled, gone>>

\* signalled (the signal is not consumed on this path) or timed out
RunWake ==
    /\ wpc = "blocked" /\ event
    /\ wpc' = "loop"
    /\ UNCHANGED <<ownerVars, running, event, signals, queue, wmsg, ppc, sent, handled, gone>>

-----------------------------------------------------------------------------
(* A poster: trade_server::dispatch_message and query_processor::post.     *)

\* a server that is not started releases the message
Dispatch(p) ==
    /\ ppc[p] = "idle" /\ sent[p] < MaxPost
    /\ sent' = [sent EXCEPT ![p] = @ + 1]
    /\ IF server THEN /\ ppc' = [ppc EXCEPT ![p] = "push"]
                      /\ gone' = gone
                 ELSE /\ ppc' = ppc
                      /\ gone' = Released({<<p, sent[p] + 1>>})
    /\ UNCHANGED <<ownerVars, running, event, signals, queue, wpc, wmsg, handled>>

PostPush(p) ==
    /\ ppc[p] = "push" /\ object = "alive"
    /\ queue' = Append(queue, <<p, sent[p]>>)
    /\ ppc' = [ppc EXCEPT ![p] = "test"]
    /\ UNCHANGED <<ownerVars, running, event, signals, wpc, wmsg, sent, handled, gone>>

PostTest(p) ==
    /\ ppc[p] = "test" /\ object = "alive"
    /\ ppc' = [ppc EXCEPT ![p] = IF started THEN "set" ELSE "idle"]
    /\ UNCHANGED <<ownerVars, running, event, signals, queue, wpc, wmsg, sent, handled, gone>>

\* event::set
PostSet(p) ==
    /\ ppc[p] = "set" /\ event
    /\ signals' = signals + 1
    /\ ppc' = [ppc EXCEPT ![p] = "idle"]
    /\ UNCHANGED <<ownerVars, running, event, queue, wpc, wmsg, sent, handled, gone>>

-----------------------------------------------------------------------------
StopStep == StopFlag \/ StopTest \/ StopSleep \/ StopCheck \/ StopJoin
            \/ StopRelease \/ StopFreeEvent
WorkerStep == ThreadBegins \/ RunExit \/ RunGate \/ RunGet \/ RunHandle
              \/ RunReset \/ RunWait \/ RunWake
PostStep(p) == PostPush(p) \/ PostTest(p) \/ PostSet(p)

Next == \/ StartProcessor \/ SetStarted \/ ServerUp \/ ServerStop \/ StopStep
        \/ WorkerStep
        \/ \E p \in Posters : Dispatch(p) \/ PostStep(p)

Spec == Init /\ [][Next]_vars

\* Threads that were started run: the processor's loop (its wait returns after
\* 50 ms at the latest), a stop() once called and a dispatch once begun.
Fairness == /\ WF_vars(WorkerStep) /\ WF_vars(StopStep)
            /\ \A p \in Posters : WF_vars(PostStep(p))
FairSpec == Spec /\ Fairness

-----------------------------------------------------------------------------
TypeOK ==
    /\ server \in BOOLEAN /\ started \in BOOLEAN /\ running \in BOOLEAN
    /\ thread \in BOOLEAN /\ event \in BOOLEAN /\ signals \in Nat
    /\ queue \in Seq(Msgs) /\ handled \in Seq(Msgs)
    /\ object \in {"none", "alive", "deleted"} /\ pass \in {1, 2}
    /\ opc \in {"new", "created", "started", "up", "stop", "test", "sleep",
                "check", "join", "release", "free", "done"}
    /\ wpc \in {"none", "born", "loop", "get", "handle", "reset", "wait",
                "blocked", "done"}
    /\ wmsg \in Msgs \cup {NULL}
    /\ ppc \in [Posters -> {"idle", "push", "test", "set"}]
    /\ sent \in [Posters -> 0..MaxPost]
    /\ gone \in [Msgs -> Nat]

\* The processor's own thread never touches what stop() frees: it has left
\* run() before the processor is deleted, and it resets or waits on msg_event_
\* only while the event exists.
WorkerSafe ==
    /\ object = "deleted" => wpc = "done"
    /\ wpc \in {"reset", "wait", "blocked"} => event

\* post() may be called by several threads concurrently: none of them touches a
\* deleted processor or signals a deleted event.  The code does not keep this:
\* nothing in stop() waits for a post() that has tested started_ and has yet to
\* signal msg_event_ (a run without PromptPost shows it).
PostersSafe ==
    \A p \in Posters : /\ ppc[p] \in {"push", "test"} => object = "alive"
                       /\ ppc[p] = "set" => event

\* When processor_base::stop() has returned, the process thread is stopped.
StopEndsThread == opc \in {"release", "free", "done"} => wpc = "done"

\* A message's dictionary is released once: by the handler's loop, by
\* release_messages or by a dispatch_message that finds the server down; when
\* the processor is gone nothing that was dispatched is still unreleased.
ReleasedOnce ==
    \A p \in Posters : \A n \in 1..MaxPost :
        LET m == <<p, n>> IN
        /\ gone[m] <= 1
        /\ opc = "done" /\ n <= sent[p] => gone[m] = 1

\* While the server is up a queued message is always handled in the end, even
\* when the reset() that follows an empty get() erases the signal of its post.
EventuallyHandled ==
    \A m \in Msgs : (m \in Range(queue)) ~> (m \in Range(handled) \/ ~server)

\* stop() returns: although nobody signals msg_event_, the thread leaves run().
StopReturns == (opc = "stop") ~> (opc = "done")
=============================================================================
