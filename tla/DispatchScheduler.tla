------------------------- MODULE DispatchScheduler -------------------------
(***************************************************************************)
(* base's dispatch_scheduler: a thread that looks after the timers, two or *)
(* more worker threads that take operations from a tqueue and call them,   *)
(* and the clients and callbacks that dispatch operations and start, reset *)
(* and fire timers.  One life of the shared instance is followed.          *)
(*                                                                         *)
(* mutex_ guards timers_ only.  tqueue has no lock: post_msg_mul claims an *)
(* index and fills its cell afterwards, get_msg_mul claims an index by a   *)
(* compare-and-exchange and spins until the cell is filled.  Its pages are *)
(* left out: fewer operations are posted than the queue holds.  An         *)
(* operation is known by its index, a timer's fire time by whether it is   *)
(* zero, still to come or past.                                            *)
(*                                                                         *)
(* Calls are allowed while start() and stop() run, as in the code.  A      *)
(* thread that comes to an object that is not there goes no further: what  *)
(* the program does then is not defined.                                   *)
(***************************************************************************)
EXTENDS Integers, Sequences, FiniteSets, SequencesExt

CONSTANTS Workers,      \* process_threads_
          Clients,      \* other threads that use the scheduler
          Timers,       \* timer objects
          MaxOps,       \* bound: operations posted
          MaxStarts,    \* bound: timer starts
          NULL

ASSUME SchedulerAssumption ==
    /\ IsFiniteSet(Timers)
    /\ MaxOps \in Nat /\ MaxStarts \in Nat
    /\ NULL \notin Timers

VARIABLES
    life,       \* how far start() or stop() is with the shared instance
    timers,     \* timers_
    next,       \* next[t]: next_fire_time_: "zero", "later" or "past"
    repeat,     \* repeat[t]: repeat_
    lock,       \* holder of mutex_, or NULL
    cells,      \* op_queue_: every index claimed by a writer, "claimed" or "filled"
    got,        \* get_index_
    set,        \* op_event_ is signalled
    running,    \* is_running_ of process_thread, set by the timer thread when it begins
    spc, at,    \* the timer thread, and its place in timers_
    wpc, has,   \* a worker, and the index it has claimed
    fills,      \* fills[x]: the index a thread has claimed and is to fill
    cpc, ct,    \* a client's or a callback's call, and the timer it is about
    starts,     \* timer starts so far
    runs,       \* ghost: runs[i]: how often operation i was called
    missed,     \* ghost: the timer thread had not begun when stop() looked at is_running_
    attached,   \* ghost: timers started and not reset since
    fired       \* ghost: fired[t]: firings by check_timers since t was detached

timerVars == <<timers, next, repeat, attached, fired>>
queueVars == <<cells, set>>
vars == <<life, timerVars, lock, queueVars, got, running, spc, at, wpc, has, fills, cpc, ct, starts,
          runs, missed>>

TimerThread == "timer thread"
Users == Workers \cup Clients
Threads == Users \cup {TimerThread}

ASSUME ThreadsAssumption ==
    /\ Workers \cap Clients = {}
    /\ TimerThread \notin Users /\ NULL \notin Users /\ TimerThread # NULL

InstanceThere == life \notin {"none", "gone"}
SchedEventThere == life \in {"event", "up", "joining"}
QueueThere == life \in {"up", "joining", "stopping"}
OpEventThere == life \in {"up", "joining", "stopping", "unqueued"}
stop_process_threads_ == life \in {"stopping", "unqueued", "gone"}

Init ==
    /\ life = "none"
    /\ timers = <<>> /\ next = [t \in Timers |-> "zero"] /\ repeat = [t \in Timers |-> FALSE]
    /\ lock = NULL
    /\ cells = <<>> /\ got = 0 /\ set = FALSE
    /\ running = FALSE /\ spc = "off" /\ at = 0
    /\ wpc = [w \in Workers |-> "off"] /\ has = [w \in Workers |-> 0]
    /\ fills = [x \in Threads |-> 0]
    /\ cpc = [x \in Users |-> "idle"] /\ ct = [x \in Users |-> NULL]
    /\ starts = 0
    /\ runs = [i \in 1..MaxOps |-> 0] /\ missed = FALSE
    /\ attached = {} /\ fired = [t \in Timers |-> 0]

-----------------------------------------------------------------------------
(* tqueue::post_msg_mul and dispatch                                       *)

\* bound: there is room for one more operation besides those that are due
Room == Len(cells) + Cardinality({t \in Timers : next[t] = "past"}) < MaxOps

Claim(x) ==
    /\ QueueThere
    /\ cells' = Append(cells, "claimed")
    /\ fills' = [fills EXCEPT ![x] = Len(cells) + 1]

\* the cell is filled and op_event_ set
Fill(x) ==
    /\ QueueThere /\ OpEventThere
    /\ cells' = [cells EXCEPT ![fills[x]] = "filled"]
    /\ fills' = [fills EXCEPT ![x] = 0]
    /\ set' = TRUE

-----------------------------------------------------------------------------
(* Calls, by clients and by the operations the workers call                *)

\* a call that finds the instance: shared_instance() asks for no more than that
Enter(x) ==
    /\ cpc[x] = "idle" /\ InstanceThere
    /\ x \in Workers => wpc[x] = "call"

\* assumed: no two threads have a call about timer t at one time
Alone(x, t) == \A y \in Users \ {x} : ct[y] # t

Done(x) == cpc' = [cpc EXCEPT ![x] = "idle"] /\ ct' = [ct EXCEPT ![x] = NULL]

callFrame == <<life, got, running, spc, at, wpc, has, runs, missed>>

Dispatch(x) ==
    /\ Enter(x)
    /\ Room /\ Claim(x)
    /\ cpc' = [cpc EXCEPT ![x] = "fill"]
    /\ UNCHANGED <<callFrame, timerVars, lock, set, ct, starts>>

DispatchFill(x) ==
    /\ cpc[x] = "fill"
    /\ Fill(x)
    /\ Done(x)
    /\ UNCHANGED <<callFrame, timerVars, lock, starts>>

\* set_timer, on a timer that may be attached, and without the mutex: repeat_ ...
SetTimer(x, t) ==
    /\ Enter(x) /\ Alone(x, t) /\ starts < MaxStarts
    /\ \E r \in BOOLEAN : repeat' = [repeat EXCEPT ![t] = r]
    /\ cpc' = [cpc EXCEPT ![x] = "setting"] /\ ct' = [ct EXCEPT ![x] = t]
    /\ starts' = starts + 1
    /\ UNCHANGED <<callFrame, timers, next, attached, fired, lock, queueVars, fills>>

\* ... then next_fire_time_
SetTimerEnd(x) ==
    /\ cpc[x] = "setting"
    /\ next' = [next EXCEPT ![ct[x]] = "zero"]
    /\ cpc' = [cpc EXCEPT ![x] = "set"]
    /\ UNCHANGED <<callFrame, timers, repeat, attached, fired, lock, queueVars, fills, ct,
                   starts>>

\* detach_timer erases the first entry of the timer
Detached(t) ==
    IF t \in ToSet(timers)
    THEN RemoveAt(timers, CHOOSE i \in DOMAIN timers :
                              timers[i] = t /\ \A j \in 1..i - 1 : timers[j] # t)
    ELSE timers

\* start(): reset() ...
StartReset(x) ==
    /\ cpc[x] = "set" /\ lock = NULL /\ InstanceThere
    /\ timers' = Detached(ct[x])
    /\ attached' = attached \ {ct[x]} /\ fired' = [fired EXCEPT ![ct[x]] = 0]
    /\ cpc' = [cpc EXCEPT ![x] = "detached"]
    /\ UNCHANGED <<callFrame, next, repeat, lock, queueVars, fills, ct, starts>>

\* ... then attach_timer, up to the signal to the timer thread
Attach(x) ==
    /\ cpc[x] = "detached" /\ lock = NULL /\ InstanceThere
    /\ lock' = x
    /\ next' = [next EXCEPT ![ct[x]] = "later"]
    /\ timers' = Append(timers, ct[x])
    /\ attached' = attached \cup {ct[x]}
    /\ cpc' = [cpc EXCEPT ![x] = "signal"]
    /\ UNCHANGED <<callFrame, repeat, fired, queueVars, fills, ct, starts>>

\* schedule_event_->set(): the timer thread's waits are short, so it is not kept
AttachSignal(x) ==
    /\ cpc[x] = "signal" /\ SchedEventThere
    /\ lock' = NULL
    /\ Done(x)
    /\ UNCHANGED <<callFrame, timerVars, queueVars, fills, starts>>

Reset(x, t) ==
    /\ Enter(x) /\ Alone(x, t) /\ lock = NULL
    /\ timers' = Detached(t)
    /\ attached' = attached \ {t} /\ fired' = [fired EXCEPT ![t] = 0]
    /\ UNCHANGED <<callFrame, next, repeat, lock, queueVars, fills, cpc, ct, starts>>

\* fire_timer: dispatch with the mutex in hand, whether attached or not
Fire(x, t) ==
    /\ Enter(x) /\ Alone(x, t) /\ lock = NULL
    /\ Room /\ Claim(x)
    /\ lock' = x
    /\ cpc' = [cpc EXCEPT ![x] = "fire"] /\ ct' = [ct EXCEPT ![x] = t]
    /\ UNCHANGED <<callFrame, timerVars, set, starts>>

FireFill(x) ==
    /\ cpc[x] = "fire"
    /\ Fill(x)
    /\ next' = [next EXCEPT ![ct[x]] = "later"]
    /\ lock' = NULL
    /\ Done(x)
    /\ UNCHANGED <<callFrame, timers, repeat, attached, fired, starts>>

CallStep(x) ==
    \/ DispatchFill(x) \/ SetTimerEnd(x) \/ StartReset(x) \/ Attach(x) \/ AttachSignal(x)
    \/ FireFill(x)

Call(x) ==
    \/ Dispatch(x)
    \/ \E t \in Timers : SetTimer(x, t) \/ Reset(x, t) \/ Fire(x, t)

-----------------------------------------------------------------------------
(* The timer thread: run and check_timers                                  *)

timerFrame == <<life, got, wpc, has, cpc, ct, starts, runs, missed, repeat, attached>>

\* _thread_proc
TimerBegins ==
    /\ spc = "born" /\ InstanceThere
    /\ running' = TRUE /\ spc' = "loop"
    /\ UNCHANGED <<timerFrame, timers, next, fired, queueVars, fills, lock, at>>

\* reset() and wait(20) on schedule_event_ or sleep(1) is over, or the thread has
\* just begun, and is_running_ is tested next
AtLoopTest ==
    \/ spc = "wait" /\ SchedEventThere
    \/ spc = "loop" /\ InstanceThere

CheckTimers ==
    /\ AtLoopTest /\ running /\ lock = NULL
    /\ lock' = TimerThread
    /\ at' = 1 /\ spc' = "scan"
    /\ UNCHANGED <<timerFrame, running, timers, next, fired, queueVars, fills>>

\* the time of the timer at hand is up
TimeIsUp == spc = "scan" /\ at <= Len(timers) /\ next[timers[at]] = "past"

ScanPast ==
    /\ TimeIsUp
    /\ Claim(TimerThread)
    /\ fired' = [fired EXCEPT ![timers[at]] = @ + 1]
    /\ spc' = "fill"
    /\ UNCHANGED <<timerFrame, running, timers, next, set, lock, at>>

\* mutant: a timer that does not repeat is not erased
RearmAlways(t) ==
    next' = [next EXCEPT ![t] = "later"] /\ at' = at + 1 /\ timers' = timers

\* what follows for timer t once it has fired, or was found at zero
Rearm(t) ==
    IF repeat[t]
    THEN next' = [next EXCEPT ![t] = "later"] /\ at' = at + 1 /\ timers' = timers
    ELSE next' = [next EXCEPT ![t] = "zero"] /\ at' = at /\ timers' = RemoveAt(timers, at)

ScanFill ==
    /\ spc = "fill"
    /\ Fill(TimerThread)
    /\ Rearm(timers[at])
    /\ spc' = "scan"
    /\ UNCHANGED <<timerFrame, running, fired, lock>>

\* the time is not up, or set_timer has cleared it
ScanOther ==
    /\ spc = "scan" /\ at <= Len(timers)
    /\ \/ next[timers[at]] = "zero" /\ Rearm(timers[at])
       \/ next[timers[at]] = "later" /\ at' = at + 1 /\ UNCHANGED <<next, timers>>
    /\ UNCHANGED <<timerFrame, running, fired, queueVars, fills, spc, lock>>

ScanEnd ==
    /\ spc = "scan" /\ at > Len(timers)
    /\ lock' = NULL
    /\ at' = 0 /\ spc' = IF timers = <<>> THEN "wait" ELSE "loop"
    /\ UNCHANGED <<timerFrame, running, timers, next, fired, queueVars, fills>>

LoopEnd ==
    /\ AtLoopTest /\ ~running
    /\ spc' = "off"
    /\ UNCHANGED <<timerFrame, running, timers, next, fired, queueVars, fills, lock, at>>

TimerStep ==
    \/ TimerBegins \/ CheckTimers \/ ScanPast \/ ScanFill \/ ScanOther \/ ScanEnd
    \/ LoopEnd

\* it matters for the timers in timers_ only
TimePasses(t) ==
    /\ next[t] = "later" /\ t \in ToSet(timers) /\ Room
    /\ next' = [next EXCEPT ![t] = "past"]
    /\ UNCHANGED <<timerFrame, running, timers, fired, queueVars, fills, lock, spc, at>>

-----------------------------------------------------------------------------
(* The workers: process_message and tqueue::get_msg_mul                    *)

\* where the test of stop_process_threads_ leads
AfterTest == IF stop_process_threads_ THEN "off" ELSE "top"

workerFrame == <<life, timerVars, lock, running, spc, at, cpc, ct, starts, missed>>

\* mutant: the index is read and increased without the exchange
WorkerClaimBlind(w) ==
    /\ wpc[w] = "top"
    /\ got < Len(cells)
    /\ \E old \in {got, got - 1} \cap Nat :
          /\ has' = [has EXCEPT ![w] = old + 1]
          /\ got' = old + 1
    /\ wpc' = [wpc EXCEPT ![w] = "spin"]
    /\ UNCHANGED <<workerFrame, queueVars, fills, runs>>

WorkerClaim(w) ==
    /\ wpc[w] = "top"
    /\ got < Len(cells)
    /\ has' = [has EXCEPT ![w] = got + 1]
    /\ got' = got + 1
    /\ wpc' = [wpc EXCEPT ![w] = "spin"]
    /\ UNCHANGED <<workerFrame, queueVars, fills, runs>>

\* the cell is filled: call the operation
WorkerCall(w) ==
    /\ wpc[w] = "spin" /\ cells[has[w]] = "filled"
    /\ runs' = [runs EXCEPT ![has[w]] = @ + 1]
    /\ has' = [has EXCEPT ![w] = 0]
    /\ wpc' = [wpc EXCEPT ![w] = "call"]
    /\ UNCHANGED <<workerFrame, queueVars, got, fills>>

CallbackReturns(w) ==
    /\ wpc[w] = "call" /\ cpc[w] = "idle"
    /\ wpc' = [wpc EXCEPT ![w] = AfterTest]
    /\ UNCHANGED <<workerFrame, queueVars, got, has, fills, runs>>

WorkerNothing(w) ==
    /\ wpc[w] = "top"
    /\ got >= Len(cells)
    /\ wpc' = [wpc EXCEPT ![w] = "reset"]
    /\ UNCHANGED <<workerFrame, queueVars, got, has, fills, runs>>

\* op_event_->reset(), then wait(20)
WorkerReset(w) ==
    /\ wpc[w] = "reset"
    /\ set' = FALSE
    /\ wpc' = [wpc EXCEPT ![w] = "wait"]
    /\ UNCHANGED <<workerFrame, cells, got, has, fills, runs>>

\* mutant: the wait has no timeout
WorkerWaitUntimed(w) ==
    /\ wpc[w] = "wait" /\ set
    /\ wpc' = [wpc EXCEPT ![w] = AfterTest]
    /\ UNCHANGED <<workerFrame, queueVars, got, has, fills, runs>>

\* the event is set or the wait times out (or the thread begins)
WorkerWait(w) ==
    /\ wpc[w] = "wait"
    /\ wpc' = [wpc EXCEPT ![w] = AfterTest]
    /\ UNCHANGED <<workerFrame, queueVars, got, has, fills, runs>>

WorkerStep(w) ==
    \/ WorkerClaim(w) \/ WorkerCall(w) \/ CallbackReturns(w)
    \/ WorkerNothing(w) \/ WorkerReset(w) \/ WorkerWait(w)

-----------------------------------------------------------------------------
(* shared_instance, start, release_instance and stop                       *)

lifeFrame == <<timerVars, lock, queueVars, got, at, has, fills, cpc, ct, starts, runs>>

\* the instance is there for everyone to see; start() follows
Create ==
    /\ life = "none"
    /\ life' = "made"
    /\ UNCHANGED <<lifeFrame, running, missed, spc, wpc>>

StartTimerThread ==
    /\ life = "made"
    /\ life' = "event" /\ spc' = "born"
    /\ UNCHANGED <<lifeFrame, running, missed, wpc>>

\* op_queue_ and op_event_, then the workers: a thread that begins tests the flag
\* as one whose wait is over does
StartWorkers ==
    /\ life = "event"
    /\ life' = "up" /\ wpc' = [w \in Workers |-> "wait"]
    /\ UNCHANGED <<lifeFrame, running, missed, spc>>

\* release_instance calls stop(), and that process_thread::stop(): after 10 ms at
\* most, a timer thread that is running is told to end; one that has not begun is
\* not joined, schedule_event_ is deleted and the workers are told to end
Release ==
    /\ life = "up"
    /\ life' = IF running THEN "joining" ELSE "stopping"
    /\ running' = FALSE /\ missed' = (spc = "born")
    /\ UNCHANGED <<lifeFrame, spc, wpc>>

\* the timer thread is joined, schedule_event_ deleted, the workers told to end
StopTimerThread ==
    /\ life = "joining" /\ spc = "off"
    /\ life' = "stopping"
    /\ UNCHANGED <<lifeFrame, running, missed, spc, wpc>>

\* mutant: only one of the workers is joined
StopJoinOne ==
    /\ life = "stopping" /\ \E w \in Workers : wpc[w] = "off"
    /\ life' = "unqueued"
    /\ UNCHANGED <<lifeFrame, running, missed, spc, wpc>>

\* the workers are joined, and op_queue_ is deleted
StopJoin ==
    /\ life = "stopping" /\ \A w \in Workers : wpc[w] = "off"
    /\ life' = "unqueued"
    /\ UNCHANGED <<lifeFrame, running, missed, spc, wpc>>

\* delete op_event_ and the instance
StopDelete ==
    /\ life = "unqueued"
    /\ life' = "gone"
    /\ UNCHANGED <<lifeFrame, running, missed, spc, wpc>>

LifeStep ==
    \/ StartTimerThread \/ StartWorkers
    \/ StopTimerThread \/ StopJoin \/ StopDelete

-----------------------------------------------------------------------------
Next ==
    \/ \E x \in Users : Call(x) \/ CallStep(x)
    \/ TimerStep
    \/ \E t \in Timers : TimePasses(t)
    \/ \E w \in Workers : WorkerStep(w)
    \/ Create \/ Release \/ LifeStep

Spec == Init /\ [][Next]_vars

\* Threads that can run do, timed waits end, callbacks return and time passes.
\* A call gets the mutex in the end, though the timer thread takes it again and
\* again (SF).  Nobody has to call or to release the scheduler.
FairSpec ==
    /\ Spec
    /\ WF_vars(TimerStep) /\ WF_vars(LifeStep)
    /\ \A x \in Users : SF_vars(CallStep(x))
    /\ \A w \in Workers : WF_vars(WorkerStep(w))
    /\ \A t \in Timers : WF_vars(TimePasses(t))

-----------------------------------------------------------------------------
\* Every variable keeps its type, and no worker is ahead of the writers.
TypeOK ==
    /\ timers \in Seq(Timers) /\ next \in [Timers -> {"zero", "later", "past"}]
    /\ repeat \in [Timers -> BOOLEAN]
    /\ set \in BOOLEAN /\ running \in BOOLEAN /\ missed \in BOOLEAN
    /\ got \in 0..Len(cells) /\ Len(cells) <= MaxOps
    /\ has \in [Workers -> 0..MaxOps] /\ fills \in [Threads -> 0..MaxOps]
    /\ fired \in [Timers -> Nat] /\ runs \in [1..MaxOps -> Nat]

\* Whenever clients and callbacks call, no worker and no operation it calls
\* outlives op_queue_ or op_event_.  The timer thread outlives schedule_event_
\* only when it had not begun as stop() looked for it, and comes to dispatch
\* without op_queue_ and op_event_ only in that case or before start() has made
\* them, for a timer attached by then.
UsersSafe ==
    /\ \A w \in Workers : wpc[w] # "off" => QueueThere /\ OpEventThere
    /\ spc \notin {"off", "born"} /\ ~SchedEventThere => missed
    /\ (TimeIsUp \/ spc = "fill") /\ ~(QueueThere /\ OpEventThere) => missed \/ life = "event"

\* Every operation taken from the queue is in the hands of one worker or has
\* been called once, and none is called that nobody has taken.
OpsRunOnce ==
    \A i \in 1..MaxOps :
        (IF \E w \in Workers : has[w] = i THEN 1 ELSE 0) + runs[i] = (IF i <= got THEN 1 ELSE 0)

\* some thread is in set_timer(), or between it and the reset() of start()
BeingSet(t) == \E x \in Users : cpc[x] \in {"setting", "set"} /\ ct[x] = t

\* A timer is in timers_ at most once, so that one reset takes it off; one that
\* is reset does not fire until it is started again; and one that does not
\* repeat fires once for a start, whatever fire() and set_timer do meanwhile.
TimersFireAsSet ==
    /\ \A i, j \in DOMAIN timers : timers[i] = timers[j] => i = j
    /\ \A t \in Timers : /\ t \notin attached => fired[t] = 0
                         /\ ~repeat[t] /\ ~BeingSet(t) => fired[t] <= 1

\* While the scheduler is up, the operations that are dispatched are called, though
\* several workers reset the one event; a timer that is started fires or is
\* reset (or the bound on operations is met); and once stop() has begun it
\* returns, unless some thread's attach_timer has come too late for
\* schedule_event_, which is deleted while callbacks still run.
EventuallyDone ==
    /\ (\E i \in 1..Len(cells) : runs[i] = 0) ~>
          (life # "up" \/ \A i \in 1..Len(cells) : runs[i] = 1)
    /\ \A t \in Timers :
          (t \in attached) ~> (fired[t] > 0 \/ t \notin attached \/ life # "up" \/ ~Room)
    /\ (life \in {"joining", "stopping"}) ~>
          \/ life = "gone"
          \/ \E x \in Users : cpc[x] = "signal" /\ ~SchedEventThere
=============================================================================
