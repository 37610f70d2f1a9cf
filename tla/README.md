# Formal models of cube

This directory holds TLA+ models of the concurrent parts of cube: the lock-free
queue, the processor threads, the trade server built on them, the scheduler, the
database pool, and eco's message server and log. TLC checks the models on small
instances; TLAPS proves the central safety properties for all sizes.

## 1. The system

cube is a set of C++ server libraries (`src/library`) and programs built on them
(`src/project`). The program with the most concurrency of its own is **ctp_trade**,
a gateway between clients and a futures broker:

```
 clients -> trade_server::dispatch_message --+--> query_processor (thread, srt_queue) --+
                  ^                          +--> trade_processor (thread, srt_queues) -+
                  |                                    |  db_conn_pool                  v
        broker API callbacks <-> trade_unit (thread, srt_queue), one per account <- dispatch_message
                  |
                  +--> response thread (srt_queue) -> clients
```

Every box owns a `base::srt_queue` (many producers, one consumer), a `base::event`
to sleep on and a `base::process_thread`. Messages carry a reference-counted
dictionary (`ref_dictionary`). `base` also has a dispatcher with timers
(`dispatch_scheduler` over `tqueue`). **eco** (`src/project/eco`) is a second
application framework: its servers are a bounded `MessageQueue` and a pool of worker
threads, and its log is a server of that kind with a queue of its own.

| Component | State | Operations | What is hard | What makes it correct |
|---|---|---|---|---|
| `srt_queue` (`mqueue.h`) | `post_index_`, `get_index_`, ring of page pointers, pages of cells with a flag | `push`, `pop`, `get_msg_page` | no lock around the full test, the claim, the page lookup and the freeing of pages | FIFO of what was claimed; no freed page touched; no page leaked |
| `process_thread`, `event` | `is_running_`, `thread_`, `event_` | `start`, `stop`, `set`, `reset`, `wait` | a stop that races with the start; signals erased by `reset` | the thread is gone when `stop` returns; no wakeup lost for good |
| processors (`processor_base`, `query_processor`) | `started_`, queue, event | `start`, `post`, `stop`, `run` | `post` by other threads during `stop` and deletion | nothing freed is used; each message released once |
| `query_processor` | `wait_match_queue_`, collected records per account | one handler per command, timeouts | late, partial, missing and failed answers | one answer per query, about the right order; references balanced |
| `trade_processor` | `withdraw_queue_`, `withdraw_wait_queue_` | `process_withdraw`, `process_order_status_response`, `stop` | waiters without a timeout; a dictionary shared with the unit; the stop order | one fate per withdrawal; withdrawals go first; references balanced |
| `trade_unit` | `connected_`, `logined_`, `m_conn_state`, `m_last_respond` | `run`, `MakeActive`, `trade_reconnect`, API callbacks | two threads write the flags without a lock; the watchdog races with the API's own reconnect | the session comes up again; a connect is given its time |
| `trade_server` | `started_`, `rsp_queue_` | `dispatch_message`, `process_rsp`, `start`, `stop` | the order in which `stop` takes the parts down | no answer printed twice, stop ends |
| `dispatch_scheduler`, `timer`, `tqueue` | `timers_`, operation queue, two events | `dispatch`, `set_timer`, `start`, `reset`, `fire`, `check_timers` | several readers and one event; timers changed without the mutex; start and stop order | operations run once; timers fire as set; nothing deleted is used |
| `db_conn_pool`, `dbscope` | `m_vec_conn`, `db_`, status and transaction of a connection | `getconn`, `retconn`, `alarm_callback` | the alarm rebuilds the pool in two steps; dropped connections | one user per connection; no transaction handed on |
| eco `MessageServer`, `MessageQueue` | bounded deque, two condition variables | `post`, `post_unique`, `pop`, `close`, `release`, `join` | `notify_one` with several waiters; close against blocked threads | no wake-up lost; each message in one place |
| eco log | packs available and to be logged, capacity | `post`, `pop`, `close` | packs recycled while one is filled; close without the mutex | texts reach the sinks once and in order |

The other libraries (`asio`, `fndnet`, `liblight`, `utility`, ...) and programs are
listed in `PROJECT.json` with the reason they are left out.

## 2. Modules

| Module | Models |
|---|---|
| `SrtQueue` | `srt_queue`, one action per shared memory access |
| `MpscFifo` | what `srt_queue` promises: a FIFO in which a place is reserved, filled and delivered |
| `ProcessorThread` | life of a processor: owner thread, its own thread, posting threads |
| `QueryProcessor` | the handlers of `query_processor`, with clients, trade units, broker and clock as environment |
| `TradeProcessor` | `trade_processor` composed with the dispatch, response thread and stop of `trade_server` and with the unit's end of a request |
| `TradeUnit` | the session of a `trade_unit`: `run()` against the API's callback thread |
| `DispatchScheduler` | `dispatch_scheduler` with its timer thread and workers, `timer`, and the multi-reader operations of `tqueue` |
| `DbPool` | `db_conn_pool` with its alarm thread, and the users' `dbscope` |
| `MessageServer` | eco's `MessageServer` over `MessageQueue` |
| `LogQueue` | eco's `log::Queue` with `log::Server` and the run and stop of the core |
| `*Proofs` | theorems about the module they are named after; `TradeProofs` about `TradeProcessor` and `TradeUnit` |
| `MC*` | TLC instances: symmetry sets and constant tables only, bounds are in the `.cfg` files |

`SrtQueue` uses the code's names: `post_index`, `get_index`, `page_indexes`. `heap`
holds the live pages, so that a freed page is a pointer outside its domain; `home`
(the logical page a page was allocated for), `tickets` and `delivered` are
auxiliary. The locked region of `get_msg_page` is one step, because its only shared
accesses are a test and a store that nobody else performs without the lock, except
`pop()`'s reset of a page it owns. Stores are taken in program order: the code puts
`base_memory_fence()` between message and flag and targets x86. Neither index wraps:
both are 64 bits wide. A read through a dangling pointer is a property violation, so
what it would return is not modelled further.

`ProcessorThread` treats the queue as the FIFO that `SrtQueue` implements and a
handler as one step. `opc`, `wpc` and `ppc` are the control points of the three
kinds of thread. The two stops of a processor (the server's and the destructor's)
are two passes over the same actions. The event is modelled with its counter, and
with the path of `wait` that does not consume the signal it was woken by.

`QueryProcessor` keeps of a dictionary its command, its account and the order number
it asks about, and of a broker record its order number and whether its code is valid:
`process_rsp_deal` takes records with an invalid one out of the copy it sends. What the
unit does with a request is three actions, as in `trade_unit::run`: it sends it or fails
and posts an error, and then releases the dictionary. One action is one turn of `run()`: handlers touch only state of their own thread, except the reference counts
(modelled per dictionary in `refs`) and the reply queue (`out`, kept per query).
`wait_match_queue_` is a set: it is always walked from end to end, and replies to
different queries do not depend on each other. `left` is the time a waiter still has.
`lost` counts references the code drops without a release. Clients use a queryid
once. The model goes from a running server to `Stop` in one step: the short time in
which the server flag is down but the thread still finishes a handler, whose messages
`dispatch_message` then releases, belongs to `ProcessorThread` and `TradeProcessor`.

`TradeProcessor` names a withdrawal by its request. `row` is what `process_withdraw`
asks of the entrust table: no row, a row that can be withdrawn, or one it refuses.
`withdraw_wait_queue_` and `rsp_queue_` are sets, for the same reason as above. Which
order statuses arrive, and how often, is input. Events are left out, since every wait
on them ends after 20 ms. An answered waiter is erased without a release
(`trade_processor.cpp:395`), and a request for an account without a unit loses its
reference (`trade_server.cpp:273`): `lost` counts both. `fate` and `overtaken` are
auxiliary. Messages are posted until the processor is stopped (`CanPost`): the server
stops it after the response thread, and a dispatch is assumed to be done by then.

`TradeUnit` counts time in seconds. `age` is the clock minus `m_last_respond`; the
code compares it with 5 s and 10 s only, so it is capped just above. `session` is
what the API object has reported. The callbacks that merely note the time (more than
a dozen) are one action, `OnPush`. `trade_reconnect` is two steps, because callbacks
of the old object can still arrive until `Release()` returns. `fresh` (the API object has
not called back) and `overwritten` (a callback of the one before it came in between) are
auxiliary. `OnRspUserLogout` (`trade_unit.cpp:640`) would change the flags too; it is left
out because no logout is ever requested. What of the CTP library
is not in the repository (the front, the clock, the market phase) is free up to the
bounds.

`DispatchScheduler`: `life` runs through `start()` and `stop()` in the order of their
statements. The timer thread is created there and begins when it likes; `stop()` joins it
if it has begun, as `process_thread::stop` does, and goes on without it otherwise
(`missed`). Clients call at any time the instance is there, and so do the operations that
the workers call: they dispatch, set, start, fire and reset timers. `spc`, `wpc` and `cpc`
are the control points of the timer thread, the workers and the calls; `lock` is `mutex_`, held where the code dispatches inside
it. An operation is its index in the queue, claimed and filled in two steps. Of a
timer's next fire time only zero, future and past matter. The timer thread's event is
left out because its waits last 20 ms at most. A thread that comes to an object that is
not there stops at that point: what the program would do is undefined.

`DbPool`: `Conns` are addresses, which a later connection may get again; `live` are
the allocated ones, `up` those the server still answers. `getconn` is one action per
outcome. A connection found dead by `getconn` is marked EXCEPTION and stays in the
vector until the alarm. The alarm frees every entry whenever it rings, in use or not. A
dbscope that holds one of them then has a dangling pointer: what it calls through that
ends the process or does nothing (`RetFreed`), until the address belongs to a newer
connection, which the dbscope then uses, rolls back and returns as its own. `tainted`
follows these addresses until nobody holds them; it is auxiliary. The alarm's second may
be missed by the 1 s sleep: alarms are not fair.

`MessageServer` and `LogQueue`: an action is one stretch that a thread runs while it
has the mutex, up to its release or its wait. A notified thread is "woken" and still
has to get the mutex; waits may also end for no reason (eco has the Windows condition
variables only). `LogQueue` gives the close,
which takes no mutex, a place between the log thread's test and its wait. Its texts
are post numbers with a size, and a text that does not fit is `cut`, as
`FixBuffer::append` does. "Logged" means handled by the log thread: `Core::run` starts
that thread (`Core.cpp:160`) just before it makes the sinks (166-181), and the handler
skips a sink that is not there, so texts posted in this instant go nowhere.

## 3. Runs

Bounds are CONSTANTS named in the modules. All runs switch off TLC's deadlock check,
because the bounded environment, and a stopped server, really come to rest.

| Run | Property | Instance and why it is enough |
|---|---|---|
| `srt_queue` | no dangling access, claim order, no wrap-around, pages accounted, bounded overshoot, refinement of `MpscFifo`, every claimed index is popped | 2 producers, pages of 2, ring of 2, 3 pushes each: six messages through four cells, so pages are filled, freed and reused and pushes are refused |
| `srt_queue_three_unsafe` | **violated**: `NoDanglingAccess` | 3 producers, 2 pushes each: the reserve page is not enough |
| `processor_thread` | `WorkerSafe`, `StopEndsThread`, `ReleasedOnce`, `EventuallyHandled`, `StopReturns` | 2 posters, 2 messages each: posts before, during and after stop |
| `processor_thread_posts` | **violated**: `PostersSafe` | 2 posters, 1 message each; threads start in time, but nothing keeps a dispatch from meeting the stop |
| `query_processor` | `RefsAccounted`, `OnlyErrorsComeLate`, `CheckerGetsItsOrder`, `EventuallyAnswered`, `EventuallyForgotten` | 2 queries, 2 accounts, one of them without a unit, an order asked about and one that nobody asks about, 2 records: two requests wait for one answer, answers come in two parts, late, with an invalid code or not at all, and requests are dropped. Of the commands one for each way to be handled; `checker_entrust` is handled as `checker_deal` is, without the removal of records, and the proofs cover both |
| `trade_processor` | `OneFate`, `RefsAccounted`, `OvertakenOnce`, `EventuallyDecided` | 2 withdrawals, of the same order or not; one order whose account has no unit; one order that may be missing from the table; 2 other messages, so a status is repeated and a withdrawal can be overtaken; a stop at any point |
| `trade_unit` | `ConnectGetsTime`, `EventuallyReady`, `EventuallySent`, `StaleLoginRepaired` | 2 faults: a second one while the first is being repaired; one change of the market phase |
| `dispatch_scheduler` | `UsersSafe`, `OpsRunOnce`, `TimersFireAsSet`, `EventuallyDone` | 2 workers as in the code, 1 client, 1 timer started up to twice, 2 operations: two workers race for one index, a one-shot timer could fire twice, a restart meets a scan, a callback handles the timer while `stop()` runs |
| `db_pool` | `UsersSafe`, `PoolTruthful`, `PoolBounded` | 3 users for a pool of 1, 4 addresses, 2 alarms, 2 dropped connections: the pool grows, an alarm frees what two users hold, one gets the address of the other's old connection, which the other returns and a third is handed, a connection dies in use and idle; users and connections are interchangeable (symmetry) |
| `message_server` | `Accounted`, `WakeUpsSuffice`, `EventuallyServed`, `StopReturns` | 2 producers, 2 workers, 1 place, 3 messages with 2 keys, 2 runs: both condition variables have two waiters, and the server is stopped, released and run again |
| `log_queue` | `TextsComeThrough`, `PacksAccounted`, `EventuallyLogged` | 2 posters, packs of 2, first 1 pack, then 2, 4 texts of size 1 or 2, 1 exception: packs fill, time out and come back, posters wait |
| `log_queue_close` | **violated**: `AllLoggedAtClose` | 3 texts, no faults, posting over before the close |

The violated properties are findings: `PROJECT.json` quotes the comment each one
comes from.

- `push()` is called multithread safe. It is for two producers (proved). Three that pass
  the full test together, while `pop()` is on the last cell of a page, claim one index
  too many. This needs a full ring and is therefore remote in practice. (The comment at
  `mqueue.h:44` gives the capacity as all pages of the ring; `push()` keeps one page
  free and refuses earlier.)
- `post()` of a processor is called multithread safe (`processor_base.h:40`). A thread that
  has passed the test of `started_` (`query_processor.cpp:62`) may signal the event after
  `stop()` has deleted it: `stop()` waits for the processor's own thread only.
- Closing eco's log queue is to log all its data (`Queue.h:85`). The pack that is being
  filled stays behind: `pop()` returns as soon as the full packs are out.

### Assumptions, and what happens without them

Some properties hold only under an assumption the code relies on and does not
enforce. The first four are CONSTANTS of their modules, TRUE in the passing runs;
setting one to FALSE in the `.cfg` shows the case. The other two are conjuncts of guards.

| Assumption | Without it |
|---|---|
| `PromptStart` (`ProcessorThread`): a thread starts within 10 ms | `StopEndsThread` fails: `process_thread::stop` sleeps 10 ms once (`thread.cpp:152`) and misses a thread that comes later |
| `PromptPost` (`ProcessorThread`): a dispatch ends before its processor is freed | the last half of `ReleasedOnce` fails: a message pushed after `release_messages` stays behind. `PostersSafe` fails too: that is the run `processor_thread_posts`, where it is FALSE |
| `ReleaseOpen` (`MessageServer`): `release` is called on an open queue only | `WakeUpsSuffice` and `EventuallyServed` fail: after a close, `raw_close` returns early (`MessageQueue.h:149`) and blocked producers are not told of the room |
| `QuietClose` (`LogQueue`): posting is over before `close` (FALSE in `log_queue`, TRUE in `log_queue_close`) | nothing that `log_queue` checks; `AllLoggedAtClose` fails with it already |
| `Alone` (`DispatchScheduler`): no two threads have a call about one timer at one time | `TimersFireAsSet` fails: two starts detach and attach in turn and leave the timer in `timers_` twice (`timer.cpp:51-53`) |
| `CanPost` (`TradeProcessor`): a dispatch has posted before the processor is stopped | `EventuallyDecided` fails: `dispatch_message` tests `started_` once (`trade_server.cpp:224`), and what it posts after `release_messages` is never looked at |

Six further formulas are stated in the modules and do not hold of the code; adding one
to the `.cfg` of its module's run gives the trace (`UniqueStaysUnique` needs a queue of
two places and four messages).

- `ReplyIsForItsAccount` (`QueryProcessor`): an account or position answer goes to
  every waiting query of that kind, whatever its account (`query_processor.cpp:329`).
- `CheckerRepliesPosted` (`QueryProcessor`): replies to checker pulls have no case in
  `dispatch_message` and are dropped (`trade_server.cpp:285`).
- `FlagsMeanLoggedIn` (`TradeUnit`): `logined_` survives a disconnect, so the
  reconnected session is used without a login (`trade_unit.cpp:531`) until 10 s of
  silence have the API object rebuilt (`StaleLoginRepaired` shows that this happens).
- `NoUserLosesItsConnection` (`DbPool`): the alarm deletes connections in use
  (`unidbpool.cpp:144`). What is true of it, how far the harm goes, is `UsersSafe`. A user
  that comes between the alarm's two halves keeps its connection, which is then leaked.
- `ConnHasDb` (`DbPool`): once the alarm has failed to open the database again, the
  next `getconn` trips the assertion in `unidb_conn`'s constructor (`unidb.cpp:113`).
- `UniqueStaysUnique` (`MessageServer`): `post_unique` may wait for room after its
  search (`MessageQueue.h:108`), so two equal messages can end up in the queue, although
  the comment at line 95 says that it ensures uniqueness.

Three properties state an exception that the code has, and would be false without it:
`CheckerGetsItsOrder` (a deal reply whose matching record was taken out for its invalid
code, `query_processor.cpp:557`), `ConnectGetsTime` (an old object's callback between
`trade_unit.cpp:327` and 330), and `UsersSafe` of `DispatchScheduler` (a timer thread that
begins after `stop()` has looked for it, or dispatches before `start()` has made the
queue). Nothing can be said for two kinds of calls into the scheduler, and nothing is: a
client that calls while `start()` or `stop()` runs meets a queue that is not there
(`dispatch.cpp:48`, 128), and a callback that starts a timer after `stop()` has deleted
`schedule_event_` (114) signals a deleted event (146); `EventuallyDone` excepts the second.

`ConnectTicks = 7` is the slowest front for which `trade_unit` holds: a connect
is given 3 s of grace and 5 s of patience, so a front that needs 8 s is torn down for
ever. The comment at `trade_unit.cpp:174` speaks of 20 s; the code waits 10 s.

### Fairness

- Threads inside `push`, a posted dispatch, `stop` and the `run` loops are weakly
  fair: they never wait for anything but a timed wait or a lock held for a few
  instructions. Starting a new `push` or dispatch is not fair.
- `QueryProcessor`: only the processor's loop and the clock are fair. Clients, units
  and the broker may stay silent; the timeout is what answers the query.
- `TradeProcessor`: the two loops and the stop. Units and statuses are not:
  `EventuallyDecided` promises an answer only once a status of the order has come in,
  since a waiter has no timeout (`trade_processor.cpp:324`).
- `TradeUnit`: the loop, the clock, the network's return, and the front's answers to a
  connect and a login. The liveness properties ask in addition that the market and
  the network stay open from some point on (`Calm`).
- `MessageServer`: a woken thread gets the mutex, a worker's handler returns, and a
  join ends once the workers have. Waking for no reason is possible, not fair.
- `LogQueue`: the log thread, the close and the join. A woken poster is strongly fair
  (SF): the log thread takes the mutex again and again, and a poster that is turned
  away goes back to sleep, but the mutex lets everyone in who keeps asking.
- `DispatchScheduler`: the timer thread, the workers, the steps of `start()` and `stop()`
  and time are weakly fair; a call that has begun is strongly fair because it contends
  for `mutex_` with the timer thread. Nobody has to call anything, nor to release the
  scheduler.

## 4. Proofs

Every theorem holds for all values of the constants that satisfy the named ASSUME of
its module; the bounds on posts, faults and so on are arbitrary naturals.

`SrtQueueProofs`:

- `TypeCorrect`: the type invariant, strengthened with what the consumer's pointer and
  the flags say, for any number of producers.
- `Overshoot`: the index invariant bounds `post_index` by the full limit plus the
  producers that have passed the test and not yet claimed. A producer that reads
  `post_index_` early and `get_index_` late only sees a smaller difference than the
  real one by claims of others, each of which was counted.
- `NoWrap`, `FifoOrder`, `MemorySafe`, `NoPageLeak`, for at most two producers: from
  `Overshoot` follows the window (every claimed index lies in the `PageIndexCount`
  pages from `get_index` on), so a ring position identifies one logical page. On top
  of it the memory invariant says which pages are linked, that a linked page has the
  home its ring position stands for, that a producer's and the consumer's pointers
  are linked pages, and what each cell holds depending on whether its index is
  unclaimed, in flight or filled. None of the four is inductive by itself: order
  needs the cells' contents, these need the pointers, and these the window.
- `RingImplementsFifo`, for at most two producers: `SrtQueue` implements `MpscFifo`. The
  claim of an index is the abstract Reserve, the store of the cell's flag is Fill, the
  increment of `get_index_` is Deliver, and every other step of `push` and `pop` leaves
  the places from `get_index` to `post_index` as they are. Fill must find its own
  ticket in the place its index stands for, and Deliver must find the first place
  filled and hand out what was put there: both come from the memory invariant. The only
  clause that is new counts the pushes each producer has begun.

`ProcessorThreadProofs`, for any posters and any number of messages: `WorkerIsSafe` and
`StopJoins` if `PromptStart`, `DictionariesReleasedOnce` if `PromptPost` as well. The inductive invariant `LifeInv` ties the
flags `is_running_` and `thread_` to the control points of both threads: a thread in
`run()` has its flag set unless `stop` is joining it, and an unborn one has a nonzero
`thread_`, so that `stop` sleeps rather than passing it by. For the releases it says
where a message that is not yet released is: with one poster, in the queue once, or
with the worker.

`QueryProcessorProofs`: `QueryReferencesCounted`, `QueryAnsweredOnce`,
`CheckerAnswerIsItsOrder`. The invariant follows a query through its life: its message
is in the queue at most once and before it waits; once it has been answered or timed
out it waits no more, and nothing makes it wait again; the broker's error is its last
word. Without the part about queued messages none of the three is inductive, since a
second copy of the request would make a second waiter.

`TradeProofs`, about `TradeProcessor`: `WithdrawalHasOneFate`, `SharedDictionaryCounted`,
`WithdrawalsGoFirst`. The first two go together, with the fact that the withdrawal
queue holds no request twice and that one not yet posted is in no queue. The third
needs the control point of `run()`: only between the end of `process_withdraws` and
`get` can a withdrawal arrive that one message will pass.

`TradeProofs`, about `TradeUnit`: `ConnectsGetTheirTime`, an action property. `trade_reconnect` is
called for an API object that has not called back only after the grace time and five
seconds without a word, unless the object before it has overwritten `m_conn_state`. The
invariant bounds the age of the last response by the life of the connect, across the
callbacks of the old object, and says that `m_conn_state` is "connecting" while the
object is fresh, unless overwritten.

`DispatchSchedulerProofs`, for any workers, clients and timers (finitely many timers,
and no thread with two roles: `ThreadsAssumption`):

- `SchedulerTypes`. The invariant `Base` adds to the types who holds `mutex_` (it
  follows from where the threads are), that `check_timers` stands at an entry of
  `timers_` while it dispatches, that `timers_` holds attached timers once each, and
  that the queue has room for every timer that is due. `timers_` changes only under the
  mutex, which the timer thread keeps from one entry to the next, so the place it
  stands at stays its timer's.
- `SchedulerUsersSafe`: the workers, and the calls their operations make, live from
  `start()` to the join in `stop()`, which comes before the queue and its event go. The
  timer thread has its flag set from its beginning to the join, so that it lives longer
  than its event only if `stop()` found the flag down, and then it had not begun.
- `OperationsRunOnce`: a worker that spins holds an index below `get_index_` that no
  other worker holds; the other indices below it have been called once.
- `TimersFireAsTheyAreSet`: a timer that does not repeat has not fired while it is in
  `timers_`, unless `check_timers` is dispatching for it right now or some thread is
  between `set_timer` and `reset`. `set_timer` works without the mutex: that is why
  the last exception is needed, and why the property grants it.
- `ClaimedCellsGetFilled` and `SpinningIsServed`, which no run states: every cell that
  is claimed and empty belongs to exactly one thread, which is at the point of filling
  it. So a worker that spins in `get_msg_mul` always waits for another thread's next
  step, never for itself and never for nobody. This is the safety half of
  `EventuallyDone`.

`DbPoolProofs`: `PoolUsersSafe`, `PoolMarksTruthful` and `PoolStaysBounded`, for alarms at
any time. The first two are inductive together: an address that is not tainted and not
live is not held, so a new connection shares its address with a dbscope only if that one
is tainted. The bound is not inductive, because an entry set aside while a stale dbscope
holds it serves again once returned; counting what is held as well makes it so, since
`getconn` adds an entry only when all that serve are in use.

`MessageServerProofs`: `ServerAccountsForMessages`; `ServerLosesNoWakeUp` if
`ReleaseOpen`: every message in the queue is matched by a woken worker as long as
one sleeps, which a push keeps up by waking one more and a pop by taking one message
with each woken worker; the same for places and producers.

`LogQueueProofs`: `PacksAreAccounted`, `OnlyWaitersLoseText`, `TextsArriveInOrder`. The
invariant says that only the back of the available packs holds text, from which a
poster that did not wait either finds room, moves the pack on, or starts an empty one.
The same shape gives the order: the texts of the available packs are those of the last
one, so moving it behind the packs to be logged, or putting a recycled pack in front of
it, leaves the concatenation of both lists as it was; a write adds its text at the end,
and `pop` takes the first pack's texts off the front. `OrderInv` adds that the log
thread has a pack while it is busy and none before it runs, as `Run` would otherwise
drop texts. What `FlattenSeq` computes for a longer sequence is proved by induction. The
library's induction theorems take an operator as a parameter, which the provers cannot
instantiate; `NatSet` and `SeqSet` say the same of a set of numbers and a set of
sequences, from the fact that `<` is well-founded on the naturals.

Every invariant, every action property and the refinement that a passing run checks is
thus also a theorem. Only model-checked: all liveness (`Eventually...`, `StopReturns`,
`StaleLoginRepaired`), as the prover handles neither fairness nor ENABLED. The three
violated properties are counterexamples and need no proof. Of the assumptions of section
3, `PromptStart`, `PromptPost` and `ReleaseOpen` are hypotheses of the theorems named
with them, and `Alone` and `CanPost` are part of the models.

## 5. Not modelled

- `tqueue`'s pages: `post_msg_mul` has no full test, so a reader that falls behind by
  2^8 pages is overtaken (`tqueue.h:87`). The model posts fewer operations. `drb_queue`
  is used by nothing; its growth loop (`mqueue.h:321`) leaves the array one entry short
  when `page_index` equals the size.
- What a thread does after it has come to a deleted or missing object of the scheduler.
  A timer's operation that is queued still runs after `reset()`, and a timer destroyed
  after `release_instance` makes a new scheduler (`timer.cpp:64`).
- A handler of a `MessageServer` that posts to its own full queue waits for itself, and
  a post after `stop` waits for ever when the queue is full.
- `event::wait` leaves `tv_nsec` at exactly 10^9 (`event.cpp:97`): the wait then ends at
  once, which the models allow anyway. A failed `pthread_create` is only logged
  (`thread.cpp:143`).
- Order entry and the conversion of broker records in `trade_unit`, its simulation
  mode, and the login callback's endless confirmation loop (`trade_unit.cpp:617`),
  which depends on a closed library.
- eco's topic server, timers and `TcpClient` have concurrency of their own and are the
  next candidates.
- `asio`, `fndnet`, `liblight`, `utility`, `alpha`, `db_sync`,
  `ctp_quote`: wrappers of sockets and databases, or servers of the same shape as those
  modelled here (`alpha`'s processors are copies of `ctp_trade`'s; `libeco` holds second
  copies of eco's queue and server).
- Parsers, codecs, cryptography, formatting, the Windows branches of `base`, and test programs:
  sequential code that unit tests cover better.

Of the repository's lines of C++ the models cover a small share, and no faithful model
could cover a third of them. Of some 226,000 lines, 119,000 are generated protocol
buffers and 22,000 third-party parsers and helpers kept in the tree (pugixml, tinyxml,
sigslot); much of the rest is second copies of the same classes (`libeco` and `eco`,
`libmysql` and `database`), field-by-field conversion and
wrappers of system calls. What has state, threads and an order that can go wrong is
what is modelled.

Next would come: `tqueue` with its pages, and a composition of two `ProcessorThread`s
that post to each other through `dispatch_message`.
