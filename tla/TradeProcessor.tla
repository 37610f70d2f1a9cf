--------------------------- MODULE TradeProcessor ---------------------------
(***************************************************************************)
(* ctp_trade's trade_processor with the parts of trade_server it talks to: *)
(* withdrawals and other messages come in through two queues, a withdrawal *)
(* is checked against the entrust table and either answered at once or     *)
(* handed to its trade_unit and kept in withdraw_wait_queue_ until an      *)
(* order_status_response arrives; answers leave through the server's       *)
(* response thread; trade_server::stop takes it all down in its order.     *)
(*                                                                         *)
(* A withdrawal is named by its request.  The dictionary handed to the     *)
(* unit is shared by the unit and the wait queue: refs counts its          *)
(* references.  The wait queue is always walked from end to end, and no    *)
(* question is asked about the order of the answers: it and rsp_queue_ are *)
(* sets.  Every wait on an event ends after 20 ms and the loop goes round, *)
(* so events are left out (ProcessorThread models them).                   *)
(***************************************************************************)
EXTENDS Integers, Sequences, SequencesExt

CONSTANTS Reqs,        \* withdrawals that may be posted
          Orders,
          KnownOrders, \* orders of an account that has a trade unit
          FirstRows,   \* what the entrust table may hold at the start
          MaxMsgs      \* bound: other messages posted

ASSUME ProcessorAssumption ==
    /\ KnownOrders \subseteq Orders
    /\ FirstRows \subseteq [Orders -> {"absent", "live", "closed"}]
    /\ MaxMsgs \in Nat

None == "none"
Other == "other"   \* entrust, deal and the responses whose handlers do nothing

VARIABLES
    row,            \* the entrust table's row of each order: "absent", "live"
                    \* or "closed" (not numbered yet, dealt, withdrawn, failed)
    OrderOf,        \* the order each withdrawal is about, when it is posted
    withdraw_queue, \* withdraw_queue_
    msg_queue,      \* msg_queue_: an order whose status came in, or Other
    wait_queue,     \* withdraw_wait_queue_
    pc,             \* control point of run()
    unit,           \* withdrawals in the trade unit's queue or hands
    refs,           \* references to the dictionary shared with the unit
    lost,           \* ghost: of these, the ones nobody holds any more
    rsp_queue,      \* rsp_queue_: withdrawals whose answer is to be printed
    rspPc,          \* process_rsp: "top", "pop" or "gone"
    fate,           \* ghost: "unposted", "open", "answered" or "discarded"
    overtaken,      \* ghost: other messages taken while it was queued
    stage,          \* how far trade_server::stop has got
    msgs

dataVars == <<row, OrderOf>>
queueVars == <<withdraw_queue, msg_queue, wait_queue>>
refVars == <<unit, refs, lost>>
rspVars == <<rsp_queue, rspPc>>
ghostVars == <<fate, overtaken>>
vars == <<dataVars, queueVars, pc, refVars, rspVars, ghostVars, stage, msgs>>

started == stage = "running"     \* trade_server's started_

Init ==
    /\ row \in FirstRows /\ OrderOf \in [Reqs -> Orders]
    /\ withdraw_queue = <<>> /\ msg_queue = <<>> /\ wait_queue = {}
    /\ pc = "top"
    /\ unit = {}
    /\ refs = [r \in Reqs |-> 0] /\ lost = [r \in Reqs |-> 0]
    /\ rsp_queue = {} /\ rspPc = "top"
    /\ fate = [r \in Reqs |-> "unposted"]
    /\ overtaken = [r \in Reqs |-> 0]
    /\ stage = "running" /\ msgs = 0

-----------------------------------------------------------------------------
(* post, through trade_server::dispatch_message                            *)

\* a caller that saw started_ may still be posting while the response thread
\* is stopped; assumed: it has posted before the processor is stopped in turn
\* (dispatch_message tests started_ once and does not hold anyone up)
CanPost == stage \in {"running", "stop_rsp"}

PostWithdraw(r) ==
    /\ CanPost /\ fate[r] = "unposted"
    /\ withdraw_queue' = Append(withdraw_queue, r)
    /\ fate' = [fate EXCEPT ![r] = "open"]
    /\ UNCHANGED <<dataVars, msg_queue, wait_queue, pc, refVars, rspVars, overtaken, stage, msgs>>

\* a status may come for an order nobody withdraws, or come twice
PostOther(m) ==
    /\ CanPost /\ msgs < MaxMsgs
    /\ msg_queue' = Append(msg_queue, m)
    /\ msgs' = msgs + 1
    /\ UNCHANGED <<dataVars, withdraw_queue, wait_queue, pc, refVars, rspVars, ghostVars, stage>>

\* external: the order is dealt or withdrawn
RowChanges(o) ==
    /\ started
    /\ row[o] = "live" /\ row' = [row EXCEPT ![o] = "closed"]
    /\ UNCHANGED <<OrderOf, queueVars, pc, refVars, rspVars, ghostVars, stage, msgs>>

-----------------------------------------------------------------------------
(* run                                                                     *)

is_running == stage \in {"running", "stop_rsp"}

\* mutant: the start flag is looked at before the loop's own
RunTopNeverEnds ==
    /\ pc = "top"
    /\ pc' = IF started THEN "withdraws" ELSE "top"
    /\ UNCHANGED <<dataVars, queueVars, refVars, rspVars, ghostVars, stage, msgs>>

\* the loop's test, and get_server_start_flag
RunTop ==
    /\ pc = "top"
    /\ pc' = IF ~is_running THEN "gone" ELSE IF started THEN "withdraws" ELSE "top"
    /\ UNCHANGED <<dataVars, queueVars, refVars, rspVars, ghostVars, stage, msgs>>

\* mutant: one withdrawal per round
WithdrawsDoneEarly ==
    /\ pc = "withdraws"
    /\ pc' = "get"
    /\ UNCHANGED <<dataVars, queueVars, refVars, rspVars, ghostVars, stage, msgs>>

\* process_withdraws: no withdrawal is left, or the thread is being stopped
WithdrawsDone ==
    /\ pc = "withdraws"
    /\ ~is_running \/ withdraw_queue = <<>>
    /\ pc' = "get"
    /\ UNCHANGED <<dataVars, queueVars, refVars, rspVars, ghostVars, stage, msgs>>

\* dispatch_message of ORDER_REPLY for each of the withdrawals rs: posted to
\* the response thread, or released when the server is no longer started
Reply(rs) ==
    /\ rsp_queue' = IF started THEN rsp_queue \cup rs ELSE rsp_queue
    /\ fate' = [r \in Reqs |-> IF r \notin rs THEN fate[r]
                               ELSE IF fate[r] = "open" THEN "answered"
                               ELSE "answered again"]

Withdrawal(r) ==
    /\ pc = "withdraws" /\ is_running
    /\ withdraw_queue # <<>> /\ r = Head(withdraw_queue)
    /\ withdraw_queue' = Tail(withdraw_queue)
    /\ UNCHANGED <<msg_queue, pc, stage, msgs>>

\* process_withdraw: no connection, a failing statement, or an order that
\* cannot be withdrawn
WithdrawRefused(r) ==
    /\ Withdrawal(r)
    /\ Reply({r})
    /\ UNCHANGED <<dataVars, wait_queue, refVars, rspPc, overtaken>>

\* ... an order that is not in the table is entered as withdrawn
WithdrawUnknown(r) ==
    /\ Withdrawal(r)
    /\ row[OrderOf[r]] = "absent"
    /\ row' = [row EXCEPT ![OrderOf[r]] = "closed"]
    /\ Reply({r})
    /\ UNCHANGED <<OrderOf, wait_queue, refVars, rspPc, overtaken>>

\* dispatch_message of SERVER_TRADE_REQ: to the unit, released when the server
\* is no longer started, and forgotten when the account has no unit.  The
\* dictionary arrives with n references.
ToUnit(r, n) ==
    LET known == OrderOf[r] \in KnownOrders IN
    /\ unit' = IF started /\ known THEN unit \cup {r} ELSE unit
    /\ refs' = [refs EXCEPT ![r] = IF started THEN n ELSE n - 1]
    /\ lost' = [lost EXCEPT ![r] = IF started /\ ~known THEN @ + 1 ELSE @]

\* mutant: the wait queue does not retain the dictionary
WithdrawSentUnretained(r) ==
    /\ Withdrawal(r)
    /\ row[OrderOf[r]] = "live"
    /\ wait_queue' = wait_queue \cup {r}
    /\ ToUnit(r, 1)
    /\ UNCHANGED <<dataVars, rspVars, ghostVars>>

\* ... a live order is left to its unit: retain, push_back, dispatch
WithdrawSent(r) ==
    /\ Withdrawal(r)
    /\ row[OrderOf[r]] = "live"
    /\ wait_queue' = wait_queue \cup {r}
    /\ ToUnit(r, 2)
    /\ UNCHANGED <<dataVars, rspVars, ghostVars>>

\* get: an empty queue sends the thread to its timed wait
GetNothing ==
    /\ pc = "get" /\ msg_queue = <<>>
    /\ pc' = "top"
    /\ UNCHANGED <<dataVars, queueVars, refVars, rspVars, ghostVars, stage, msgs>>

Queued(r) == r \in ToSet(withdraw_queue)

TakeMessage ==
    /\ pc = "get" /\ msg_queue # <<>>
    /\ msg_queue' = Tail(msg_queue)
    /\ pc' = "top"
    /\ overtaken' = [r \in Reqs |-> IF Queued(r) THEN overtaken[r] + 1 ELSE overtaken[r]]
    /\ UNCHANGED <<dataVars, withdraw_queue, unit, refs, rspPc, stage, msgs>>

\* a message whose handler only returns
HandleOther ==
    /\ TakeMessage
    /\ Head(msg_queue) = Other
    /\ UNCHANGED <<wait_queue, lost, rsp_queue, fate>>

\* the withdrawals a status is about
Matching(o) == {r \in wait_queue : OrderOf[r] = o}

\* mutant: an answered withdrawal stays in the wait queue
StatusResponseKeeps ==
    /\ TakeMessage
    /\ Head(msg_queue) \in Orders
    /\ Reply(Matching(Head(msg_queue)))
    /\ UNCHANGED <<wait_queue, lost>>

\* process_order_status_response: every withdrawal of that order is answered
\* and erased from the wait queue; its reference is not released
StatusResponse ==
    /\ TakeMessage
    /\ Head(msg_queue) \in Orders
    /\ LET rs == Matching(Head(msg_queue)) IN
       /\ Reply(rs)
       /\ wait_queue' = wait_queue \ rs
       /\ lost' = [r \in Reqs |-> IF r \in rs THEN lost[r] + 1 ELSE lost[r]]

-----------------------------------------------------------------------------
(* the trade unit and the response thread                                  *)

\* trade_unit::run handles the request and releases the dictionary
UnitDone(r) ==
    /\ r \in unit /\ stage # "stopped"
    /\ unit' = unit \ {r}
    /\ refs' = [refs EXCEPT ![r] = @ - 1]
    /\ UNCHANGED <<dataVars, queueVars, pc, lost, rspVars, ghostVars, stage, msgs>>

\* process_rsp: the loop's test ...
RspTop ==
    /\ rspPc = "top"
    /\ rspPc' = IF started THEN "pop" ELSE "gone"
    /\ UNCHANGED <<dataVars, queueVars, pc, refVars, rsp_queue, ghostVars, stage, msgs>>

\* ... and an answer is printed and released, or a timed wait
RspPop ==
    /\ rspPc = "pop"
    /\ IF rsp_queue = {} THEN UNCHANGED rsp_queue
                         ELSE \E r \in rsp_queue : rsp_queue' = rsp_queue \ {r}
    /\ rspPc' = "top"
    /\ UNCHANGED <<dataVars, queueVars, pc, refVars, ghostVars, stage, msgs>>

-----------------------------------------------------------------------------
(* trade_server::stop                                                      *)

\* started_ = false, stop_rsp_thread_ = true
StopBegins ==
    /\ stage = "running"
    /\ stage' = "stop_rsp"
    /\ UNCHANGED <<dataVars, queueVars, pc, refVars, rspVars, ghostVars, msgs>>

\* the response thread is joined; trade_processor::stop clears is_running_
StopProcessor ==
    /\ stage = "stop_rsp" /\ rspPc = "gone"
    /\ stage' = "stop_proc"
    /\ UNCHANGED <<dataVars, queueVars, pc, refVars, rspVars, ghostVars, msgs>>

\* the thread is joined; release_messages empties the three queues
ReleaseMessages ==
    /\ stage = "stop_proc" /\ pc = "gone"
    /\ withdraw_queue' = <<>> /\ msg_queue' = <<>> /\ wait_queue' = {}
    /\ refs' = [r \in Reqs |-> IF r \in wait_queue THEN refs[r] - 1 ELSE refs[r]]
    /\ fate' = [r \in Reqs |-> IF Queued(r) \/ r \in wait_queue
                               THEN "discarded" ELSE fate[r]]
    /\ stage' = "stop_unit"
    /\ UNCHANGED <<dataVars, pc, unit, lost, rspVars, overtaken, msgs>>

\* the units are stopped and release what they have; release_rsp_messages
StopUnits ==
    /\ stage = "stop_unit"
    /\ refs' = [r \in Reqs |-> IF r \in unit THEN refs[r] - 1 ELSE refs[r]]
    /\ unit' = {}
    /\ rsp_queue' = {}
    /\ stage' = "stopped"
    /\ UNCHANGED <<dataVars, queueVars, pc, lost, rspPc, ghostVars, msgs>>

RunStep ==
    \/ RunTop \/ WithdrawsDone
    \/ \E r \in Reqs : WithdrawRefused(r) \/ WithdrawUnknown(r) \/ WithdrawSent(r)
    \/ GetNothing \/ HandleOther \/ StatusResponse

RspStep == RspTop \/ RspPop

StopStep == StopProcessor \/ ReleaseMessages \/ StopUnits

Next ==
    \/ RunStep \/ RspStep \/ StopBegins \/ StopStep
    \/ \E r \in Reqs : PostWithdraw(r) \/ UnitDone(r)
    \/ \E m \in Orders \cup {Other} : PostOther(m)
    \/ \E o \in Orders : RowChanges(o)

Spec == Init /\ [][Next]_vars

\* The threads are scheduled, and a stop that has begun goes on; nothing is
\* assumed of callers, of the broker or of the unit.
FairSpec ==
    Spec /\ WF_vars(RunStep) /\ WF_vars(RspStep) /\ WF_vars(StopStep)

-----------------------------------------------------------------------------
Fates == {"unposted", "open", "answered", "answered again", "discarded"}
Stages == {"running", "stop_rsp", "stop_proc", "stop_unit", "stopped"}

\* Every variable of the processor, the unit, the response thread and the
\* server keeps its type.
TypeOK ==
    /\ row \in [Orders -> {"absent", "live", "closed"}]
    /\ OrderOf \in [Reqs -> Orders]
    /\ withdraw_queue \in Seq(Reqs) /\ wait_queue \subseteq Reqs /\ rsp_queue \subseteq Reqs
    /\ msg_queue \in Seq(Orders \cup {Other})
    /\ pc \in {"top", "withdraws", "get", "gone"}
    /\ rspPc \in {"top", "pop", "gone"}
    /\ unit \subseteq Reqs
    /\ refs \in [Reqs -> Nat] /\ lost \in [Reqs -> Nat] /\ overtaken \in [Reqs -> Nat]
    /\ fate \in [Reqs -> Fates]
    /\ stage \in Stages /\ msgs \in Nat

Waiting(r) == r \in wait_queue
Count(b) == IF b THEN 1 ELSE 0

\* A posted withdrawal has exactly one fate: it is queued, or it waits for its
\* order's status, or it has been answered, once, or stop has discarded it.
\* None is dropped on the way from one queue to the other or to the server,
\* and neither a repeated status nor a second withdrawal of the same order
\* makes the processor answer one twice.
OneFate ==
    \A r \in Reqs :
        /\ fate[r] # "answered again"
        /\ (fate[r] = "open") <=> (Queued(r) \/ Waiting(r))
        /\ ~(Queued(r) /\ Waiting(r))

\* The dictionary shared with the unit is counted right: a reference for the
\* wait queue, one for the unit, and the ones the code drops on the floor (a
\* withdrawal answered through the wait queue, an account without a unit).
\* So neither side reads a freed dictionary, and once the server is stopped
\* no reference but those is left.
RefsAccounted ==
    \A r \in Reqs : refs[r] = Count(Waiting(r)) + Count(r \in unit) + lost[r]

\* Withdrawals go first: from its post to its turn, at most one other message
\* is taken before a withdrawal (the one get() returns when the withdrawal
\* arrives just after process_withdraws has emptied the queue).  While the
\* thread is stopped it may take one more.
OvertakenOnce ==
    \A r \in Reqs : overtaken[r] <= (IF is_running THEN 1 ELSE 2)

\* A withdrawal leaves the queue, and one that waits is answered when a status
\* of its order has come in, unless the server is stopped; a stop ends.
EventuallyDecided ==
    /\ \A r \in Reqs :
          /\ Queued(r) ~> ~Queued(r)
          /\ (Waiting(r) /\ OrderOf[r] \in ToSet(msg_queue)) ~> ~Waiting(r)
    /\ ~started ~> stage = "stopped"
=============================================================================
