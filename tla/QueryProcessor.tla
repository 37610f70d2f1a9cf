---------------------------- MODULE QueryProcessor ----------------------------
(***************************************************************************)
(* ctp_trade's query_processor: the thread that forwards client queries to *)
(* the trade unit of their account, keeps them in wait_match_queue_ until  *)
(* the broker's answer, an error or a timeout disposes of them, and sends  *)
(* the replies through trade_server::dispatch_message.  It races with the  *)
(* trade units' threads (which share the reference-counted request         *)
(* dictionaries), with the broker's answers and with the clock.            *)
(*                                                                         *)
(* A query is known by its queryid.  Of its dictionary only cmd, account   *)
(* and the order number it asks about (localno or systemno) matter; of a   *)
(* response record only its order number and whether its code is valid     *)
(* (two characters or more), which deal replies ask about.  A set stands   *)
(* for wait_match_queue_, which is always walked from end to end, and      *)
(* replies are kept apart by query: their order is asked about for one     *)
(* query only.  The broker is external: the prepare_qry* and               *)
(* process_qry*_result functions that would talk to it are empty in this   *)
(* version, so a request may fail in the unit or be sent, and any answer   *)
(* the handlers accept may come.                                           *)
(***************************************************************************)
EXTENDS Integers, Sequences, Functions

CONSTANTS Queries,      \* queryids; clients never use one twice
          Cmds,         \* the commands clients send
          Accounts,     \* broker accounts served by this processor
          Units,        \* those with a trade unit (map_tunits_)
          OrderNos,     \* the order numbers clients ask about
          Timeout,      \* QUERY_WAIT_TIMEOUT in clock ticks
          MaxRecords,   \* bound: response records the broker sends in all
          NULL

AllCmds == {"account", "openinter", "entrust", "deal", "checker_entrust", "checker_deal"}
CheckerCmds == {"checker_entrust", "checker_deal"}

\* an order number, or NULL for none that a client asks about
Numbers == OrderNos \cup {NULL}

\* only checker pulls name an order
Requests == {r \in [cmd : Cmds, account : Accounts, no : Numbers] :
                r.no = NULL <=> r.cmd \notin CheckerCmds}

ASSUME QueryAssumption == /\ Cmds \subseteq AllCmds
                          /\ Units \subseteq Accounts
                          /\ Timeout \in Nat /\ MaxRecords \in Nat
                          /\ NULL \notin OrderNos /\ NULL \notin Requests

VARIABLES
    req,        \* req[q]: the dictionary of a query that was sent, or NULL
    msgs,       \* msg_queue_
    wait,       \* queries in wait_match_queue_
    left,       \* left[q]: deadline - clock of a waiting query
    partial,    \* map_dict_*_: [kind, account] -> <<order number, valid>> records so far
    pc,         \* run(): "check" the timeouts, "get" a message, or "stopped"
    refs,       \* refs[q]: reference count of the forwarded dictionary of q
    lost,       \* lost[q]: references to it dropped without a release()
    unit,       \* queries whose dictionary a trade unit holds, queued or in hand
    prepared,   \* those of them for which prepare_qry* has returned
    asked,      \* queries the broker has been asked and has not finished
    records,    \* number of response records sent so far
    out,        \* out[q]: replies to q posted to the response thread, in order
    unsent      \* unsent[q]: replies dispatch_message had no case for

waitVars == <<wait, left>>
vars == <<req, msgs, waitVars, partial, pc, refs, lost, unit, prepared, asked, records, out, unsent>>

\* the response a request is answered with: checker pulls use the same records
KindOf(cmd) == CASE cmd \in {"account", "openinter"} -> cmd
                 [] cmd \in {"entrust", "checker_entrust"} -> "entrust"
                 [] cmd \in {"deal", "checker_deal"} -> "deal"
Kinds == {KindOf(c) : c \in AllCmds}

Init ==
    /\ req = [q \in Queries |-> NULL]
    /\ msgs = <<>>
    /\ wait = {} /\ left = [q \in Queries |-> 0]
    /\ partial = [k \in Kinds \X Accounts |-> {}]
    /\ pc = "check"
    /\ refs = [q \in Queries |-> 0] /\ lost = [q \in Queries |-> 0]
    /\ unit = {} /\ prepared = {} /\ asked = {} /\ records = 0
    /\ out = [q \in Queries |-> <<>>] /\ unsent = [q \in Queries |-> <<>>]

-----------------------------------------------------------------------------
(* trade_server::dispatch_message, as far as this component uses it.       *)

\* nos: the order numbers of the records it carries; cut: of those taken out
Reply(type, how, account, nos, cut) ==
    [type |-> type, how |-> how, account |-> account, nos |-> nos, cut |-> cut]

\* ORDER_REPLY and QUERY_REPLY go to post_rsp_message; CHECKER_RSP has no case
HasCase(r) == r.type \in {"ORDER_REPLY", "QUERY_REPLY"}

\* each query of qs gets its reply, to[q]
DispatchReplies(qs, to) ==
    /\ out' = [q \in Queries |->
                 IF q \in qs /\ HasCase(to[q]) THEN Append(out[q], to[q]) ELSE out[q]]
    /\ unsent' = [q \in Queries |->
                    IF q \in qs /\ ~HasCase(to[q]) THEN Append(unsent[q], to[q]) ELSE unsent[q]]

\* SERVER_QUERY_REQ: trade_unit::post takes it if the unit exists and connected_
\* (either value) is set; otherwise the reference passed to it is lost.
DispatchRequest(q) ==
    \/ /\ req[q].account \in Units
       /\ unit' = unit \cup {q}
       /\ lost' = lost
    \/ /\ unit' = unit
       /\ lost' = [lost EXCEPT ![q] = @ + 1]

-----------------------------------------------------------------------------
(* Other threads: clients, trade units, the broker and the clock.          *)

\* a client's IN_QUERY or CHECKER_REQ is posted to the processor
ClientQuery(q) ==
    /\ pc # "stopped"
    /\ req[q] = NULL
    /\ \E r \in Requests : req' = [req EXCEPT ![q] = r]
    /\ msgs' = Append(msgs, [type |-> "query", id |-> q])
    /\ UNCHANGED <<waitVars, partial, pc, refs, lost, unit, prepared, asked, records, out, unsent>>

\* trade_unit::run: prepare_qry* sends the request to the broker
UnitSend(q) ==
    /\ q \in unit \ prepared
    /\ prepared' = prepared \cup {q}
    /\ asked' = asked \cup {q}
    /\ UNCHANGED <<req, msgs, waitVars, partial, pc, refs, lost, unit, records, out, unsent>>

\* ... or fails, and the unit posts an error; a stopped server drops that
UnitFail(q) ==
    /\ q \in unit \ prepared
    /\ prepared' = prepared \cup {q}
    /\ msgs' = IF pc = "stopped" THEN msgs ELSE Append(msgs, [type |-> "error", id |-> q])
    /\ UNCHANGED <<req, waitVars, partial, pc, refs, lost, unit, asked, records, out, unsent>>

\* either way the unit then releases the dictionary
UnitRelease(q) ==
    /\ q \in prepared
    /\ unit' = unit \ {q}
    /\ prepared' = prepared \ {q}
    /\ refs' = [refs EXCEPT ![q] = @ - 1]
    /\ UNCHANGED <<req, msgs, waitVars, partial, pc, lost, asked, records, out, unsent>>

\* the record of an account or a position has no order number, one of an entrust
\* or a deal may be of an order nobody asks about; codes matter for deals only
RecordsOf(kind) == CASE kind \in {"account", "openinter"} -> {<<NULL, TRUE>>}
                     [] kind = "entrust" -> Numbers \X {TRUE}
                     [] kind = "deal" -> Numbers \X BOOLEAN

\* one response record; the last one carries result_complete = 1
BrokerRecord(q) ==
    /\ pc # "stopped"
    /\ q \in asked /\ records < MaxRecords
    /\ \E rec \in RecordsOf(KindOf(req[q].cmd)), last \in BOOLEAN :
          /\ msgs' = Append(msgs, [type |-> "record", kind |-> KindOf(req[q].cmd),
                                   account |-> req[q].account, rec |-> rec, last |-> last])
          /\ asked' = IF last THEN asked \ {q} ELSE asked
    /\ records' = records + 1
    /\ UNCHANGED <<req, waitVars, partial, pc, refs, lost, unit, prepared, out, unsent>>

Tick ==
    /\ \E q \in wait : left[q] >= 0
    /\ left' = [q \in Queries |-> IF q \in wait /\ left[q] >= 0 THEN left[q] - 1 ELSE left[q]]
    /\ UNCHANGED <<req, msgs, wait, partial, pc, refs, lost, unit, prepared, asked, records, out, unsent>>

-----------------------------------------------------------------------------
(* The processor's thread.                                                 *)

\* these leave wait_match_queue_ with a release() of the waiter's reference
ReleaseWaiters(qs) ==
    /\ wait' = wait \ qs
    /\ left' = [q \in Queries |-> IF q \in qs THEN 0 ELSE left[q]]
    /\ refs' = [q \in Queries |-> IF q \in qs THEN refs[q] - 1 ELSE refs[q]]

\* mutant: the comparison with the clock is the wrong way round
ExpiredReversed(q) == left[q] > 0

Expired(q) == left[q] < 0

TimeoutReply(q) == Reply("QUERY_REPLY", "timeout", req[q].account, {}, {})

\* check_query_wait_timeout: checker pulls are dropped without a reply
CheckTimeouts ==
    /\ pc = "check"
    /\ LET late == {q \in wait : Expired(q)}
           told == {q \in late : req[q].cmd \notin CheckerCmds}
       IN /\ DispatchReplies(told, [q \in told |-> TimeoutReply(q)])
          /\ ReleaseWaiters(late)
    /\ pc' = "get"
    /\ UNCHANGED <<req, msgs, partial, lost, unit, prepared, asked, records>>

\* nothing to do: reset the event, wait at most 50 ms
GetNothing ==
    /\ pc = "get" /\ msgs = <<>>
    /\ pc' = "check"
    /\ UNCHANGED <<req, msgs, waitVars, partial, refs, lost, unit, prepared, asked, records, out,
                   unsent>>

Take(type) ==
    /\ pc = "get" /\ msgs # <<>> /\ Head(msgs).type = type
    /\ msgs' = Tail(msgs)
    /\ pc' = "check"

\* mutant: the waiter does not retain the dictionary it shares with the unit
ForwardNoRetain(q) ==
    /\ refs' = [refs EXCEPT ![q] = 1]
    /\ wait' = wait \cup {q} /\ left' = [left EXCEPT ![q] = Timeout]
    /\ DispatchRequest(q)

\* process_qry_account, _openinter, _checker_entrust and _checker_deal: the new
\* dictionary is held by the waiter (retain) and by the message to the unit
Forward(q) ==
    /\ refs' = [refs EXCEPT ![q] = 2]
    /\ wait' = wait \cup {q} /\ left' = [left EXCEPT ![q] = Timeout]
    /\ DispatchRequest(q)

\* process_qry_entrust and process_qry_deal do nothing
ProcessQuery ==
    /\ Take("query")
    /\ IF req[Head(msgs).id].cmd \in {"entrust", "deal"}
       THEN UNCHANGED <<refs, waitVars, unit, lost>>
       ELSE Forward(Head(msgs).id)
    /\ UNCHANGED <<req, partial, prepared, asked, records, out, unsent>>

NumbersOf(recs) == {r[1] : r \in recs}
Invalid(kind, recs) == {r \in recs : kind = "deal" /\ ~r[2]}

\* mutant: checker pulls are matched by order number alone
AnswersAnyAccount(kind, account, nos, r) ==
    CASE kind \in {"account", "openinter"} -> r.cmd = kind
      [] kind = "entrust" -> r.cmd = "checker_entrust" /\ r.no \in nos
      [] kind = "deal" -> r.cmd \in {"deal", "checker_deal"} /\ r.no \in nos

\* which waiting requests a complete response answers: account and position
\* queries by their command, checker pulls by account and order number as well
Answers(kind, account, nos, r) ==
    CASE kind \in {"account", "openinter"} -> r.cmd = kind
      [] kind = "entrust" -> /\ r.cmd = "checker_entrust"
                             /\ r.account = account /\ r.no \in nos
      [] kind = "deal" -> /\ r.cmd \in {"deal", "checker_deal"}
                          /\ r.account = account /\ r.no \in nos

\* the reply carries the account's records; from a deal reply, but not from the
\* collection it is a copy of, those with an invalid code are taken out
ResultReply(q, kind, account, recs) ==
    Reply(IF req[q].cmd \in CheckerCmds THEN "CHECKER_RSP" ELSE "QUERY_REPLY",
          "result", account,
          NumbersOf(recs \ Invalid(kind, recs)), NumbersOf(Invalid(kind, recs)))

\* mutant: an answered waiter stays in wait_match_queue_
AnswerWaitersKept(kind, account, recs) ==
    LET hits == {q \in wait : Answers(kind, account, NumbersOf(recs), req[q])}
    IN /\ DispatchReplies(hits, [q \in hits |-> ResultReply(q, kind, account, recs)])
       /\ UNCHANGED <<waitVars, refs>>

\* a complete response: every waiter it answers gets a reply that carries the
\* responding account's records, is released and erased
AnswerWaiters(kind, account, recs) ==
    LET hits == {q \in wait : Answers(kind, account, NumbersOf(recs), req[q])}
    IN /\ DispatchReplies(hits, [q \in hits |-> ResultReply(q, kind, account, recs)])
       /\ ReleaseWaiters(hits)

\* process_rsp_account, _openinter, _entrust and _deal: collect the records of
\* an account; the last one answers the waiters and drops the collection
ProcessRecord ==
    /\ Take("record")
    /\ LET m == Head(msgs)
           k == <<m.kind, m.account>>
           got == partial[k] \cup {m.rec}
       IN IF m.last
          THEN /\ AnswerWaiters(m.kind, m.account, got)
               /\ partial' = [partial EXCEPT ![k] = {}]
          ELSE /\ partial' = [partial EXCEPT ![k] = got]
               /\ UNCHANGED <<waitVars, refs, out, unsent>>
    /\ UNCHANGED <<req, lost, unit, prepared, asked, records>>

\* process_cmd_error: the waiter is erased (its reference is not released) and,
\* whether or not there was one, the client is told by an ORDER_REPLY
ProcessError ==
    /\ Take("error")
    /\ LET q == Head(msgs).id
           told == {x \in {q} : req[q].cmd \in {"account", "deal", "openinter"}}
       IN /\ wait' = wait \ {q} /\ left' = [left EXCEPT ![q] = 0]
          /\ lost' = [lost EXCEPT ![q] = IF q \in wait THEN @ + 1 ELSE @]
          /\ DispatchReplies(told, [x \in told |->
                                      Reply("ORDER_REPLY", "error", req[q].account, {}, {})])
    /\ UNCHANGED <<req, partial, refs, unit, prepared, asked, records>>

\* stop(): the thread is joined, queued messages and waiters are released and
\* the collections deleted
Stop ==
    /\ pc = "check"
    /\ pc' = "stopped"
    /\ msgs' = <<>>
    /\ ReleaseWaiters(wait)
    /\ partial' = [k \in Kinds \X Accounts |-> {}]
    /\ UNCHANGED <<req, lost, unit, prepared, asked, records, out, unsent>>

-----------------------------------------------------------------------------
RunStep == CheckTimeouts \/ GetNothing \/ ProcessQuery \/ ProcessRecord \/ ProcessError

Next == \/ RunStep
        \/ Stop
        \/ Tick
        \/ \E q \in Queries : \/ ClientQuery(q) \/ UnitSend(q) \/ UnitFail(q)
                              \/ UnitRelease(q) \/ BrokerRecord(q)

Spec == Init /\ [][Next]_vars

\* The thread keeps polling (its wait is timed) and time passes; clients, units
\* and the broker owe nothing.
FairSpec == Spec /\ WF_vars(RunStep) /\ WF_vars(Tick)

-----------------------------------------------------------------------------
Records == Numbers \X BOOLEAN
Messages ==
    [type : {"query", "error"}, id : Queries]
    \cup [type : {"record"}, kind : Kinds, account : Accounts,
          rec : Records, last : BOOLEAN]
Replies == [type : {"ORDER_REPLY", "QUERY_REPLY", "CHECKER_RSP"},
            how : {"result", "timeout", "error"}, account : Accounts,
            nos : SUBSET Numbers, cut : SUBSET Numbers]

\* Every variable of the processor, the units and the broker keeps its type.
TypeOK ==
    /\ req \in [Queries -> Requests \cup {NULL}]
    /\ msgs \in Seq(Messages)
    /\ wait \subseteq Queries /\ left \in [Queries -> -1..Timeout]
    /\ partial \in [Kinds \X Accounts -> SUBSET Records]
    /\ pc \in {"check", "get", "stopped"}
    /\ refs \in [Queries -> 0..2] /\ lost \in [Queries -> 0..2]
    /\ unit \subseteq Queries /\ prepared \subseteq unit /\ asked \subseteq Queries
    /\ records \in 0..MaxRecords
    /\ out \in [Queries -> Seq(Replies)] /\ unsent \in [Queries -> Seq(Replies)]

\* The reference count of a forwarded dictionary is what its holders account
\* for: the waiter, the trade unit's queue, and the references that were dropped
\* without a release (no unit to take it, or a waiter erased by an error).  So
\* nobody uses a dictionary that was deleted, and nothing else leaks one.
RefsAccounted ==
    \A q \in Queries :
        refs[q] = (IF q \in wait THEN 1 ELSE 0) + (IF q \in unit THEN 1 ELSE 0) + lost[q]

\* A query is answered once: a result or a timeout never follows another reply
\* to it, however late the records of a response come.  Only a unit's error
\* can (process_cmd_error replies even when the waiter is gone).
OnlyErrorsComeLate ==
    \A q \in Queries :
        /\ \A i, j \in DOMAIN out[q] :
              i < j => out[q][i].how # "error" /\ out[q][j].how = "error"
        /\ Len(unsent[q]) <= 1
        /\ unsent[q] # <<>> => out[q] = <<>>

\* The reply to a checker's pull is about the account it asked for and carries
\* its order, whatever else the account's responses carried.  Of a deal pull the
\* order may be missing, but only when a record of it had an invalid code and
\* was taken out; so a deal reply with no record of its order does happen.
CheckerGetsItsOrder ==
    \A q \in Queries : \A r \in Range(out[q]) \cup Range(unsent[q]) :
        r.how = "result" /\ req[q].cmd \in CheckerCmds =>
            /\ r.account = req[q].account
            /\ \/ req[q].no \in r.nos
               \/ req[q].cmd = "checker_deal" /\ req[q].no \in r.cut

\* The reply to an account or position query is about the account it asked for.
\* Does not hold: process_rsp_account does not compare accounts.
ReplyIsForItsAccount ==
    \A q \in Queries : \A i \in DOMAIN out[q] : out[q][i].account = req[q].account

\* A response for a deal/entrust pull request reaches the response thread.
\* Does not hold: dispatch_message has no case for it.
CheckerRepliesPosted == \A q \in Queries : unsent[q] = <<>>

\* Every account or position query of a client is answered in the end, by a
\* result, an error or a timeout, even when the trade unit drops it or the
\* broker never answers, unless the processor is stopped first.
EventuallyAnswered ==
    \A q \in Queries :
        (req[q] # NULL /\ req[q].cmd \in {"account", "openinter"})
            ~> (pc = "stopped" \/ out[q] # <<>>)

\* A checker's pull does not stay in wait_match_queue_ for ever.
EventuallyForgotten == \A q \in Queries : (q \in wait) ~> (q \notin wait)
=============================================================================
