------------------------------ MODULE TradeUnit ------------------------------
(***************************************************************************)
(* ctp_trade's trade_unit: one broker account's session with the trading   *)
(* front.  Two threads share its flags without a lock: the unit's own      *)
(* run() loop, which watches the line, rebuilds the API object after       *)
(* silence and sends queued requests, and the API's callback thread.       *)
(*                                                                         *)
(* One tick is a second.  age is clock - m_last_respond: only "< 5 s" and  *)
(* "> 10 s" are ever asked of it, so it stops at Ancient, which is also    *)
(* what m_last_respond = 0 amounts to.  The CTP API is external: session   *)
(* is what it has reported through its callbacks.                          *)
(***************************************************************************)
EXTENDS Integers

CONSTANTS ConnectTicks, \* the front accepts within this many ticks (net up)
          LoginTicks,   \* ... and answers a login within this many
          MaxPosts,     \* bound: requests posted
          MaxFaults,    \* bound: faults of the network and the broker
          MaxPushes,    \* bound: unsolicited messages from the front
          MaxTurns      \* bound: changes of the market phase

ASSUME UnitAssumption ==
    /\ {ConnectTicks, LoginTicks} \subseteq 1..10
    /\ {MaxPosts, MaxFaults, MaxPushes, MaxTurns} \subseteq Nat

Grace == 3          \* trade_reconnect: m_last_respond = clock() + 3 s
ConnectLimit == 5   \* MakeActive: a connect in progress is left alone so long
SilenceLimit == 10  \* MakeActive and run: silence after which the API is rebuilt
Ancient == SilenceLimit + 1
LagLimit == 11      \* lag is not counted further

VARIABLES
    conn,       \* m_conn_state
    connected,  \* connected_
    logined,    \* logined_
    age,        \* clock - m_last_respond, in seconds, at most Ancient
    session,    \* the API object: "connecting", "up" or "in" (logged in)
    loginReq,   \* a login request is on its way
    lag,        \* ticks since session, loginReq or net changed
    life,       \* ticks since the API object was made, counted to ConnectLimit
    fresh,      \* history: the API object has not called back yet
    overwritten,\* history: while the API object was being made, a callback of
                \* the one it replaced set m_conn_state
    net,        \* the front can be reached
    market,     \* what run() finds: "open", "closed" (out of hours), "holiday"
    queue,      \* number of requests in msg_queue_
    rpc,        \* control point of run()
    ran,        \* run() went round, or sleeps, since the last tick
    posts, faults, pushes, turns    \* bounded counters of the environment

unitVars == <<conn, connected, logined, age>>
apiVars == <<session, loginReq, lag, life, fresh, overwritten>>
envVars == <<net, market, posts, faults, pushes, turns>>
tradeUnitVars == <<unitVars, apiVars, envVars, queue, rpc, ran>>

\* start: trade_reconnect has made the API object, the thread is about to loop
UnitInit ==
    /\ conn = "connecting" /\ connected = FALSE /\ logined = FALSE
    /\ age = -Grace
    /\ session = "connecting" /\ loginReq = FALSE /\ lag = 0 /\ life = 0
    /\ fresh = TRUE /\ overwritten = FALSE
    /\ net \in BOOLEAN /\ market \in {"open", "closed", "holiday"}
    /\ queue = 0 /\ rpc = "top" /\ ran = FALSE
    /\ posts = 0 /\ faults = 0 /\ pushes = 0 /\ turns = 0

-----------------------------------------------------------------------------
(* run()                                                                   *)

NextRound == rpc' = "top" /\ ran' = TRUE

\* on a holiday the thread sleeps; out of hours the line is not watched
UnitRunTop ==
    /\ rpc = "top"
    /\ CASE market = "holiday" -> NextRound
         [] market = "closed"  -> rpc' = "gate" /\ ran' = ran
         [] market = "open"    -> rpc' = "active" /\ ran' = ran
    /\ UNCHANGED <<unitVars, apiVars, envVars, queue>>

\* mutant: a connect in progress gets no time
MakeActiveImpatient ==
    /\ rpc = "active"
    /\ \/ /\ ~connected
          /\ age' = Ancient /\ rpc' = "silent" /\ connected' = connected
       \/ /\ connected /\ age > SilenceLimit
          /\ age' = Ancient /\ rpc' = "silent" /\ connected' = FALSE
       \/ /\ connected /\ age <= SilenceLimit
          /\ rpc' = "gate" /\ UNCHANGED <<age, connected>>
    /\ UNCHANGED <<conn, logined, apiVars, envVars, queue, ran>>

\* mutant: silence on a connected line is not looked at
MakeActiveNoSilence ==
    /\ rpc = "active"
    /\ LET inProgress == conn = "connecting" /\ age < ConnectLimit IN
       \/ /\ inProgress
          /\ rpc' = "silent" /\ age' = age
       \/ /\ ~inProgress /\ ~connected
          /\ age' = Ancient /\ rpc' = "silent"
       \/ /\ ~inProgress /\ connected
          /\ rpc' = "gate" /\ age' = age
    /\ UNCHANGED <<conn, connected, logined, apiVars, envVars, queue, ran>>

MakeActive ==
    /\ rpc = "active"
    /\ LET inProgress == conn = "connecting" /\ age < ConnectLimit IN
       \/ /\ inProgress
          /\ rpc' = "silent" /\ UNCHANGED <<age, connected>>
       \/ /\ ~inProgress /\ ~connected
          /\ age' = Ancient /\ rpc' = "silent" /\ connected' = connected
       \/ /\ ~inProgress /\ connected /\ age > SilenceLimit
          /\ age' = Ancient /\ rpc' = "silent" /\ connected' = FALSE
       \/ /\ ~inProgress /\ connected /\ age <= SilenceLimit
          /\ rpc' = "gate" /\ UNCHANGED <<age, connected>>
    /\ UNCHANGED <<conn, logined, apiVars, envVars, queue, ran>>

\* trade_reconnect up to Release(): the old object's callbacks still come
ReconnectBegin ==
    /\ rpc = "silent" /\ age > SilenceLimit
    /\ age' = -Grace
    /\ conn' = "connecting"
    /\ rpc' = "release"
    /\ overwritten' = FALSE
    /\ UNCHANGED <<connected, logined, session, loginReq, lag, life, fresh, envVars, queue, ran>>

\* mutant: logined_ is not cleared for the new object
ReconnectFinishStaleLogin ==
    /\ rpc = "release"
    /\ connected' = FALSE
    /\ session' = "connecting" /\ loginReq' = FALSE /\ lag' = 0 /\ life' = 0
    /\ fresh' = TRUE
    /\ rpc' = "after" /\ ran' = TRUE
    /\ UNCHANGED <<conn, logined, age, overwritten, envVars, queue>>

\* Release(), the flags, the new object and its Init(), then sleep(1000)
ReconnectFinish ==
    /\ rpc = "release"
    /\ connected' = FALSE /\ logined' = FALSE
    /\ session' = "connecting" /\ loginReq' = FALSE /\ lag' = 0 /\ life' = 0
    /\ fresh' = TRUE
    /\ rpc' = "after" /\ ran' = TRUE
    /\ UNCHANGED <<conn, age, overwritten, envVars, queue>>

NotSilentYet ==
    /\ rpc = "silent" /\ age <= SilenceLimit
    /\ rpc' = "after"
    /\ UNCHANGED <<unitVars, apiVars, envVars, queue, ran>>

\* MakeActive() was false: go on only if the session is ready by now
RunAfter ==
    /\ rpc = "after"
    /\ IF connected /\ logined THEN rpc' = "gate" /\ ran' = ran ELSE NextRound
    /\ UNCHANGED <<unitVars, apiVars, envVars, queue>>

RunGate ==
    /\ rpc = "gate"
    /\ IF connected /\ logined THEN rpc' = "get" /\ ran' = ran ELSE NextRound
    /\ UNCHANGED <<unitVars, apiVars, envVars, queue>>

\* take a request and send it, or wait for one
RunGet ==
    /\ rpc = "get"
    /\ queue' = IF queue > 0 THEN queue - 1 ELSE queue
    /\ NextRound
    /\ UNCHANGED <<unitVars, apiVars, envVars>>

UnitRunStep == UnitRunTop \/ MakeActive \/ ReconnectBegin \/ ReconnectFinish
               \/ NotSilentYet \/ RunAfter \/ RunGate \/ RunGet

-----------------------------------------------------------------------------
(* The callback thread.  A fault counts against MaxFaults.                 *)

Fault == faults < MaxFaults /\ faults' = faults + 1
NoFault == faults' = faults

\* login(), called only if logined_ is off; sending it may fail.  That the old
\* object connects just while it is being replaced counts as a fault too.
OnFrontConnected ==
    /\ net /\ session = "connecting"
    /\ session' = "up" /\ lag' = 0
    /\ age' = 0 /\ connected' = TRUE /\ conn' = "connected"
    /\ \/ loginReq' = ~logined /\ (IF rpc = "release" THEN Fault ELSE NoFault)
       \/ ~logined /\ loginReq' = FALSE /\ Fault
    /\ fresh' = FALSE /\ overwritten' = (overwritten \/ rpc = "release")
    /\ UNCHANGED <<logined, life, net, market, posts, pushes, turns, queue, rpc, ran>>

\* the API goes on to reconnect by itself
OnFrontDisconnected ==
    /\ session # "connecting" /\ Fault
    /\ session' = "connecting" /\ loginReq' = FALSE /\ lag' = 0
    /\ age' = 0 /\ connected' = FALSE /\ conn' = "disconnected"
    /\ overwritten' = (overwritten \/ rpc = "release")
    /\ UNCHANGED <<logined, life, fresh, net, market, posts, pushes, turns, queue, rpc, ran>>

\* OnHeartBeatWarning and OnRspError
OnLineTrouble ==
    /\ session # "connecting" /\ Fault
    /\ connected' = FALSE
    /\ UNCHANGED <<conn, logined, age, apiVars, net, market, posts, pushes, turns,
                   queue, rpc, ran>>

\* the login is accepted (and the settlement confirmed), or refused
OnRspUserLogin ==
    /\ net /\ session = "up" /\ loginReq
    /\ age' = 0 /\ loginReq' = FALSE /\ lag' = 0
    /\ \/ logined' = TRUE /\ session' = "in" /\ NoFault
       \/ logined' = logined /\ session' = session /\ Fault
    /\ UNCHANGED <<conn, connected, life, fresh, overwritten, net, market, posts, pushes, turns,
                   queue, rpc, ran>>

\* OnRtnInstrumentStatus, OnRtnTrade, OnRspQryOrder and the other callbacks that
\* only note the time
OnPush ==
    /\ net /\ session # "connecting" /\ pushes < MaxPushes
    /\ pushes' = pushes + 1
    /\ age' = 0
    /\ UNCHANGED <<conn, connected, logined, apiVars, net, market, posts, faults,
                   turns, queue, rpc, ran>>

-----------------------------------------------------------------------------
(* post(), the clock, the network and the market.                          *)

\* a query is ignored while disconnected, a trade request never
Post ==
    /\ posts < MaxPosts
    /\ posts' = posts + 1
    /\ \E type \in {"trade", "query"} :
          queue' = IF connected \/ type = "trade" THEN queue + 1 ELSE queue
    /\ UNCHANGED <<unitVars, apiVars, net, market, faults, pushes, turns, rpc, ran>>

\* run() goes round at least once a second (a holiday's longer sleep ends hours
\* before the market opens); the front keeps its promises
Tick ==
    /\ ran
    /\ net /\ session = "connecting" => lag < ConnectTicks
    /\ net /\ loginReq => lag < LoginTicks
    /\ ran' = FALSE
    /\ age' = IF age < Ancient THEN age + 1 ELSE age
    /\ lag' = IF lag < LagLimit THEN lag + 1 ELSE lag
    /\ life' = IF life < ConnectLimit THEN life + 1 ELSE life
    /\ UNCHANGED <<conn, connected, logined, session, loginReq, fresh, overwritten, envVars,
                   queue, rpc>>

NetDown == /\ net /\ Fault /\ net' = FALSE
           /\ UNCHANGED <<unitVars, apiVars, market, posts, pushes, turns, queue, rpc, ran>>
NetUp == /\ ~net /\ net' = TRUE /\ lag' = 0
         /\ UNCHANGED <<unitVars, session, loginReq, life, fresh, overwritten, market, posts, faults, pushes,
                        turns, queue, rpc, ran>>

MarketTurns ==
    /\ turns < MaxTurns
    /\ turns' = turns + 1
    /\ \E m \in {"open", "closed", "holiday"} \ {market} : market' = m
    /\ UNCHANGED <<unitVars, apiVars, net, posts, faults, pushes, queue, rpc, ran>>

-----------------------------------------------------------------------------
UnitNext ==
    \/ UnitRunStep
    \/ OnFrontConnected \/ OnFrontDisconnected \/ OnLineTrouble
    \/ OnRspUserLogin \/ OnPush
    \/ Post \/ Tick \/ NetDown \/ NetUp \/ MarketTurns

UnitSpec == UnitInit /\ [][UnitNext]_tradeUnitVars

\* run() loops, time passes, the network comes back, and the front answers a
\* connect and a login (Tick holds time back until it does).
FairUnitSpec ==
    /\ UnitSpec
    /\ WF_tradeUnitVars(UnitRunStep) /\ WF_tradeUnitVars(Tick) /\ WF_tradeUnitVars(NetUp)
    /\ WF_tradeUnitVars(OnFrontConnected) /\ WF_tradeUnitVars(OnRspUserLogin)

-----------------------------------------------------------------------------
Ready == connected /\ logined /\ session = "in"

UnitTypeOK ==
    /\ conn \in {"connecting", "connected", "disconnected"}
    /\ connected \in BOOLEAN /\ logined \in BOOLEAN
    /\ age \in -Grace..Ancient
    /\ session \in {"connecting", "up", "in"} /\ loginReq \in BOOLEAN
    /\ lag \in 0..LagLimit /\ life \in 0..ConnectLimit
    /\ fresh \in BOOLEAN /\ overwritten \in BOOLEAN
    /\ net \in BOOLEAN /\ market \in {"open", "closed", "holiday"}
    /\ queue \in 0..MaxPosts
    /\ rpc \in {"top", "active", "silent", "release", "after", "gate", "get"}
    /\ ran \in BOOLEAN
    /\ posts \in 0..MaxPosts /\ faults \in 0..MaxFaults
    /\ pushes \in 0..MaxPushes /\ turns \in 0..MaxTurns

\* An API object that has not called back is given ConnectLimit seconds (to within
\* the tick its making may take) before trade_reconnect tears it down, whatever
\* other callbacks do to m_last_respond, with one exception that the code has:
\* when, between the first lines of trade_reconnect and Release(), a callback of
\* the object being replaced set m_conn_state, MakeActive does not see that the
\* new one is connecting.  That costs one object its time, never the next one.
ConnectGetsTime ==
    [][ReconnectBegin /\ fresh => life >= ConnectLimit - 1 \/ overwritten]_tradeUnitVars

\* A request is only sent on a session that is logged in: OnFrontConnected is
\* called before the login, so a connection that the API re-established by
\* itself has to be logged in before the flags say that it is.  Does not hold:
\* logined_ survives a disconnect.  StaleLoginRepaired is what does.
FlagsMeanLoggedIn == connected /\ logined => session = "in"

Calm == <>[](market = "open" /\ net)

\* In trading hours with the front reachable, the session is ready again and
\* again, after any finite number of disconnects, refusals and lost messages.
EventuallyReady == Calm => []<>Ready

\* In trading hours a request that waits in the queue is sent in the end.
EventuallySent == Calm => [](queue > 0 => <>(queue = 0))

\* In trading hours a session whose logined_ is left over from an earlier
\* connection does not stay in use for ever: silence has the API rebuilt.
StaleLoginRepaired ==
    Calm => []((connected /\ logined /\ session = "up") => <>(session = "in" \/ ~connected))
=============================================================================
