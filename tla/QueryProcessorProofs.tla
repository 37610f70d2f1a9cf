------------------------ MODULE QueryProcessorProofs ------------------------
(***************************************************************************)
(* Proofs about QueryProcessor, for any queries, accounts, order numbers   *)
(* and timeouts: references are accounted for, only errors come late, and  *)
(* a checker's reply is about its order.                                   *)
(*                                                                         *)
(* The argument follows the life of a query: its one message, then the     *)
(* waiter on one side and, on the other, the request that goes to the      *)
(* unit and, from there, to the broker or back as one error.               *)
(***************************************************************************)
EXTENDS QueryProcessor, TLAPS

QueryMsg(q) == [type |-> "query", id |-> q]
ErrorMsg(q) == [type |-> "error", id |-> q]

\* m is in the queue
In(m) == \E i \in DOMAIN msgs : msgs[i] = m
\* ... and at most once
Once(m) == \A i, j \in DOMAIN msgs : msgs[i] = m /\ msgs[j] = m => i = j

ErrorReplied(q) == \E i \in DOMAIN out[q] : out[q][i].how = "error"

\* Nothing has been done for q yet.
Untouched(q) ==
    /\ q \notin wait /\ q \notin unit /\ q \notin prepared /\ q \notin asked
    /\ refs[q] = 0 /\ lost[q] = 0
    /\ ~In(ErrorMsg(q)) /\ out[q] = <<>> /\ unsent[q] = <<>>

\* The unit has yet to prepare the request of q.
InUnit(q) == q \in unit /\ q \notin prepared

\* Where a query is on its way.
LifeOK(q) ==
    /\ req[q] = NULL => Untouched(q) /\ ~In(QueryMsg(q))
    /\ In(QueryMsg(q)) => Untouched(q)
    /\ Once(QueryMsg(q)) /\ Once(ErrorMsg(q))
    /\ InUnit(q) => q \notin asked
    /\ InUnit(q) \/ q \in asked => ~In(ErrorMsg(q))
    /\ InUnit(q) \/ q \in asked \/ In(ErrorMsg(q)) => ~ErrorReplied(q)

\* The reply r to a checker's request c is what CheckerGetsItsOrder says.
Suits(r, c) ==
    /\ r.account = c.account
    /\ c.no \in r.nos \/ (c.cmd = "checker_deal" /\ c.no \in r.cut)

\* What has been replied to it.
RepliesOK(q) ==
    /\ q \in wait => out[q] = <<>> /\ unsent[q] = <<>>
    /\ out[q] # <<>> => req[q] # NULL /\ req[q].cmd \notin CheckerCmds
    /\ unsent[q] # <<>> => req[q] # NULL /\ req[q].cmd \in CheckerCmds

Inv ==
    /\ TypeOK /\ RefsAccounted /\ OnlyErrorsComeLate /\ CheckerGetsItsOrder
    /\ \A q \in Queries : LifeOK(q) /\ RepliesOK(q)

-----------------------------------------------------------------------------
(* The queue                                                               *)

LEMMA MessageParts ==
    ASSUME NEW q \in Queries
    PROVE  /\ QueryMsg(q) \in Messages /\ ErrorMsg(q) \in Messages
           /\ \A p \in Queries : QueryMsg(q) # ErrorMsg(p)
           /\ \A p \in Queries : QueryMsg(q) = QueryMsg(p) \/ ErrorMsg(q) = ErrorMsg(p) => q = p
<1>1. QueryMsg(q) \in Messages /\ ErrorMsg(q) \in Messages
    BY DEF QueryMsg, ErrorMsg, Messages
<1>2. QueryMsg(q).type = "query" /\ QueryMsg(q).id = q /\ ErrorMsg(q).type = "error" /\ ErrorMsg(q).id = q
    BY DEF QueryMsg, ErrorMsg
<1>3. ASSUME NEW p \in Queries
      PROVE  QueryMsg(p).type = "query" /\ QueryMsg(p).id = p /\ ErrorMsg(p).type = "error" /\ ErrorMsg(p).id = p
    BY DEF QueryMsg, ErrorMsg
<1>. HIDE DEF QueryMsg, ErrorMsg
<1>. QED
    BY <1>1, <1>2, <1>3

\* a message is posted
LEMMA PostFacts ==
    ASSUME msgs \in Seq(Messages), NEW m \in Messages, msgs' = Append(msgs, m)
    PROVE  /\ msgs' \in Seq(Messages)
           /\ \A x : In(x)' <=> In(x) \/ x = m
           /\ \A x : Once(x) /\ (x = m => ~In(x)) => Once(x)'
<1>1. msgs' \in Seq(Messages) /\ Len(msgs) \in Nat
    OBVIOUS
<1>2. /\ DOMAIN msgs = 1..Len(msgs) /\ DOMAIN msgs' = 1..(Len(msgs) + 1)
      /\ \A i \in DOMAIN msgs : i \in DOMAIN msgs' /\ msgs'[i] = msgs[i]
      /\ msgs'[Len(msgs) + 1] = m /\ Len(msgs) + 1 \in DOMAIN msgs'
      /\ \A i \in DOMAIN msgs' : i \in DOMAIN msgs \/ i = Len(msgs) + 1
    OBVIOUS
<1>. QED
    BY <1>1, <1>2 DEF In, Once

\* the first one is taken
LEMMA TakeFacts ==
    ASSUME msgs \in Seq(Messages), msgs # <<>>, msgs' = Tail(msgs), NEW h, h = Head(msgs)
    PROVE  /\ msgs' \in Seq(Messages) /\ h \in Messages /\ In(h)
           /\ \A x : In(x)' => In(x)
           /\ \A x : Once(x) => Once(x)'
           /\ Once(h) => ~In(h)'
<1>1. /\ msgs' \in Seq(Messages) /\ h \in Messages /\ Len(msgs) \in Nat
      /\ DOMAIN msgs = 1..Len(msgs) /\ DOMAIN msgs' = 1..(Len(msgs) - 1)
      /\ 1 \in DOMAIN msgs /\ h = msgs[1]
      /\ \A i \in DOMAIN msgs' : i + 1 \in DOMAIN msgs /\ msgs'[i] = msgs[i + 1]
    OBVIOUS
<1>2. In(h) /\ \A x : In(x)' => In(x)
    BY <1>1 DEF In
<1>3. ASSUME NEW x, Once(x) PROVE Once(x)'
  <2>. SUFFICES ASSUME NEW i \in DOMAIN msgs', NEW j \in DOMAIN msgs', msgs'[i] = x, msgs'[j] = x
                PROVE  i = j
    BY DEF Once
  <2>1. i + 1 = j + 1
    BY <1>1, <1>3 DEF Once
  <2>. QED
    BY <1>1, <2>1
<1>4. ASSUME Once(h) PROVE ~In(h)'
  <2>1. ASSUME NEW i \in DOMAIN msgs', msgs'[i] = h PROVE FALSE
    <3>1. i + 1 = 1
        BY <1>1, <1>4, <2>1 DEF Once
    <3>. QED
        BY <1>1, <3>1
  <2>. QED
    BY <2>1 DEF In
<1>. QED
    BY <1>1, <1>2, <1>3, <1>4

\* A message of type "query" or "error" is one of its query.
LEMMA HeadIs ==
    ASSUME NEW m \in Messages
    PROVE  /\ m.type = "query" => m.id \in Queries /\ m = QueryMsg(m.id)
           /\ m.type = "error" => m.id \in Queries /\ m = ErrorMsg(m.id)
           /\ m.type = "record" => /\ <<m.kind, m.account>> \in Kinds \X Accounts
                                   /\ m.account \in Accounts /\ m.rec \in Records /\ m.kind \in Kinds
                                   /\ \A q \in Queries : m # QueryMsg(q) /\ m # ErrorMsg(q)
<1>1. CASE m \in [type : {"query", "error"}, id : Queries]
    BY <1>1 DEF QueryMsg, ErrorMsg
<1>2. CASE m \in [type : {"record"}, kind : Kinds, account : Accounts, rec : Records, last : BOOLEAN]
  <2>1. m.type = "record" /\ m.kind \in Kinds /\ m.account \in Accounts /\ m.rec \in Records
    BY <1>2
  <2>2. \A q \in Queries : QueryMsg(q).type = "query" /\ ErrorMsg(q).type = "error"
    BY DEF QueryMsg, ErrorMsg
  <2>. QED
    BY <2>1, <2>2
<1>. QED
    BY <1>1, <1>2 DEF Messages

-----------------------------------------------------------------------------
(* Replies                                                                 *)

\* What one reply to each of some queries does.
LEMMA DispatchFacts ==
    ASSUME NEW qs, qs \subseteq Queries, NEW to, \A q \in qs : to[q] \in Replies,
           out \in [Queries -> Seq(Replies)], unsent \in [Queries -> Seq(Replies)],
           DispatchReplies(qs, to)
    PROVE  /\ out' \in [Queries -> Seq(Replies)] /\ unsent' \in [Queries -> Seq(Replies)]
           /\ \A q \in Queries : q \notin qs => out'[q] = out[q] /\ unsent'[q] = unsent[q]
           /\ \A q \in qs : IF HasCase(to[q])
                            THEN out'[q] = Append(out[q], to[q]) /\ unsent'[q] = unsent[q]
                            ELSE out'[q] = out[q] /\ unsent'[q] = Append(unsent[q], to[q])
<1>1. ASSUME NEW q \in Queries
      PROVE  /\ out'[q] = IF q \in qs /\ HasCase(to[q]) THEN Append(out[q], to[q]) ELSE out[q]
             /\ unsent'[q] = IF q \in qs /\ ~HasCase(to[q]) THEN Append(unsent[q], to[q]) ELSE unsent[q]
    BY DEF DispatchReplies
<1>2. ASSUME NEW q \in Queries PROVE out'[q] \in Seq(Replies) /\ unsent'[q] \in Seq(Replies)
  <2>1. CASE q \in qs
    <3>1. /\ to[q] \in Replies /\ out[q] \in Seq(Replies) /\ unsent[q] \in Seq(Replies)
        BY <2>1
    <3>2. Append(out[q], to[q]) \in Seq(Replies) /\ Append(unsent[q], to[q]) \in Seq(Replies)
        BY <3>1
    <3>. QED
        BY <1>1, <3>1, <3>2
  <2>2. CASE q \notin qs
    BY <1>1, <2>2
  <2>. QED
    BY <2>1, <2>2
<1>3. out' \in [Queries -> Seq(Replies)] /\ unsent' \in [Queries -> Seq(Replies)]
    BY <1>2 DEF DispatchReplies
<1>. QED
    BY <1>1, <1>3

-----------------------------------------------------------------------------
(* Steps                                                                   *)

\* A step in which some waiters leave and some of those are told, with nothing
\* new in the queue: CheckTimeouts, ProcessRecord, Stop; with no waiter at all
\* also the steps that only change other things.
LEMMA SettleInv ==
    ASSUME Inv, NEW qs, qs \subseteq wait, NEW told, told \subseteq qs, NEW to,
           \A q \in told :
              /\ to[q] \in Replies /\ to[q].how \in {"result", "timeout"}
              /\ HasCase(to[q]) <=> req[q].cmd \notin CheckerCmds
              /\ to[q].how = "result" /\ req[q].cmd \in CheckerCmds =>
                    Suits(to[q], req[q]),
           DispatchReplies(told, to),
           wait' = wait \ qs, left' \in [Queries -> -1..Timeout],
           refs' = [q \in Queries |-> IF q \in qs THEN refs[q] - 1 ELSE refs[q]],
           UNCHANGED <<req, lost, unit, prepared, asked>>,
           msgs' \in Seq(Messages), \A x : In(x)' => In(x), \A x : Once(x) => Once(x)',
           partial' \in [Kinds \X Accounts -> SUBSET Records],
           pc' \in {"check", "get", "stopped"}, records' \in 0..MaxRecords
    PROVE  Inv'
<1>1. /\ wait \subseteq Queries /\ refs \in [Queries -> 0..2] /\ lost \in [Queries -> 0..2]
      /\ unit \subseteq Queries
      /\ out \in [Queries -> Seq(Replies)] /\ unsent \in [Queries -> Seq(Replies)]
    BY DEF Inv, TypeOK
<1>2. told \subseteq Queries /\ qs \subseteq Queries
    BY <1>1
<1>3. /\ out' \in [Queries -> Seq(Replies)] /\ unsent' \in [Queries -> Seq(Replies)]
      /\ \A q \in Queries : q \notin told => out'[q] = out[q] /\ unsent'[q] = unsent[q]
      /\ \A q \in told : IF HasCase(to[q])
                         THEN out'[q] = Append(out[q], to[q]) /\ unsent'[q] = unsent[q]
                         ELSE out'[q] = out[q] /\ unsent'[q] = Append(unsent[q], to[q])
    BY <1>1, <1>2, DispatchFacts
<1>4. \A q \in qs : out[q] = <<>> /\ unsent[q] = <<>>
    BY <1>2 DEF Inv, RepliesOK
<1>5. ASSUME NEW q \in told
      PROVE  \/ HasCase(to[q]) /\ out'[q] = <<to[q]>> /\ unsent'[q] = <<>>
             \/ ~HasCase(to[q]) /\ out'[q] = <<>> /\ unsent'[q] = <<to[q]>>
  <2>1. out[q] = <<>> /\ unsent[q] = <<>>
    BY <1>4
  <2>2. Append(<<>>, to[q]) = <<to[q]>>
    OBVIOUS
  <2>3. CASE HasCase(to[q])
    <3>1. out'[q] = Append(out[q], to[q]) /\ unsent'[q] = unsent[q]
        BY <1>3, <2>3
    <3>. QED
        BY <2>1, <2>2, <2>3, <3>1
  <2>4. CASE ~HasCase(to[q])
    <3>1. out'[q] = out[q] /\ unsent'[q] = Append(unsent[q], to[q])
        BY <1>3, <2>4
    <3>. QED
        BY <2>1, <2>2, <2>4, <3>1
  <2>. QED
    BY <2>3, <2>4
<1>6. /\ refs' \in [Queries -> 0..2]
      /\ \A q \in Queries : refs'[q] = IF q \in qs THEN refs[q] - 1 ELSE refs[q]
  <2>1. ASSUME NEW q \in Queries
        PROVE  /\ refs'[q] = IF q \in qs THEN refs[q] - 1 ELSE refs[q]
               /\ refs'[q] \in 0..2
    <3>1. refs'[q] = IF q \in qs THEN refs[q] - 1 ELSE refs[q]
        OBVIOUS
    <3>2. refs[q] \in 0..2 /\ lost[q] \in 0..2
        BY <1>1
    <3>3. q \in qs => refs[q] >= 1
        BY <3>2 DEF Inv, RefsAccounted
    <3>. QED
        BY <3>1, <3>2, <3>3
  <2>. QED
    BY <2>1
<1>7. TypeOK'
    BY <1>3, <1>6 DEF Inv, TypeOK
<1>8. RefsAccounted'
  <2>. SUFFICES ASSUME NEW q \in Queries
                PROVE  refs'[q] = (IF q \in wait' THEN 1 ELSE 0) + (IF q \in unit THEN 1 ELSE 0) + lost[q]
    BY DEF RefsAccounted
  <2>1. refs[q] = (IF q \in wait THEN 1 ELSE 0) + (IF q \in unit THEN 1 ELSE 0) + lost[q]
    BY DEF Inv, RefsAccounted
  <2>2. lost[q] \in 0..2
    BY <1>1
  <2>4. refs'[q] = IF q \in qs THEN refs[q] - 1 ELSE refs[q]
    BY <1>6
  <2>3. (q \in wait' <=> q \in wait /\ q \notin qs) /\ (q \in qs => q \in wait)
    OBVIOUS
  <2>. QED
    BY <2>1, <2>2, <2>3, <2>4
<1>9. OnlyErrorsComeLate'
  <2>. SUFFICES ASSUME NEW q \in Queries
                PROVE  /\ \A i, j \in DOMAIN out'[q] :
                            i < j => out'[q][i].how # "error" /\ out'[q][j].how = "error"
                       /\ Len(unsent'[q]) <= 1
                       /\ unsent'[q] # <<>> => out'[q] = <<>>
    BY DEF OnlyErrorsComeLate
  <2>1. CASE q \in told
    <3>1. CASE out'[q] = <<to[q]>> /\ unsent'[q] = <<>>
        BY <3>1
    <3>2. CASE out'[q] = <<>> /\ unsent'[q] = <<to[q]>>
        BY <3>2
    <3>. QED
        BY <1>5, <2>1, <3>1, <3>2
  <2>2. CASE q \notin told
    <3>1. out'[q] = out[q] /\ unsent'[q] = unsent[q]
        BY <1>3, <2>2
    <3>. QED
        BY <3>1 DEF Inv, OnlyErrorsComeLate
  <2>. QED
    BY <2>1, <2>2
<1>10. CheckerGetsItsOrder'
  <2>. SUFFICES ASSUME NEW q \in Queries, NEW r \in Range(out'[q]) \cup Range(unsent'[q]),
                       r.how = "result", req[q].cmd \in CheckerCmds
                PROVE  Suits(r, req[q])
    BY DEF CheckerGetsItsOrder, Suits
  <2>1. CASE q \in told
    BY <1>5, <2>1 DEF Range
  <2>2. CASE q \notin told
    BY <1>3, <2>2 DEF Inv, CheckerGetsItsOrder, Suits
  <2>. QED
    BY <2>1, <2>2
<1>11. ASSUME NEW q \in Queries PROVE LifeOK(q)' /\ RepliesOK(q)'
  <2>1. LifeOK(q) /\ RepliesOK(q)
    BY DEF Inv
  <2>2. CASE q \in told
    <3>1. req[q] # NULL /\ ~In(QueryMsg(q))
        BY <2>1, <2>2 DEF LifeOK, InUnit, Untouched
    <3>2. ~ErrorReplied(q)'
        BY <1>5, <2>2 DEF ErrorReplied
    <3>3. LifeOK(q)'
        BY <2>1, <3>1, <3>2 DEF LifeOK, InUnit, QueryMsg, ErrorMsg
    <3>4. RepliesOK(q)'
        BY <1>5, <2>2, <3>1 DEF RepliesOK
    <3>. QED
        BY <3>3, <3>4
  <2>3. CASE q \notin told
    <3>1. out'[q] = out[q] /\ unsent'[q] = unsent[q]
        BY <1>3, <2>3
    <3>2. ErrorReplied(q)' <=> ErrorReplied(q)
        BY <3>1 DEF ErrorReplied
    <3>3. Untouched(q) => Untouched(q)'
        BY <1>6, <3>1 DEF Untouched, ErrorMsg
    <3>4. LifeOK(q)'
        BY <2>1, <3>2, <3>3 DEF LifeOK, InUnit, QueryMsg, ErrorMsg
    <3>5. RepliesOK(q)'
        BY <2>1, <3>1 DEF RepliesOK
    <3>. QED
        BY <3>4, <3>5
  <2>. QED
    BY <2>2, <2>3
<1>. QED
    BY <1>7, <1>8, <1>9, <1>10, <1>11 DEF Inv

\* nothing about any query changes: its clock may
LEMMA FrameInv ==
    ASSUME Inv, UNCHANGED <<req, wait, refs, lost, unit, prepared, asked, out, unsent>>,
           left' \in [Queries -> -1..Timeout],
           msgs' \in Seq(Messages), \A x : In(x)' => In(x), \A x : Once(x) => Once(x)',
           partial' \in [Kinds \X Accounts -> SUBSET Records],
           pc' \in {"check", "get", "stopped"}, records' \in 0..MaxRecords
    PROVE  Inv'
<1>1. TypeOK'
    BY DEF Inv, TypeOK
<1>2. RefsAccounted' /\ OnlyErrorsComeLate' /\ CheckerGetsItsOrder'
    BY DEF Inv, RefsAccounted, OnlyErrorsComeLate, CheckerGetsItsOrder
<1>3. ASSUME NEW q \in Queries PROVE LifeOK(q)' /\ RepliesOK(q)'
  <2>1. LifeOK(q) /\ RepliesOK(q)
    BY DEF Inv
  <2>2. (ErrorReplied(q)' <=> ErrorReplied(q)) /\ (Untouched(q) => Untouched(q)')
    BY DEF ErrorReplied, Untouched, ErrorMsg
  <2>. QED
    BY <2>1, <2>2 DEF LifeOK, InUnit, RepliesOK, QueryMsg, ErrorMsg
<1>. QED
    BY <1>1, <1>2, <1>3 DEF Inv

LEMMA InitInv == QueryAssumption /\ Init => Inv
<1>. SUFFICES ASSUME QueryAssumption, Init PROVE Inv
    OBVIOUS
<1>1. TypeOK
    BY DEF Init, TypeOK, QueryAssumption
<1>2. /\ msgs = <<>> /\ wait = {} /\ unit = {} /\ prepared = {} /\ asked = {}
      /\ \A q \in Queries : /\ refs[q] = 0 /\ lost[q] = 0 /\ req[q] = NULL
                            /\ out[q] = <<>> /\ unsent[q] = <<>>
    BY DEF Init
<1>3. RefsAccounted
    BY <1>2 DEF RefsAccounted
<1>4. OnlyErrorsComeLate
    BY <1>2 DEF OnlyErrorsComeLate
<1>5. CheckerGetsItsOrder
    BY <1>2 DEF CheckerGetsItsOrder, Range
<1>6. ASSUME NEW m PROVE ~In(m) /\ Once(m)
    BY <1>2 DEF In, Once
<1>7. ASSUME NEW q \in Queries PROVE LifeOK(q) /\ RepliesOK(q)
    BY <1>2, <1>6 DEF LifeOK, InUnit, RepliesOK, Untouched
<1>. QED
    BY <1>1, <1>3, <1>4, <1>5, <1>7 DEF Inv

LEMMA ClientInv ==
    ASSUME QueryAssumption, Inv, NEW q \in Queries, ClientQuery(q)
    PROVE  Inv'
<1>1. PICK r \in Requests : req' = [req EXCEPT ![q] = r]
    BY DEF ClientQuery
<1>2. /\ req[q] = NULL /\ msgs' = Append(msgs, QueryMsg(q))
      /\ UNCHANGED <<waitVars, partial, pc, refs, lost, unit, prepared, asked, records, out, unsent>>
    BY DEF ClientQuery, QueryMsg
<1>3. Untouched(q) /\ ~In(QueryMsg(q))
    BY <1>2 DEF Inv, LifeOK, InUnit
<1>4. msgs \in Seq(Messages) /\ QueryMsg(q) \in Messages
    BY MessageParts DEF Inv, TypeOK
<1>5. /\ msgs' \in Seq(Messages)
      /\ \A x : In(x)' <=> In(x) \/ x = QueryMsg(q)
      /\ \A x : Once(x) /\ (x = QueryMsg(q) => ~In(x)) => Once(x)'
    BY <1>2, <1>4, PostFacts
<1>6. req'[q] # NULL /\ \A p \in Queries : p # q => req'[p] = req[p]
    BY <1>1 DEF Inv, TypeOK, QueryAssumption
<1>7. TypeOK'
    BY <1>1, <1>2, <1>5 DEF Inv, TypeOK, waitVars
<1>8. RefsAccounted' /\ OnlyErrorsComeLate'
    BY <1>2 DEF Inv, RefsAccounted, OnlyErrorsComeLate, waitVars
<1>9. CheckerGetsItsOrder'
  <2>1. Range(out[q]) = {} /\ Range(unsent[q]) = {}
    BY <1>3 DEF Untouched, Range
  <2>. QED
    BY <1>2, <1>6, <2>1 DEF Inv, CheckerGetsItsOrder
<1>10. ASSUME NEW p \in Queries PROVE LifeOK(p)' /\ RepliesOK(p)'
  <2>1. LifeOK(p) /\ RepliesOK(p)
    BY DEF Inv
  <2>2. /\ ErrorReplied(p)' <=> ErrorReplied(p)
        /\ In(ErrorMsg(p))' <=> In(ErrorMsg(p))
        /\ Untouched(p)' <=> Untouched(p)
        /\ p # q => (In(QueryMsg(p))' <=> In(QueryMsg(p)))
    BY <1>2, <1>5, MessageParts DEF ErrorReplied, Untouched, waitVars, ErrorMsg, QueryMsg
  <2>3. Once(QueryMsg(p))' /\ Once(ErrorMsg(p))'
    BY <1>3, <1>5, <2>1, MessageParts DEF LifeOK, InUnit, QueryMsg, ErrorMsg
  <2>4. CASE p = q
    <3>1. LifeOK(p)'
        BY <1>2, <1>3, <1>6, <2>1, <2>2, <2>3, <2>4 DEF LifeOK, InUnit, waitVars, Untouched
    <3>2. RepliesOK(p)'
        BY <1>2, <1>3, <2>4 DEF RepliesOK, Untouched, waitVars
    <3>. QED
        BY <3>1, <3>2
  <2>5. CASE p # q
    BY <1>2, <1>6, <2>1, <2>2, <2>3, <2>5 DEF LifeOK, InUnit, RepliesOK, waitVars
  <2>. QED
    BY <2>4, <2>5
<1>. QED
    BY <1>7, <1>8, <1>9, <1>10 DEF Inv

\* The unit has done with the request and releases it.
LEMMA UnitInv ==
    ASSUME Inv, NEW q \in Queries, UnitRelease(q)
    PROVE  Inv'
<1>1. /\ q \in unit /\ q \in prepared /\ unit' = unit \ {q} /\ prepared' = prepared \ {q}
      /\ refs' = [refs EXCEPT ![q] = @ - 1]
      /\ UNCHANGED <<req, msgs, waitVars, partial, pc, lost, asked, records, out, unsent>>
    BY DEF UnitRelease, Inv, TypeOK
<1>2. \A p \in Queries : refs[p] \in 0..2 /\ lost[p] \in 0..2
    BY DEF Inv, TypeOK
<1>3. \A p \in Queries :
        refs[p] = (IF p \in wait THEN 1 ELSE 0) + (IF p \in unit THEN 1 ELSE 0) + lost[p]
    BY DEF Inv, RefsAccounted
<1>4. \A p \in Queries : refs'[p] = IF p = q THEN refs[p] - 1 ELSE refs[p]
    BY <1>1 DEF Inv, TypeOK
<1>5. refs[q] >= 1
    BY <1>1, <1>2, <1>3
<1>6. TypeOK'
  <2>1. refs' \in [Queries -> 0..2]
    BY <1>1, <1>2, <1>5 DEF Inv, TypeOK
  <2>. QED
    BY <1>1, <2>1 DEF Inv, TypeOK, waitVars
<1>7. RefsAccounted'
  <2>. SUFFICES ASSUME NEW p \in Queries
                PROVE  refs'[p] = (IF p \in wait THEN 1 ELSE 0) + (IF p \in unit' THEN 1 ELSE 0) + lost[p]
    BY <1>1 DEF RefsAccounted, waitVars
  <2>. QED
    BY <1>1, <1>2, <1>3, <1>4
<1>8. OnlyErrorsComeLate' /\ CheckerGetsItsOrder'
    BY <1>1 DEF Inv, OnlyErrorsComeLate, CheckerGetsItsOrder
<1>9. ASSUME NEW p \in Queries PROVE LifeOK(p)' /\ RepliesOK(p)'
  <2>1. LifeOK(p) /\ RepliesOK(p)
    BY DEF Inv
  <2>2. /\ ErrorReplied(p)' <=> ErrorReplied(p)
        /\ In(ErrorMsg(p))' <=> In(ErrorMsg(p))
        /\ In(QueryMsg(p))' <=> In(QueryMsg(p))
        /\ Once(QueryMsg(p))' <=> Once(QueryMsg(p))
        /\ Once(ErrorMsg(p))' <=> Once(ErrorMsg(p))
    BY <1>1 DEF ErrorReplied, In, Once, ErrorMsg, QueryMsg
  <2>3. (Untouched(p) => p # q) /\ (InUnit(p)' <=> InUnit(p))
    BY <1>1 DEF Untouched, InUnit
  <2>4. Untouched(p) => Untouched(p)'
    BY <1>1, <1>4, <2>2, <2>3 DEF Untouched, waitVars
  <2>5. LifeOK(p)'
    BY <1>1, <2>1, <2>2, <2>3, <2>4 DEF LifeOK, InUnit
  <2>. QED
    BY <1>1, <2>1, <2>5 DEF RepliesOK, waitVars
<1>. QED
    BY <1>6, <1>7, <1>8, <1>9 DEF Inv

\* The unit prepares the request and sends it on.
LEMMA SendInv ==
    ASSUME Inv, NEW q \in Queries, UnitSend(q)
    PROVE  Inv'
<1>1. /\ InUnit(q) /\ prepared' = prepared \cup {q} /\ asked' = asked \cup {q}
      /\ UNCHANGED <<req, msgs, waitVars, partial, pc, refs, lost, unit, records, out, unsent>>
    BY DEF UnitSend, InUnit
<1>2. TypeOK'
    BY <1>1 DEF Inv, TypeOK, waitVars, InUnit
<1>3. RefsAccounted' /\ OnlyErrorsComeLate' /\ CheckerGetsItsOrder'
    BY <1>1 DEF Inv, RefsAccounted, OnlyErrorsComeLate, CheckerGetsItsOrder, waitVars
<1>4. ASSUME NEW p \in Queries PROVE LifeOK(p)' /\ RepliesOK(p)'
  <2>1. LifeOK(p) /\ RepliesOK(p)
    BY DEF Inv
  <2>2. /\ ErrorReplied(p)' <=> ErrorReplied(p)
        /\ In(ErrorMsg(p))' <=> In(ErrorMsg(p))
        /\ In(QueryMsg(p))' <=> In(QueryMsg(p))
        /\ Once(QueryMsg(p))' <=> Once(QueryMsg(p))
        /\ Once(ErrorMsg(p))' <=> Once(ErrorMsg(p))
    BY <1>1 DEF ErrorReplied, In, Once, ErrorMsg, QueryMsg
  <2>3. Untouched(p) => p # q
    BY <1>1 DEF Untouched, InUnit
  <2>4. Untouched(p) => Untouched(p)'
    BY <1>1, <2>2, <2>3 DEF Untouched, waitVars
  <2>5. (InUnit(p)' <=> InUnit(p) /\ p # q) /\ (p \in asked' <=> p \in asked \/ p = q)
    BY <1>1 DEF InUnit
  <2>6. LifeOK(p)'
    BY <1>1, <2>1, <2>2, <2>4, <2>5 DEF LifeOK, InUnit
  <2>. QED
    BY <1>1, <2>1, <2>6 DEF RepliesOK, waitVars
<1>. QED
    BY <1>2, <1>3, <1>4 DEF Inv

\* The unit fails and posts the error, or drops it when the server has stopped.
LEMMA FailInv ==
    ASSUME QueryAssumption, Inv, NEW q \in Queries, UnitFail(q)
    PROVE  Inv'
<1>1. /\ InUnit(q) /\ prepared' = prepared \cup {q}
      /\ msgs' = msgs \/ msgs' = Append(msgs, ErrorMsg(q))
      /\ UNCHANGED <<req, waitVars, partial, pc, refs, lost, unit, asked, records, out, unsent>>
    BY DEF UnitFail, InUnit, ErrorMsg
<1>2. q \notin asked /\ ~In(ErrorMsg(q)) /\ ~ErrorReplied(q) /\ ~Untouched(q)
    BY <1>1 DEF Inv, LifeOK, Untouched, InUnit
<1>3. /\ msgs' \in Seq(Messages)
      /\ \A x : In(x)' => In(x) \/ x = ErrorMsg(q)
      /\ \A x : Once(x) /\ (x = ErrorMsg(q) => ~In(x)) => Once(x)'
  <2>1. msgs \in Seq(Messages) /\ ErrorMsg(q) \in Messages
    BY MessageParts DEF Inv, TypeOK
  <2>2. CASE msgs' = msgs
    BY <2>1, <2>2 DEF In, Once
  <2>3. CASE msgs' = Append(msgs, ErrorMsg(q))
    BY <2>1, <2>3, PostFacts DEF ErrorMsg
  <2>. QED
    BY <1>1, <2>2, <2>3
<1>4. TypeOK'
    BY <1>1, <1>3 DEF Inv, TypeOK, waitVars, InUnit
<1>5. RefsAccounted' /\ OnlyErrorsComeLate' /\ CheckerGetsItsOrder'
    BY <1>1 DEF Inv, RefsAccounted, OnlyErrorsComeLate, CheckerGetsItsOrder, waitVars
<1>6. ASSUME NEW p \in Queries PROVE LifeOK(p)' /\ RepliesOK(p)'
  <2>1. LifeOK(p) /\ RepliesOK(p)
    BY DEF Inv
  <2>2. /\ ErrorReplied(p)' <=> ErrorReplied(p)
        /\ In(QueryMsg(p))' => In(QueryMsg(p))
        /\ In(ErrorMsg(p))' => In(ErrorMsg(p)) \/ p = q
    BY <1>1, <1>3, MessageParts DEF ErrorReplied, ErrorMsg, QueryMsg
  <2>3. Once(QueryMsg(p))' /\ Once(ErrorMsg(p))'
    BY <1>2, <1>3, <2>1, MessageParts DEF LifeOK, InUnit, QueryMsg, ErrorMsg
  <2>4. Untouched(p) => Untouched(p)'
    BY <1>1, <1>2, <2>2 DEF Untouched, waitVars
  <2>5. InUnit(p)' <=> InUnit(p) /\ p # q
    BY <1>1 DEF InUnit
  <2>6. LifeOK(p)'
    BY <1>1, <1>2, <2>1, <2>2, <2>3, <2>4, <2>5 DEF LifeOK, InUnit
  <2>. QED
    BY <1>1, <2>1, <2>6 DEF RepliesOK, waitVars
<1>. QED
    BY <1>4, <1>5, <1>6 DEF Inv

LEMMA PairsGrow == ASSUME NEW A, NEW B, NEW C, B \subseteq C PROVE A \X B \subseteq A \X C
OBVIOUS

\* The broker answers with a record, its last or not.
LEMMA BrokerInv ==
    ASSUME QueryAssumption, Inv, NEW q \in Queries, BrokerRecord(q)
    PROVE  Inv'
<1>1. /\ q \in asked /\ asked' \subseteq asked
      /\ UNCHANGED <<req, waitVars, partial, pc, refs, lost, unit, prepared, out, unsent>>
    BY DEF BrokerRecord
<1>2. req[q] \in Requests
    BY <1>1 DEF Inv, TypeOK, LifeOK, InUnit, Untouched
<1>3. records' \in 0..MaxRecords
    BY DEF BrokerRecord, Inv, TypeOK, QueryAssumption
<1>4. PICK m \in Messages : msgs' = Append(msgs, m) /\ m.type = "record"
  <2>1. PICK rec \in RecordsOf(KindOf(req[q].cmd)), last \in BOOLEAN :
          msgs' = Append(msgs, [type |-> "record", kind |-> KindOf(req[q].cmd),
                                account |-> req[q].account, rec |-> rec, last |-> last])
    BY DEF BrokerRecord
  <2>2. req[q].cmd \in AllCmds /\ req[q].account \in Accounts
    BY <1>2 DEF Requests, QueryAssumption
  <2>3. /\ KindOf(req[q].cmd) \in Kinds
        /\ KindOf(req[q].cmd) \in {"account", "openinter", "entrust", "deal"}
    BY <2>2 DEF Kinds, KindOf, AllCmds
  <2>4. rec \in Records
    <3>1. /\ {<<NULL, TRUE>>} \subseteq Records /\ Numbers \X {TRUE} \subseteq Records
          /\ Numbers \X BOOLEAN \subseteq Records
      <4>1. NULL \in Numbers /\ TRUE \in BOOLEAN /\ {TRUE} \subseteq BOOLEAN
        BY Zenon DEF Numbers
      <4>2. <<NULL, TRUE>> \in Records
        BY Zenon, <4>1 DEF Records
      <4>3. Numbers \X {TRUE} \subseteq Records
        BY Zenon, <4>1, PairsGrow DEF Records
      <4>. QED
        BY Zenon, <4>2, <4>3 DEF Records
    <3>2. RecordsOf(KindOf(req[q].cmd)) \subseteq Records
        BY <2>3, <3>1 DEF RecordsOf
    <3>. QED
        BY <3>2
  <2>. DEFINE m == [type |-> "record", kind |-> KindOf(req[q].cmd),
                    account |-> req[q].account, rec |-> rec, last |-> last]
  <2>5. m \in [type : {"record"}, kind : Kinds, account : Accounts, rec : Records, last : BOOLEAN]
    BY <2>2, <2>3, <2>4
  <2>6. m \in Messages /\ m.type = "record"
    BY <2>5 DEF Messages
  <2>7. msgs' = Append(msgs, m)
    BY <2>1
  <2>. HIDE DEF m
  <2>. QED
    BY <2>6, <2>7
<1>5. /\ msgs' \in Seq(Messages)
      /\ \A x : In(x)' <=> In(x) \/ x = m
      /\ \A x : Once(x) /\ (x = m => ~In(x)) => Once(x)'
      /\ \A p \in Queries : m # QueryMsg(p) /\ m # ErrorMsg(p)
    BY <1>4, PostFacts, HeadIs DEF Inv, TypeOK
<1>6. TypeOK'
    BY <1>1, <1>3, <1>5 DEF Inv, TypeOK, waitVars
<1>7. RefsAccounted' /\ OnlyErrorsComeLate' /\ CheckerGetsItsOrder'
    BY <1>1 DEF Inv, RefsAccounted, OnlyErrorsComeLate, CheckerGetsItsOrder, waitVars
<1>8. ASSUME NEW p \in Queries PROVE LifeOK(p)' /\ RepliesOK(p)'
  <2>1. LifeOK(p) /\ RepliesOK(p)
    BY DEF Inv
  <2>2. /\ ErrorReplied(p)' <=> ErrorReplied(p)
        /\ In(QueryMsg(p))' <=> In(QueryMsg(p))
        /\ In(ErrorMsg(p))' <=> In(ErrorMsg(p))
        /\ InUnit(p)' <=> InUnit(p)
    BY <1>1, <1>5 DEF ErrorReplied, ErrorMsg, QueryMsg, InUnit
  <2>3. Once(QueryMsg(p))' /\ Once(ErrorMsg(p))'
    BY <1>5, <2>1 DEF LifeOK, InUnit, QueryMsg, ErrorMsg
  <2>4. Untouched(p) => Untouched(p)'
    BY <1>1, <2>2 DEF Untouched, waitVars
  <2>. QED
    BY <1>1, <2>1, <2>2, <2>3, <2>4 DEF LifeOK, InUnit, RepliesOK, waitVars
<1>. QED
    BY <1>6, <1>7, <1>8 DEF Inv

\* Forwarding: the waiter and the unit hold the new dictionary, or its reference
\* is lost.  Queries of the commands that do nothing just leave the queue.
LEMMA QueryInv ==
    ASSUME QueryAssumption, Inv, ProcessQuery
    PROVE  Inv'
<1>1. PICK q \in Queries : Head(msgs) = QueryMsg(q) /\ Head(msgs).id = q
  <2>1. Head(msgs) \in Messages /\ Head(msgs).type = "query"
    BY DEF ProcessQuery, Take, Inv, TypeOK
  <2>. QED
    BY <2>1, HeadIs
<1>2. /\ msgs \in Seq(Messages) /\ msgs # <<>> /\ msgs' = Tail(msgs) /\ pc' = "check"
      /\ UNCHANGED <<req, partial, prepared, asked, records, out, unsent>>
    BY DEF ProcessQuery, Take, Inv, TypeOK
<1>3. /\ msgs' \in Seq(Messages) /\ In(QueryMsg(q))
      /\ \A x : In(x)' => In(x)
      /\ \A x : Once(x) => Once(x)'
      /\ Once(QueryMsg(q)) => ~In(QueryMsg(q))'
    BY <1>1, <1>2, TakeFacts DEF QueryMsg
<1>4. Untouched(q) /\ ~In(QueryMsg(q))' /\ req[q] # NULL
    BY <1>3 DEF Inv, LifeOK, InUnit
<1>5. CASE req[q].cmd \in {"entrust", "deal"}
  <2>1. UNCHANGED <<refs, waitVars, unit, lost>>
    BY <1>1, <1>5 DEF ProcessQuery
  <2>. QED
    BY <1>2, <1>3, <2>1, FrameInv DEF waitVars, Inv, TypeOK
<1>6. CASE req[q].cmd \notin {"entrust", "deal"}
  <2>1. Forward(q)
    BY <1>1, <1>6 DEF ProcessQuery
  <2>2. /\ refs' = [refs EXCEPT ![q] = 2] /\ wait' = wait \cup {q}
        /\ left' = [left EXCEPT ![q] = Timeout]
        /\ \/ unit' = unit \cup {q} /\ lost' = lost
           \/ unit' = unit /\ lost' = [lost EXCEPT ![q] = @ + 1]
    BY <2>1 DEF Forward, DispatchRequest
  <2>3. refs \in [Queries -> 0..2] /\ lost \in [Queries -> 0..2] /\ left \in [Queries -> -1..Timeout]
    BY DEF Inv, TypeOK
  <2>4. /\ q \notin wait /\ q \notin unit /\ lost[q] = 0 /\ q \notin asked /\ ~In(ErrorMsg(q))
        /\ out[q] = <<>> /\ unsent[q] = <<>>
    BY <1>4 DEF Untouched
  <2>5. /\ refs' \in [Queries -> 0..2] /\ lost' \in [Queries -> 0..2]
        /\ left' \in [Queries -> -1..Timeout] /\ wait' \subseteq Queries /\ unit' \subseteq Queries
        /\ unit \subseteq unit'
    <3>1. refs' \in [Queries -> 0..2]
        BY <2>2, <2>3
    <3>2. lost' \in [Queries -> 0..2]
      <4>1. lost[q] + 1 \in 0..2
        BY <2>4
      <4>. QED
        BY <2>2, <2>3, <4>1
    <3>3. left' \in [Queries -> -1..Timeout]
      <4>1. Timeout \in -1..Timeout
        BY DEF QueryAssumption
      <4>. QED
        BY <2>2, <2>3, <4>1
    <3>4. wait \subseteq Queries /\ unit \subseteq Queries
        BY DEF Inv, TypeOK
    <3>5. wait' \subseteq Queries /\ unit' \subseteq Queries /\ unit \subseteq unit'
        BY <2>2, <3>4
    <3>. QED
        BY <3>1, <3>2, <3>3, <3>5
  <2>6. \A p \in Queries : p # q => /\ refs'[p] = refs[p] /\ lost'[p] = lost[p]
                                    /\ (p \in wait' <=> p \in wait) /\ (p \in unit' <=> p \in unit)
    BY <2>2, <2>3
  <2>7. refs'[q] = 2 /\ q \in wait' /\ ((q \in unit' /\ lost'[q] = 0) \/ (q \notin unit' /\ lost'[q] = 1))
    BY <2>2, <2>3, <2>4
  <2>8. TypeOK'
    BY <1>2, <1>3, <2>5 DEF Inv, TypeOK
  <2>9. RefsAccounted'
    <3>. SUFFICES ASSUME NEW p \in Queries
                  PROVE  refs'[p] = (IF p \in wait' THEN 1 ELSE 0) + (IF p \in unit' THEN 1 ELSE 0) + lost'[p]
        BY DEF RefsAccounted
    <3>1. CASE p = q
        BY <2>7, <3>1
    <3>2. CASE p # q
        BY <2>6, <3>2 DEF Inv, RefsAccounted
    <3>. QED
        BY <3>1, <3>2
  <2>10. OnlyErrorsComeLate' /\ CheckerGetsItsOrder'
    BY <1>2 DEF Inv, OnlyErrorsComeLate, CheckerGetsItsOrder
  <2>11. ASSUME NEW p \in Queries PROVE LifeOK(p)' /\ RepliesOK(p)'
    <3>1. LifeOK(p) /\ RepliesOK(p)
        BY DEF Inv
    <3>2. ErrorReplied(p)' <=> ErrorReplied(p)
        BY <1>2 DEF ErrorReplied
    <3>3. Once(QueryMsg(p))' /\ Once(ErrorMsg(p))'
        BY <1>3, <3>1 DEF LifeOK, InUnit, QueryMsg, ErrorMsg
    <3>4. (In(QueryMsg(p))' => In(QueryMsg(p))) /\ (In(ErrorMsg(p))' => In(ErrorMsg(p)))
        BY <1>3 DEF QueryMsg, ErrorMsg
    <3>5. CASE p = q
      <4>1. ~ErrorReplied(q)
        BY <2>4 DEF ErrorReplied
      <4>2. LifeOK(p)'
        BY <1>2, <1>4, <2>4, <3>2, <3>3, <3>4, <3>5, <4>1 DEF LifeOK, InUnit
      <4>. QED
        BY <1>2, <2>4, <3>5, <4>2 DEF RepliesOK
    <3>6. CASE p # q
      <4>1. Untouched(p) => Untouched(p)'
        BY <1>2, <2>6, <3>4, <3>6 DEF Untouched
      <4>. QED
        BY <1>2, <2>6, <3>1, <3>2, <3>3, <3>4, <3>6, <4>1 DEF LifeOK, InUnit, RepliesOK
    <3>. QED
        BY <3>5, <3>6
  <2>. QED
    BY <2>8, <2>9, <2>10, <2>11 DEF Inv
<1>. QED
    BY <1>5, <1>6

\* process_cmd_error: the last thing the broker says about a query.
LEMMA ErrorInv ==
    ASSUME QueryAssumption, Inv, ProcessError
    PROVE  Inv'
<1>1. PICK q \in Queries : Head(msgs) = ErrorMsg(q) /\ Head(msgs).id = q
  <2>1. Head(msgs) \in Messages /\ Head(msgs).type = "error"
    BY DEF ProcessError, Take, Inv, TypeOK
  <2>. QED
    BY <2>1, HeadIs
<1>2. /\ msgs \in Seq(Messages) /\ msgs # <<>> /\ msgs' = Tail(msgs) /\ pc' = "check"
      /\ UNCHANGED <<req, partial, refs, unit, prepared, asked, records>>
    BY DEF ProcessError, Take, Inv, TypeOK
<1>3. /\ msgs' \in Seq(Messages) /\ In(ErrorMsg(q))
      /\ \A x : In(x)' => In(x)
      /\ \A x : Once(x) => Once(x)'
      /\ Once(ErrorMsg(q)) => ~In(ErrorMsg(q))'
    BY <1>1, <1>2, TakeFacts DEF ErrorMsg
<1>4. /\ ~In(ErrorMsg(q))' /\ ~In(QueryMsg(q)) /\ req[q] # NULL /\ ~InUnit(q) /\ q \notin asked
      /\ ~ErrorReplied(q)
    BY <1>3 DEF Inv, LifeOK, InUnit, Untouched
<1>5. PICK told, to, r :
         /\ told \in SUBSET {q}
         /\ told = {x \in {q} : req[q].cmd \in {"account", "deal", "openinter"}}
         /\ to = [x \in told |-> r] /\ r = Reply("ORDER_REPLY", "error", req[q].account, {}, {})
         /\ wait' = wait \ {q} /\ left' = [left EXCEPT ![q] = 0]
         /\ lost' = [lost EXCEPT ![q] = IF q \in wait THEN @ + 1 ELSE @]
         /\ DispatchReplies(told, to)
    BY <1>1 DEF ProcessError
<1>6. r \in Replies /\ r.how = "error" /\ HasCase(r)
  <2>1. req[q].account \in Accounts
    BY <1>4 DEF Inv, TypeOK, Requests
  <2>. QED
    BY <1>5, <2>1 DEF Reply, Replies, HasCase
<1>7. \A x \in told : to[x] = r
    BY <1>5
<1>8. told \subseteq {q} /\ (told # {} => req[q].cmd \notin CheckerCmds)
    BY <1>5 DEF CheckerCmds
<1>9. out \in [Queries -> Seq(Replies)] /\ unsent \in [Queries -> Seq(Replies)]
    BY DEF Inv, TypeOK
<1>10. /\ out' \in [Queries -> Seq(Replies)] /\ unsent' \in [Queries -> Seq(Replies)]
       /\ \A p \in Queries : p \notin told => out'[p] = out[p] /\ unsent'[p] = unsent[p]
       /\ q \in told => out'[q] = Append(out[q], r) /\ unsent'[q] = unsent[q]
  <2>1. /\ out' = [p \in Queries |-> IF p \in told /\ HasCase(to[p]) THEN Append(out[p], to[p]) ELSE out[p]]
        /\ unsent' = [p \in Queries |->
                       IF p \in told /\ ~HasCase(to[p]) THEN Append(unsent[p], to[p]) ELSE unsent[p]]
    BY <1>5 DEF DispatchReplies
  <2>2. ASSUME NEW p \in Queries, p \notin told PROVE out'[p] = out[p] /\ unsent'[p] = unsent[p]
    BY <2>1, <2>2
  <2>3. ASSUME NEW p \in Queries, p \in told
        PROVE  out'[p] = Append(out[p], r) /\ unsent'[p] = unsent[p]
    <3>1. to[p] = r /\ HasCase(to[p])
        BY <1>6, <1>7, <2>3
    <3>. QED
        BY <2>1, <2>3, <3>1
  <2>4. ASSUME NEW p \in Queries PROVE out'[p] \in Seq(Replies) /\ unsent'[p] \in Seq(Replies)
    <3>1. out[p] \in Seq(Replies) /\ unsent[p] \in Seq(Replies) /\ Append(out[p], r) \in Seq(Replies)
        BY <1>6, <1>9
    <3>. QED
        BY <2>2, <2>3, <3>1
  <2>5. out' \in [Queries -> Seq(Replies)] /\ unsent' \in [Queries -> Seq(Replies)]
    BY <2>1, <2>4
  <2>. QED
    BY <2>2, <2>3, <2>5
<1>11. /\ refs \in [Queries -> 0..2] /\ lost \in [Queries -> 0..2] /\ left \in [Queries -> -1..Timeout]
       /\ \A p \in Queries :
            refs[p] = (IF p \in wait THEN 1 ELSE 0) + (IF p \in unit THEN 1 ELSE 0) + lost[p]
    BY DEF Inv, TypeOK, RefsAccounted
<1>12. \A p \in Queries : /\ lost'[p] = IF p = q /\ p \in wait THEN lost[p] + 1 ELSE lost[p]
                          /\ (p \in wait' <=> p \in wait /\ p # q)
    BY <1>5, <1>11
<1>13. TypeOK'
  <2>1. lost' \in [Queries -> 0..2]
    <3>1. q \in wait => lost[q] + 1 \in 0..2
        BY <1>11
    <3>. QED
        BY <1>5, <1>11, <3>1
  <2>2. left' \in [Queries -> -1..Timeout]
    BY <1>5, <1>11 DEF QueryAssumption
  <2>. QED
    BY <1>2, <1>3, <1>5, <1>10, <2>1, <2>2 DEF Inv, TypeOK
<1>14. RefsAccounted'
  <2>. SUFFICES ASSUME NEW p \in Queries
                PROVE  refs[p] = (IF p \in wait' THEN 1 ELSE 0) + (IF p \in unit THEN 1 ELSE 0) + lost'[p]
    BY <1>2 DEF RefsAccounted
  <2>. QED
    BY <1>11, <1>12
<1>15. ASSUME NEW p \in Queries, p \notin told
       PROVE  out'[p] = out[p] /\ unsent'[p] = unsent[p]
    BY <1>10, <1>15
<1>16. ASSUME q \in told
       PROVE  /\ unsent[q] = <<>> /\ unsent'[q] = <<>> /\ Len(out[q]) \in Nat
              /\ DOMAIN out[q] = 1..Len(out[q]) /\ DOMAIN out'[q] = 1..(Len(out[q]) + 1)
              /\ \A i \in DOMAIN out[q] : out'[q][i] = out[q][i]
              /\ out'[q][Len(out[q]) + 1] = r /\ out'[q] # <<>>
  <2>1. out[q] \in Seq(Replies) /\ out'[q] = Append(out[q], r) /\ unsent'[q] = unsent[q]
    BY <1>9, <1>10, <1>16
  <2>2. unsent[q] = <<>>
    BY <1>8, <1>16 DEF Inv, RepliesOK
  <2>. QED
    BY <2>1, <2>2
<1>17. OnlyErrorsComeLate'
  <2>. SUFFICES ASSUME NEW p \in Queries
                PROVE  /\ \A i, j \in DOMAIN out'[p] :
                            i < j => out'[p][i].how # "error" /\ out'[p][j].how = "error"
                       /\ Len(unsent'[p]) <= 1
                       /\ unsent'[p] # <<>> => out'[p] = <<>>
    BY DEF OnlyErrorsComeLate
  <2>1. /\ \A i, j \in DOMAIN out[p] : i < j => out[p][i].how # "error" /\ out[p][j].how = "error"
        /\ Len(unsent[p]) <= 1
        /\ unsent[p] # <<>> => out[p] = <<>>
    BY DEF Inv, OnlyErrorsComeLate
  <2>2. CASE p \notin told
    BY <1>15, <2>1, <2>2
  <2>3. CASE p \in told
    <3>1. p = q
        BY <1>8, <2>3
    <3>2. \A i \in DOMAIN out[q] : out[q][i].how # "error"
        BY <1>4 DEF ErrorReplied
    <3>3. ASSUME NEW i \in DOMAIN out'[q], NEW j \in DOMAIN out'[q], i < j
          PROVE  out'[q][i].how # "error" /\ out'[q][j].how = "error"
      <4>1. i \in DOMAIN out[q] /\ (j \in DOMAIN out[q] \/ j = Len(out[q]) + 1)
        BY <1>16, <2>3, <3>1, <3>3
      <4>2. j \notin DOMAIN out[q]
        BY <2>1, <3>1, <3>2, <3>3, <4>1
      <4>. QED
        BY <1>6, <1>16, <2>3, <3>1, <3>2, <4>1, <4>2
    <3>. QED
        BY <1>16, <2>3, <3>1, <3>3
  <2>. QED
    BY <2>2, <2>3
<1>18. CheckerGetsItsOrder'
  <2>. SUFFICES ASSUME NEW p \in Queries, NEW x \in Range(out'[p]) \cup Range(unsent'[p]),
                       x.how = "result", req[p].cmd \in CheckerCmds
                PROVE  Suits(x, req[p])
    BY <1>2 DEF CheckerGetsItsOrder, Suits
  <2>1. p \notin told
    BY <1>8
  <2>. QED
    BY <1>15, <2>1 DEF Inv, CheckerGetsItsOrder, Suits
<1>19. ASSUME NEW p \in Queries PROVE LifeOK(p)' /\ RepliesOK(p)'
  <2>1. LifeOK(p) /\ RepliesOK(p)
    BY DEF Inv
  <2>2. Once(QueryMsg(p))' /\ Once(ErrorMsg(p))'
    BY <1>3, <2>1 DEF LifeOK, InUnit, QueryMsg, ErrorMsg
  <2>3. (In(QueryMsg(p))' => In(QueryMsg(p))) /\ (In(ErrorMsg(p))' => In(ErrorMsg(p)))
    BY <1>3 DEF QueryMsg, ErrorMsg
  <2>4. CASE p = q
    <3>1. LifeOK(p)'
        BY <1>2, <1>4, <2>2, <2>3, <2>4 DEF LifeOK, InUnit
    <3>2. RepliesOK(p)'
      <4>1. CASE q \in told
        BY <1>2, <1>4, <1>8, <1>12, <1>16, <2>4, <4>1 DEF RepliesOK
      <4>2. CASE q \notin told
        BY <1>2, <1>12, <1>15, <2>1, <2>4, <4>2 DEF RepliesOK
      <4>. QED
        BY <4>1, <4>2
    <3>. QED
        BY <3>1, <3>2
  <2>5. CASE p # q
    <3>1. out'[p] = out[p] /\ unsent'[p] = unsent[p]
        BY <1>8, <1>15, <2>5
    <3>2. ErrorReplied(p)' <=> ErrorReplied(p)
        BY <3>1 DEF ErrorReplied
    <3>3. Untouched(p) => Untouched(p)'
        BY <1>2, <1>12, <2>3, <2>5, <3>1 DEF Untouched
    <3>. QED
        BY <1>2, <1>12, <2>1, <2>2, <2>3, <2>5, <3>1, <3>2, <3>3 DEF LifeOK, InUnit, RepliesOK
  <2>. QED
    BY <2>4, <2>5
<1>. QED
    BY <1>13, <1>14, <1>17, <1>18, <1>19 DEF Inv

-----------------------------------------------------------------------------
(* The steps that settle waiters                                           *)

\* releasing some waiters resets their clocks
LEMMA ReleaseFacts ==
    ASSUME QueryAssumption, Inv, NEW qs, ReleaseWaiters(qs)
    PROVE  /\ wait' = wait \ qs /\ left' \in [Queries -> -1..Timeout]
           /\ refs' = [q \in Queries |-> IF q \in qs THEN refs[q] - 1 ELSE refs[q]]
<1>1. left \in [Queries -> -1..Timeout] /\ 0 \in -1..Timeout
    BY DEF Inv, TypeOK, QueryAssumption
<1>2. left' = [q \in Queries |-> IF q \in qs THEN 0 ELSE left[q]]
    BY DEF ReleaseWaiters
<1>3. left' \in [Queries -> -1..Timeout]
    BY <1>1, <1>2
<1>. QED
    BY <1>3 DEF ReleaseWaiters

\* a waiter has a request
LEMMA WaiterAsked ==
    ASSUME Inv, NEW q \in wait
    PROVE  q \in Queries /\ req[q] \in Requests /\ req[q].account \in Accounts
<1>1. q \in Queries
    BY DEF Inv, TypeOK
<1>2. req[q] # NULL /\ req[q] \in Requests \cup {NULL}
    BY <1>1 DEF Inv, TypeOK, LifeOK, InUnit, Untouched
<1>. QED
    BY <1>1, <1>2 DEF Requests

\* The expired waiters leave; clients' queries get a timeout.
LEMMA TimeoutsInv ==
    ASSUME QueryAssumption, Inv, CheckTimeouts
    PROVE  Inv'
<1>. DEFINE late == {q \in wait : Expired(q)}
            told == {q \in late : req[q].cmd \notin CheckerCmds}
            to == [q \in told |-> TimeoutReply(q)]
<1>1. DispatchReplies(told, to) /\ ReleaseWaiters(late)
    BY DEF CheckTimeouts
<1>2. UNCHANGED <<req, msgs, partial, lost, unit, prepared, asked, records>> /\ pc' = "get"
    BY DEF CheckTimeouts
<1>3. ASSUME NEW q \in told
      PROVE  /\ to[q] \in Replies /\ to[q].how = "timeout" /\ HasCase(to[q])
             /\ req[q].cmd \notin CheckerCmds
  <2>1. req[q].account \in Accounts
    BY WaiterAsked
  <2>2. to[q] = TimeoutReply(q)
    OBVIOUS
  <2>. QED
    BY <2>1, <2>2 DEF TimeoutReply, Reply, Replies, HasCase
<1>4. late \subseteq wait /\ told \subseteq late
    OBVIOUS
<1>. HIDE DEF late, told, to
<1>5. /\ wait' = wait \ late /\ left' \in [Queries -> -1..Timeout]
      /\ refs' = [q \in Queries |-> IF q \in late THEN refs[q] - 1 ELSE refs[q]]
    BY <1>1, ReleaseFacts
<1>6. /\ msgs' \in Seq(Messages) /\ (\A x : In(x)' => In(x)) /\ (\A x : Once(x) => Once(x)')
      /\ partial' \in [Kinds \X Accounts -> SUBSET Records]
      /\ pc' \in {"check", "get", "stopped"} /\ records' \in 0..MaxRecords
    BY <1>2 DEF In, Once, Inv, TypeOK
<1>7. UNCHANGED <<req, lost, unit, prepared, asked>>
    BY <1>2
<1>8. \A q \in told :
        /\ to[q] \in Replies /\ to[q].how \in {"result", "timeout"}
        /\ HasCase(to[q]) <=> req[q].cmd \notin CheckerCmds
        /\ to[q].how = "result" /\ req[q].cmd \in CheckerCmds =>
              Suits(to[q], req[q])
    BY <1>3
<1>. QED
    BY <1>1, <1>4, <1>5, <1>6, <1>7, <1>8, SettleInv

\* A record is collected; the last one answers the waiters it matches.
LEMMA RecordInv ==
    ASSUME QueryAssumption, Inv, ProcessRecord
    PROVE  Inv'
<1>1. PICK m \in Messages : m = Head(msgs) /\ m.type = "record"
    BY DEF ProcessRecord, Take, Inv, TypeOK
<1>2. /\ msgs \in Seq(Messages) /\ msgs # <<>> /\ msgs' = Tail(msgs) /\ pc' = "check"
      /\ UNCHANGED <<req, lost, unit, prepared, asked, records>>
    BY DEF ProcessRecord, Take, Inv, TypeOK
<1>3. /\ msgs' \in Seq(Messages) /\ (\A x : In(x)' => In(x)) /\ (\A x : Once(x) => Once(x)')
    BY <1>1, <1>2, TakeFacts
<1>4. /\ <<m.kind, m.account>> \in Kinds \X Accounts
      /\ m.account \in Accounts /\ m.rec \in Records /\ m.kind \in Kinds
    BY <1>1, HeadIs
<1>5. pc' \in {"check", "get", "stopped"} /\ records' \in 0..MaxRecords
    BY <1>2 DEF Inv, TypeOK
<1>6. PICK got \in SUBSET Records : got = partial[<<m.kind, m.account>>] \cup {m.rec}
    BY <1>4 DEF Inv, TypeOK
<1>7. partial \in [Kinds \X Accounts -> SUBSET Records]
    BY DEF Inv, TypeOK
<1>8. CASE m.last
  <2>1. /\ AnswerWaiters(m.kind, m.account, got)
        /\ partial' = [partial EXCEPT ![<<m.kind, m.account>>] = {}]
    BY <1>1, <1>6, <1>8 DEF ProcessRecord
  <2>2. partial' \in [Kinds \X Accounts -> SUBSET Records]
    BY <1>4, <1>7, <2>1
  <2>. DEFINE hits == {q \in wait : Answers(m.kind, m.account, NumbersOf(got), req[q])}
              to == [q \in hits |-> ResultReply(q, m.kind, m.account, got)]
  <2>3. DispatchReplies(hits, to) /\ ReleaseWaiters(hits)
    BY <2>1 DEF AnswerWaiters
  <2>4. ASSUME NEW q \in hits
        PROVE  /\ to[q] \in Replies /\ to[q].how \in {"result", "timeout"}
               /\ HasCase(to[q]) <=> req[q].cmd \notin CheckerCmds
               /\ to[q].how = "result" /\ req[q].cmd \in CheckerCmds =>
                     Suits(to[q], req[q])
    <3>. DEFINE bad == Invalid(m.kind, got)
    <3>1. to[q] = ResultReply(q, m.kind, m.account, got)
        OBVIOUS
    <3>2. NumbersOf(got \ bad) \subseteq Numbers /\ NumbersOf(bad) \subseteq Numbers
        BY DEF NumbersOf, Invalid, Records
    <3>3. /\ to[q] \in Replies /\ to[q].how = "result" /\ to[q].account = m.account
          /\ to[q].nos = NumbersOf(got \ bad) /\ to[q].cut = NumbersOf(bad)
          /\ HasCase(to[q]) <=> req[q].cmd \notin CheckerCmds
      <4>. HIDE DEF bad
      <4>. QED
        BY <1>4, <3>1, <3>2 DEF ResultReply, Reply, Replies, HasCase, bad
    <3>4. ASSUME req[q].cmd \in CheckerCmds PROVE Suits(to[q], req[q])
      <4>1. Answers(m.kind, m.account, NumbersOf(got), req[q])
        OBVIOUS
      <4>2. m.kind \in {"account", "openinter", "entrust", "deal"}
        BY <1>4 DEF Kinds, KindOf, AllCmds
      <4>3. /\ req[q].account = m.account /\ req[q].no \in NumbersOf(got)
            /\ m.kind = "deal" => req[q].cmd = "checker_deal"
        BY <3>4, <4>1, <4>2 DEF Answers, CheckerCmds
      <4>4. req[q].no \in NumbersOf(got \ bad) \/ req[q].no \in NumbersOf(bad)
        BY <4>3 DEF NumbersOf
      <4>5. m.kind # "deal" => bad = {}
        BY DEF Invalid
      <4>6. m.kind # "deal" => req[q].no \notin NumbersOf(bad)
        BY <4>5 DEF NumbersOf
      <4>. QED
        BY <3>3, <4>3, <4>4, <4>6 DEF Suits
    <3>. QED
        BY <3>3, <3>4
  <2>5. hits \subseteq wait
    OBVIOUS
  <2>. HIDE DEF hits, to
  <2>6. /\ wait' = wait \ hits /\ left' \in [Queries -> -1..Timeout]
        /\ refs' = [q \in Queries |-> IF q \in hits THEN refs[q] - 1 ELSE refs[q]]
    BY <2>3, ReleaseFacts
  <2>7. UNCHANGED <<req, lost, unit, prepared, asked>>
    BY <1>2
  <2>. QED
    BY <1>3, <1>5, <2>2, <2>3, <2>4, <2>5, <2>6, <2>7, SettleInv
<1>9. CASE ~m.last
  <2>1. /\ partial' = [partial EXCEPT ![<<m.kind, m.account>>] = got]
        /\ UNCHANGED <<waitVars, refs, out, unsent>>
    BY <1>1, <1>6, <1>9 DEF ProcessRecord
  <2>2. partial' \in [Kinds \X Accounts -> SUBSET Records]
    BY <1>4, <1>6, <1>7, <2>1
  <2>3. left' \in [Queries -> -1..Timeout]
    BY <2>1 DEF waitVars, Inv, TypeOK
  <2>4. UNCHANGED <<req, wait, refs, lost, unit, prepared, asked, out, unsent>>
    BY <1>2, <2>1 DEF waitVars
  <2>. QED
    BY <1>3, <1>5, <2>2, <2>3, <2>4, FrameInv
<1>. QED
    BY <1>8, <1>9

\* stop() releases what is left, in silence.
LEMMA StopInv ==
    ASSUME QueryAssumption, Inv, Stop
    PROVE  Inv'
<1>1. /\ pc' = "stopped" /\ msgs' = <<>> /\ ReleaseWaiters(wait)
      /\ partial' = [k \in Kinds \X Accounts |-> {}]
      /\ UNCHANGED <<req, lost, unit, prepared, asked, records, out, unsent>>
    BY DEF Stop
<1>2. PICK to : to = [q \in {} |-> NULL]
    OBVIOUS
<1>3. DispatchReplies({}, to)
  <2>1. out \in [Queries -> Seq(Replies)] /\ unsent \in [Queries -> Seq(Replies)]
    BY DEF Inv, TypeOK
  <2>. QED
    BY <1>1, <2>1 DEF DispatchReplies
<1>4. /\ wait' = wait \ wait /\ left' \in [Queries -> -1..Timeout]
      /\ refs' = [q \in Queries |-> IF q \in wait THEN refs[q] - 1 ELSE refs[q]]
    BY <1>1, ReleaseFacts
<1>5. msgs' \in Seq(Messages) /\ (\A x : In(x)' => In(x)) /\ (\A x : Once(x) => Once(x)')
    BY <1>1 DEF In, Once
<1>6. /\ partial' \in [Kinds \X Accounts -> SUBSET Records]
      /\ pc' \in {"check", "get", "stopped"} /\ records' \in 0..MaxRecords
    BY <1>1 DEF Inv, TypeOK
<1>7. UNCHANGED <<req, lost, unit, prepared, asked>>
    BY <1>1
<1>8. {} \subseteq wait /\ wait \subseteq wait
    OBVIOUS
<1>9. \A q \in {} :
        /\ to[q] \in Replies /\ to[q].how \in {"result", "timeout"}
        /\ HasCase(to[q]) <=> req[q].cmd \notin CheckerCmds
        /\ to[q].how = "result" /\ req[q].cmd \in CheckerCmds =>
              Suits(to[q], req[q])
    OBVIOUS
<1>. QED
    BY <1>3, <1>4, <1>5, <1>6, <1>7, <1>8, <1>9, SettleInv

\* Time passes, or the thread finds nothing to do.
LEMMA IdleInv ==
    ASSUME QueryAssumption, Inv, Tick \/ GetNothing \/ UNCHANGED vars
    PROVE  Inv'
<1>1. UNCHANGED <<req, wait, refs, lost, unit, prepared, asked, out, unsent>>
    BY DEF Tick, GetNothing, vars, waitVars
<1>2. left' \in [Queries -> -1..Timeout]
  <2>1. left \in [Queries -> -1..Timeout]
    BY DEF Inv, TypeOK
  <2>2. CASE left' = left
    BY <2>1, <2>2
  <2>3. CASE Tick
    <3>1. left' = [q \in Queries |-> IF q \in wait /\ left[q] >= 0 THEN left[q] - 1 ELSE left[q]]
        BY <2>3 DEF Tick
    <3>2. ASSUME NEW q \in Queries
          PROVE  (IF q \in wait /\ left[q] >= 0 THEN left[q] - 1 ELSE left[q]) \in -1..Timeout
      <4>1. left[q] \in -1..Timeout /\ Timeout \in Nat
        BY <2>1 DEF QueryAssumption
      <4>. QED
        BY <4>1
    <3>. QED
        BY <3>1, <3>2
  <2>. QED
    BY <2>2, <2>3 DEF GetNothing, vars, waitVars
<1>3. msgs' = msgs /\ partial' = partial /\ records' = records /\ (pc' = pc \/ pc' = "check")
    BY DEF Tick, GetNothing, vars
<1>4. /\ msgs' \in Seq(Messages) /\ (\A x : In(x)' => In(x)) /\ (\A x : Once(x) => Once(x)')
      /\ partial' \in [Kinds \X Accounts -> SUBSET Records]
      /\ pc' \in {"check", "get", "stopped"} /\ records' \in 0..MaxRecords
    BY <1>3 DEF In, Once, Inv, TypeOK
<1>. QED
    BY <1>1, <1>2, <1>4, FrameInv

LEMMA StepInv ==
    ASSUME QueryAssumption, Inv, [Next]_vars
    PROVE  Inv'
<1>1. CASE \E q \in Queries : \/ ClientQuery(q) \/ UnitSend(q) \/ UnitFail(q) \/ UnitRelease(q)
                             \/ BrokerRecord(q)
    BY <1>1, ClientInv, SendInv, FailInv, UnitInv, BrokerInv
<1>. QED
    BY <1>1, TimeoutsInv, QueryInv, RecordInv, ErrorInv, StopInv, IdleInv DEF Next, RunStep

LEMMA InvHolds == Spec => []Inv
<1>1. Init => Inv
    BY QueryAssumption, InitInv
<1>2. Inv /\ [Next]_vars => Inv'
    BY QueryAssumption, StepInv
<1>. QED
    BY <1>1, <1>2, PTL DEF Spec

-----------------------------------------------------------------------------
(* The theorems                                                            *)

\* Every variable keeps its type: no dictionary is ever held more than twice and
\* no count is dropped below zero.
THEOREM QueryTypes == Spec => []TypeOK
<1>1. Inv => TypeOK
    BY DEF Inv
<1>. QED
    BY <1>1, InvHolds, PTL

\* The waiter, the trade unit and the references dropped without a release
\* account for every reference to a forwarded dictionary, in process_qry_*,
\* process_rsp_*, process_cmd_error, the timeouts and stop().
THEOREM QueryReferencesCounted == Spec => []RefsAccounted
<1>1. Inv => RefsAccounted
    BY DEF Inv
<1>. QED
    BY <1>1, InvHolds, PTL

\* However answers, timeouts and errors race, a query gets one result or one
\* timeout, and after it at most one error.
THEOREM QueryAnsweredOnce == Spec => []OnlyErrorsComeLate
<1>1. Inv => OnlyErrorsComeLate
    BY DEF Inv
<1>. QED
    BY <1>1, InvHolds, PTL

\* A checker's result is about its own account and carries its own order, or, of
\* a deal, a record of that order was taken out because its code is invalid.
THEOREM CheckerAnswerIsItsOrder == Spec => []CheckerGetsItsOrder
<1>1. Inv => CheckerGetsItsOrder
    BY DEF Inv
<1>. QED
    BY <1>1, InvHolds, PTL
=============================================================================
