----------------------------- MODULE TradeProofs -----------------------------
(***************************************************************************)
(* Proofs about the two threads of ctp_trade's trading half.               *)
(*                                                                         *)
(* TradeProcessor, for any withdrawals, orders and rows: a withdrawal has  *)
(* one fate, the dictionary shared with the trade unit is counted right,   *)
(* and no withdrawal waits behind more than one other message while the    *)
(* thread runs.                                                            *)
(*                                                                         *)
(* TradeUnit, for any bounds of the environment and whatever times the     *)
(* front keeps: the types, and that the watchdog gives each API object its *)
(* time to connect, but for the one case the code loses sight of it.       *)
(***************************************************************************)
EXTENDS TradeProcessor, TradeUnit, TLAPS

-----------------------------------------------------------------------------
(* Sequences without repetition                                            *)

Distinct(s) == \A i, j \in DOMAIN s : s[i] = s[j] => i = j

LEMMA AppendFacts ==
    ASSUME NEW S, NEW s \in Seq(S), NEW x \in S
    PROVE  /\ Append(s, x) \in Seq(S) /\ ToSet(Append(s, x)) = ToSet(s) \cup {x}
           /\ Distinct(s) /\ x \notin ToSet(s) => Distinct(Append(s, x))
<1>1. Append(s, x) \in Seq(S) /\ Len(s) \in Nat
    OBVIOUS
<1>2. /\ DOMAIN s = 1..Len(s) /\ DOMAIN Append(s, x) = 1..(Len(s) + 1)
      /\ \A i \in DOMAIN s : i \in DOMAIN Append(s, x) /\ Append(s, x)[i] = s[i]
      /\ Append(s, x)[Len(s) + 1] = x /\ Len(s) + 1 \in DOMAIN Append(s, x)
      /\ \A i \in DOMAIN Append(s, x) : i \in DOMAIN s \/ i = Len(s) + 1
    OBVIOUS
<1>. QED
    BY <1>1, <1>2 DEF ToSet, Distinct

LEMMA TailFacts ==
    ASSUME NEW S, NEW s \in Seq(S), s # <<>>
    PROVE  /\ Head(s) \in S /\ Tail(s) \in Seq(S) /\ Head(s) \in ToSet(s)
           /\ ToSet(Tail(s)) \subseteq ToSet(s)
           /\ Distinct(s) => ToSet(Tail(s)) = ToSet(s) \ {Head(s)} /\ Distinct(Tail(s))
<1>. DEFINE t == Tail(s)
<1>1. /\ t \in Seq(S) /\ Head(s) \in S /\ Len(s) \in Nat
      /\ DOMAIN s = 1..Len(s) /\ DOMAIN t = 1..(Len(s) - 1)
      /\ 1 \in DOMAIN s /\ Head(s) = s[1]
      /\ \A i \in DOMAIN t : i + 1 \in DOMAIN s /\ t[i] = s[i + 1]
    OBVIOUS
<1>. HIDE DEF t
<1>2. ToSet(t) \subseteq ToSet(s) /\ Head(s) \in ToSet(s)
    BY <1>1 DEF ToSet
<1>3. ASSUME Distinct(s) PROVE Head(s) \notin ToSet(t)
  <2>1. ASSUME NEW i \in DOMAIN t PROVE t[i] # s[1]
    <3>1. i + 1 # 1
        BY <1>1
    <3>. QED
        BY <1>1, <1>3, <3>1 DEF Distinct
  <2>. QED
    BY <1>1, <2>1 DEF ToSet
<1>4. ASSUME NEW x \in ToSet(s), x # Head(s) PROVE x \in ToSet(t)
  <2>1. PICK i \in DOMAIN s : s[i] = x
    BY <1>4 DEF ToSet
  <2>2. i - 1 \in DOMAIN t /\ t[i - 1] = s[i]
    BY <1>1, <1>4, <2>1
  <2>. QED
    BY <2>1, <2>2 DEF ToSet
<1>5. ASSUME Distinct(s) PROVE Distinct(t)
  <2>. SUFFICES ASSUME NEW i \in DOMAIN t, NEW j \in DOMAIN t, t[i] = t[j] PROVE i = j
    BY DEF Distinct
  <2>1. i + 1 = j + 1
    BY <1>1, <1>5 DEF Distinct
  <2>. QED
    BY <1>1, <2>1
<1>. QED
    BY <1>1, <1>2, <1>3, <1>4, <1>5 DEF t

LEMMA EmptyFacts == ToSet(<<>>) = {} /\ Distinct(<<>>)
BY DEF ToSet, Distinct

-----------------------------------------------------------------------------
(* The invariant                                                           *)

\* A withdrawal that has not had its turn has no shared dictionary yet.
Fresh ==
    \A r \in Reqs : fate[r] = "unposted" \/ Queued(r) =>
        refs[r] = 0 /\ lost[r] = 0 /\ r \notin unit

\* what the steps below keep, all of it together
Inv == TypeOK /\ Distinct(withdraw_queue) /\ OneFate /\ RefsAccounted /\ Fresh

LEMMA InitInv == ProcessorAssumption /\ Init => Inv
<1>. SUFFICES ASSUME ProcessorAssumption, Init PROVE Inv
    OBVIOUS
<1>1. /\ withdraw_queue = <<>> /\ msg_queue = <<>> /\ wait_queue = {} /\ unit = {}
      /\ refs = [r \in Reqs |-> 0] /\ lost = [r \in Reqs |-> 0]
      /\ fate = [r \in Reqs |-> "unposted"]
    BY DEF Init
<1>2. TypeOK
    BY DEF Init, TypeOK, ProcessorAssumption, Fates, Stages
<1>3. \A r \in Reqs : ~Queued(r) /\ ~Waiting(r)
    BY <1>1, EmptyFacts DEF Queued, Waiting
<1>4. OneFate
    BY <1>1, <1>3 DEF OneFate
<1>5. RefsAccounted
    BY <1>1, <1>3 DEF RefsAccounted, Count
<1>6. Fresh
    BY <1>1 DEF Fresh
<1>7. Distinct(withdraw_queue)
    BY <1>1, EmptyFacts
<1>. QED
    BY <1>2, <1>4, <1>5, <1>6, <1>7 DEF Inv

LEMMA PostInv ==
    ASSUME Inv, NEW r \in Reqs, PostWithdraw(r)
    PROVE  Inv'
<1>1. /\ fate[r] = "unposted" /\ fate' = [fate EXCEPT ![r] = "open"]
      /\ withdraw_queue' = Append(withdraw_queue, r)
      /\ UNCHANGED <<dataVars, msg_queue, wait_queue, pc, refVars, rspVars, overtaken, stage, msgs>>
    BY DEF PostWithdraw
<1>2. withdraw_queue \in Seq(Reqs) /\ fate \in [Reqs -> Fates]
    BY DEF Inv, TypeOK
<1>3. ~Queued(r) /\ ~Waiting(r)
    BY <1>1 DEF Inv, OneFate
<1>4. /\ withdraw_queue' \in Seq(Reqs) /\ Distinct(withdraw_queue')
      /\ ToSet(withdraw_queue') = ToSet(withdraw_queue) \cup {r}
    BY <1>1, <1>2, <1>3, AppendFacts DEF Inv, Queued
<1>5. \A q \in Reqs : (Queued(q)' <=> Queued(q) \/ q = r) /\ (Waiting(q)' <=> Waiting(q))
    BY <1>1, <1>4 DEF Queued, Waiting
<1>6. \A q \in Reqs : fate'[q] = IF q = r THEN "open" ELSE fate[q]
    BY <1>1, <1>2
<1>7. TypeOK'
    BY <1>1, <1>4 DEF Inv, TypeOK, Fates, dataVars, refVars, rspVars
<1>8. OneFate'
    BY <1>3, <1>5, <1>6 DEF Inv, OneFate
<1>9. RefsAccounted'
    BY <1>1, <1>5 DEF Inv, RefsAccounted, refVars, Count
<1>10. Fresh'
    BY <1>1, <1>5, <1>6 DEF Inv, Fresh, refVars
<1>. QED
    BY <1>4, <1>7, <1>8, <1>9, <1>10 DEF Inv

\* What every withdrawal that has its turn does to the queue.
LEMMA WithdrawalFacts ==
    ASSUME Inv, NEW r \in Reqs, Withdrawal(r)
    PROVE  /\ withdraw_queue' \in Seq(Reqs) /\ Distinct(withdraw_queue')
           /\ \A q \in Reqs : Queued(q)' <=> Queued(q) /\ q # r
           /\ Queued(r) /\ ~Waiting(r) /\ fate[r] = "open"
           /\ refs[r] = 0 /\ lost[r] = 0 /\ r \notin unit
           /\ UNCHANGED <<msg_queue, pc, stage, msgs>>
<1>1. /\ withdraw_queue \in Seq(Reqs) /\ withdraw_queue # <<>> /\ r = Head(withdraw_queue)
      /\ withdraw_queue' = Tail(withdraw_queue) /\ UNCHANGED <<msg_queue, pc, stage, msgs>>
    BY DEF Inv, TypeOK, Withdrawal
<1>2. /\ withdraw_queue' \in Seq(Reqs) /\ Distinct(withdraw_queue')
      /\ ToSet(withdraw_queue') = ToSet(withdraw_queue) \ {r} /\ r \in ToSet(withdraw_queue)
    BY <1>1, TailFacts DEF Inv
<1>. QED
    BY <1>1, <1>2 DEF Queued, Inv, OneFate, Fresh

\* Answers to withdrawals that are open are answers once.
LEMMA ReplyFacts ==
    ASSUME fate \in [Reqs -> Fates], rsp_queue \subseteq Reqs, NEW rs, rs \subseteq Reqs, Reply(rs),
           \A r \in rs : fate[r] = "open"
    PROVE  /\ fate' \in [Reqs -> Fates] /\ rsp_queue' \subseteq Reqs
           /\ \A r \in Reqs : fate'[r] = IF r \in rs THEN "answered" ELSE fate[r]
BY DEF Reply, Fates

LEMMA RefusedInv ==
    ASSUME Inv, NEW r \in Reqs, WithdrawRefused(r) \/ WithdrawUnknown(r)
    PROVE  Inv'
<1>1. Withdrawal(r) /\ Reply({r}) /\ UNCHANGED <<OrderOf, wait_queue, refVars, rspPc, overtaken>>
    BY DEF WithdrawRefused, WithdrawUnknown, dataVars
<1>2. row' \in [Orders -> {"absent", "live", "closed"}]
    BY DEF WithdrawRefused, WithdrawUnknown, dataVars, Inv, TypeOK
<1>3. /\ fate' \in [Reqs -> Fates] /\ rsp_queue' \subseteq Reqs
      /\ \A q \in Reqs : fate'[q] = IF q \in {r} THEN "answered" ELSE fate[q]
  <2>1. {r} \subseteq Reqs /\ \A q \in {r} : fate[q] = "open"
    BY <1>1, WithdrawalFacts
  <2>2. fate \in [Reqs -> Fates] /\ rsp_queue \subseteq Reqs
    BY DEF Inv, TypeOK
  <2>. HIDE DEF Reply
  <2>. QED
    BY <1>1, <2>1, <2>2, ReplyFacts
<1>4. \A q \in Reqs : Waiting(q)' <=> Waiting(q)
    BY <1>1 DEF Waiting
<1>5. TypeOK'
    BY <1>1, <1>2, <1>3, WithdrawalFacts DEF Inv, TypeOK, refVars
<1>6. OneFate'
    BY <1>1, <1>3, <1>4, WithdrawalFacts DEF Inv, OneFate
<1>7. RefsAccounted'
    BY <1>1, <1>4 DEF Inv, RefsAccounted, refVars, Count
<1>8. Fresh'
    BY <1>1, <1>3, WithdrawalFacts DEF Inv, Fresh, refVars
<1>. QED
    BY <1>1, <1>5, <1>6, <1>7, <1>8, WithdrawalFacts DEF Inv

\* retain, push_back, dispatch_message: the references are the wait queue's and
\* the unit's, or the one the server drops
LEMMA SentInv ==
    ASSUME Inv, NEW r \in Reqs, WithdrawSent(r)
    PROVE  Inv'
<1>1. /\ Withdrawal(r) /\ ToUnit(r, 2) /\ wait_queue' = wait_queue \cup {r}
      /\ UNCHANGED <<dataVars, rspVars, ghostVars>>
    BY DEF WithdrawSent
<1>2. refs \in [Reqs -> Nat] /\ lost \in [Reqs -> Nat] /\ unit \subseteq Reqs
    BY DEF Inv, TypeOK
<1>3. /\ refs' \in [Reqs -> Nat] /\ lost' \in [Reqs -> Nat] /\ unit' \subseteq Reqs
      /\ \A q \in Reqs : q # r => /\ refs'[q] = refs[q] /\ lost'[q] = lost[q]
                                  /\ (q \in unit' <=> q \in unit)
    BY <1>1, <1>2 DEF ToUnit
<1>4. refs'[r] = 1 + Count(r \in unit') + lost'[r]
    BY <1>1, <1>2, WithdrawalFacts DEF ToUnit, Count
<1>5. \A q \in Reqs : Waiting(q)' <=> Waiting(q) \/ q = r
    BY <1>1 DEF Waiting
<1>6. TypeOK'
    BY <1>1, <1>3, WithdrawalFacts DEF Inv, TypeOK, dataVars, rspVars, ghostVars
<1>7. OneFate'
    BY <1>1, <1>5, WithdrawalFacts DEF Inv, OneFate, ghostVars
<1>8. RefsAccounted'
    BY <1>3, <1>4, <1>5 DEF Inv, RefsAccounted, Count
<1>9. Fresh'
    BY <1>1, <1>3, WithdrawalFacts DEF Inv, Fresh, ghostVars
<1>. QED
    BY <1>1, <1>6, <1>7, <1>8, <1>9, WithdrawalFacts DEF Inv

\* taking a message touches no withdrawal
LEMMA TakeFacts ==
    ASSUME Inv, TakeMessage
    PROVE  /\ msg_queue' \in Seq(Orders \cup {Other})
           /\ overtaken' \in [Reqs -> Nat] /\ pc' = "top"
           /\ UNCHANGED <<dataVars, withdraw_queue, unit, refs, rspPc, stage, msgs>>
           /\ \A q \in Reqs : Queued(q)' <=> Queued(q)
<1>1. msg_queue' \in Seq(Orders \cup {Other})
    BY TailFacts DEF Inv, TypeOK, TakeMessage
<1>. QED
    BY <1>1 DEF Inv, TypeOK, TakeMessage, Queued

LEMMA OtherInv ==
    ASSUME Inv, HandleOther
    PROVE  Inv'
<1>1. TakeMessage /\ UNCHANGED <<wait_queue, lost, rsp_queue, fate>>
    BY DEF HandleOther
<1>2. \A q \in Reqs : (Waiting(q)' <=> Waiting(q)) /\ (Queued(q)' <=> Queued(q))
    BY <1>1, TakeFacts DEF Waiting
<1>3. TypeOK'
    BY <1>1, TakeFacts DEF Inv, TypeOK, dataVars
<1>4. OneFate' /\ RefsAccounted' /\ Fresh'
    BY <1>1, <1>2, TakeFacts DEF Inv, OneFate, RefsAccounted, Fresh, Count
<1>. QED
    BY <1>1, <1>3, <1>4, TakeFacts DEF Inv

\* each withdrawal of the order is answered and its reference dropped
LEMMA StatusInv ==
    ASSUME Inv, StatusResponse
    PROVE  Inv'
<1>. DEFINE rs == Matching(Head(msg_queue))
<1>1. /\ TakeMessage /\ Reply(rs) /\ wait_queue' = wait_queue \ rs
      /\ lost' = [r \in Reqs |-> IF r \in rs THEN lost[r] + 1 ELSE lost[r]]
    BY DEF StatusResponse
<1>2. rs \subseteq wait_queue /\ wait_queue \subseteq Reqs
    BY DEF Matching, Inv, TypeOK
<1>. HIDE DEF rs
<1>3. \A r \in rs : fate[r] = "open" /\ Waiting(r)
    BY <1>2 DEF Waiting, Inv, OneFate
<1>4. /\ fate' \in [Reqs -> Fates] /\ rsp_queue' \subseteq Reqs
      /\ \A r \in Reqs : fate'[r] = IF r \in rs THEN "answered" ELSE fate[r]
    BY <1>1, <1>2, <1>3, ReplyFacts DEF Inv, TypeOK
<1>5. \A q \in Reqs : (Waiting(q)' <=> Waiting(q) /\ q \notin rs) /\ (Queued(q)' <=> Queued(q))
    BY <1>1, TakeFacts DEF Waiting
<1>6. lost' \in [Reqs -> Nat] /\ \A q \in Reqs : lost'[q] = IF q \in rs THEN lost[q] + 1 ELSE lost[q]
    BY <1>1 DEF Inv, TypeOK
<1>7. TypeOK'
    BY <1>1, <1>2, <1>4, <1>6, TakeFacts DEF Inv, TypeOK, dataVars
<1>8. OneFate'
    BY <1>3, <1>4, <1>5 DEF Inv, OneFate
<1>9. RefsAccounted'
  <2>1. refs' = refs /\ unit' = unit /\ refs \in [Reqs -> Nat] /\ lost \in [Reqs -> Nat]
    BY <1>1, TakeFacts DEF Inv, TypeOK
  <2>. QED
    BY <1>3, <1>5, <1>6, <2>1 DEF Inv, RefsAccounted, Count
<1>10. Fresh'
    BY <1>1, <1>3, <1>4, <1>5, <1>6, TakeFacts DEF Inv, Fresh, OneFate
<1>. QED
    BY <1>1, <1>7, <1>8, <1>9, <1>10, TakeFacts DEF Inv

\* the unit is done with some withdrawals: one, or all of them when it is stopped
LEMMA UnitInv ==
    ASSUME Inv, NEW rs, rs \subseteq unit, unit' = unit \ rs,
           refs' = [r \in Reqs |-> IF r \in rs THEN refs[r] - 1 ELSE refs[r]],
           stage' \in Stages, rsp_queue' \subseteq Reqs,
           UNCHANGED <<dataVars, queueVars, pc, lost, rspPc, ghostVars, msgs>>
    PROVE  Inv'
<1>1. refs \in [Reqs -> Nat] /\ lost \in [Reqs -> Nat] /\ unit \subseteq Reqs
    BY DEF Inv, TypeOK
<1>2. \A q \in Reqs : (Waiting(q)' <=> Waiting(q)) /\ (Queued(q)' <=> Queued(q))
    BY DEF Waiting, Queued, queueVars
<1>3. \A q \in Reqs : refs[q] = Count(Waiting(q)) + Count(q \in unit) + lost[q]
    BY DEF Inv, RefsAccounted
<1>4. \A q \in Reqs : refs'[q] = Count(Waiting(q)) + Count(q \in unit') + lost[q] /\ refs'[q] \in Nat
    BY <1>1, <1>3 DEF Count
<1>5. RefsAccounted'
    BY <1>2, <1>4 DEF RefsAccounted, Count
<1>6. TypeOK'
    BY <1>1, <1>4 DEF Inv, TypeOK, dataVars, queueVars, ghostVars
<1>7. OneFate'
    BY <1>2 DEF Inv, OneFate, ghostVars
<1>8. Fresh'
    BY <1>2 DEF Inv, Fresh, ghostVars
<1>. QED
    BY <1>5, <1>6, <1>7, <1>8 DEF Inv, queueVars

\* release_messages: the wait queue's references are released
LEMMA ReleaseInv ==
    ASSUME Inv, ReleaseMessages
    PROVE  Inv'
<1>1. /\ withdraw_queue' = <<>> /\ msg_queue' = <<>> /\ wait_queue' = {}
      /\ UNCHANGED <<dataVars, pc, unit, lost, rspVars, overtaken, msgs>> /\ stage' = "stop_unit"
    BY DEF ReleaseMessages
<1>2. \A q \in Reqs : ~Queued(q)' /\ ~Waiting(q)'
    BY <1>1, EmptyFacts DEF Queued, Waiting
<1>3. refs \in [Reqs -> Nat] /\ lost \in [Reqs -> Nat] /\ fate \in [Reqs -> Fates]
    BY DEF Inv, TypeOK
<1>4. /\ fate' \in [Reqs -> Fates]
      /\ \A q \in Reqs : fate'[q] = IF Queued(q) \/ Waiting(q) THEN "discarded" ELSE fate[q]
    BY <1>3 DEF ReleaseMessages, Waiting, Fates
<1>5. \A q \in Reqs : refs'[q] = Count(q \in unit) + lost[q] /\ refs'[q] \in Nat
    BY <1>3 DEF ReleaseMessages, Inv, RefsAccounted, Waiting, Count
<1>6. TypeOK'
  <2>1. refs' \in [Reqs -> Nat]
    BY <1>5 DEF ReleaseMessages
  <2>. QED
    BY <1>1, <1>4, <2>1 DEF Inv, TypeOK, dataVars, rspVars, Stages
<1>7. OneFate'
    BY <1>2, <1>4 DEF Inv, OneFate
<1>8. RefsAccounted'
    BY <1>1, <1>2, <1>3, <1>5 DEF RefsAccounted, Count
<1>9. Fresh'
    BY <1>1, <1>2, <1>4, <1>5 DEF Inv, Fresh, Count
<1>. QED
    BY <1>1, <1>6, <1>7, <1>8, <1>9, EmptyFacts DEF Inv

\* steps that touch neither withdrawals nor references
LEMMA FrameInv ==
    ASSUME Inv, UNCHANGED <<OrderOf, withdraw_queue, wait_queue, refVars, fate, overtaken>>, TypeOK'
    PROVE  Inv'
<1>1. \A q \in Reqs : (Waiting(q)' <=> Waiting(q)) /\ (Queued(q)' <=> Queued(q))
    BY DEF Waiting, Queued
<1>. QED
    BY <1>1 DEF Inv, OneFate, RefsAccounted, Fresh, refVars, Count

LEMMA StepInv ==
    ASSUME Inv, [Next]_vars
    PROVE  Inv'
<1>1. CASE RunTop \/ WithdrawsDone \/ GetNothing
  <2>1. TypeOK'
    BY <1>1 DEF RunTop, WithdrawsDone, GetNothing, Inv, TypeOK, dataVars, queueVars, refVars,
                rspVars, ghostVars
  <2>. QED
    BY <1>1, <2>1, FrameInv
    DEF RunTop, WithdrawsDone, GetNothing, dataVars, queueVars, refVars, ghostVars
<1>2. ASSUME NEW r \in Reqs, WithdrawRefused(r) \/ WithdrawUnknown(r) \/ WithdrawSent(r)
      PROVE  Inv'
    BY <1>2, RefusedInv, SentInv
<1>3. CASE HandleOther \/ StatusResponse
    BY <1>3, OtherInv, StatusInv
<1>4. CASE RspStep \/ StopBegins \/ StopProcessor
  <2>1. TypeOK'
    BY <1>4 DEF RspStep, RspTop, RspPop, StopBegins, StopProcessor, Inv, TypeOK, Stages,
                dataVars, queueVars, refVars, rspVars, ghostVars
  <2>. QED
    BY <1>4, <2>1, FrameInv
    DEF RspStep, RspTop, RspPop, StopBegins, StopProcessor, dataVars, queueVars, refVars, ghostVars
<1>5. CASE ReleaseMessages
    BY <1>5, ReleaseInv
<1>6. CASE StopUnits
  <2>1. /\ unit \subseteq unit /\ unit' = unit \ unit /\ stage' \in Stages /\ rsp_queue' \subseteq Reqs
        /\ refs' = [r \in Reqs |-> IF r \in unit THEN refs[r] - 1 ELSE refs[r]]
        /\ UNCHANGED <<dataVars, queueVars, pc, lost, rspPc, ghostVars, msgs>>
    BY <1>6 DEF StopUnits, Stages
  <2>. QED
    BY <2>1, UnitInv
<1>7. ASSUME NEW r \in Reqs, UnitDone(r) PROVE Inv'
  <2>1. /\ {r} \subseteq unit /\ unit' = unit \ {r} /\ stage' \in Stages /\ rsp_queue' \subseteq Reqs
        /\ UNCHANGED <<dataVars, queueVars, pc, lost, rspPc, ghostVars, msgs>>
    BY <1>7 DEF UnitDone, rspVars, Inv, TypeOK
  <2>2. refs' = [q \in Reqs |-> IF q \in {r} THEN refs[q] - 1 ELSE refs[q]]
    BY <1>7 DEF UnitDone, Inv, TypeOK
  <2>. QED
    BY <2>1, <2>2, UnitInv
<1>8. ASSUME NEW r \in Reqs, PostWithdraw(r) PROVE Inv'
    BY <1>8, PostInv
<1>9. ASSUME NEW m \in Orders \cup {Other}, PostOther(m) PROVE Inv'
  <2>1. TypeOK'
    BY <1>9, AppendFacts DEF PostOther, Inv, TypeOK, dataVars, refVars, rspVars, ghostVars
  <2>. QED
    BY <1>9, <2>1, FrameInv DEF PostOther, dataVars, ghostVars
<1>10. ASSUME NEW o \in Orders, RowChanges(o) PROVE Inv'
  <2>1. TypeOK'
    BY <1>10 DEF RowChanges, Inv, TypeOK, queueVars, refVars, rspVars, ghostVars
  <2>. QED
    BY <1>10, <2>1, FrameInv DEF RowChanges, queueVars, ghostVars
<1>11. CASE UNCHANGED vars
  <2>1. TypeOK'
    BY <1>11 DEF vars, Inv, TypeOK, dataVars, queueVars, refVars, rspVars, ghostVars
  <2>. QED
    BY <1>11, <2>1, FrameInv DEF vars, dataVars, queueVars, ghostVars
<1>. QED
    BY <1>1, <1>2, <1>3, <1>4, <1>5, <1>6, <1>7, <1>8, <1>9, <1>10, <1>11
    DEF Next, RunStep, StopStep

\* A posted withdrawal is queued, waits, has been answered once or was discarded
\* by stop, for any number of withdrawals of any orders and any interleaving of
\* the posts, the two queues, repeated statuses and the stop of the server.
THEOREM WithdrawalHasOneFate == Spec => []OneFate
<1>1. Init => Inv
    BY ProcessorAssumption, InitInv
<1>2. Inv /\ [Next]_vars => Inv'
    BY StepInv
<1>3. Inv => OneFate
    BY DEF Inv
<1>. QED
    BY <1>1, <1>2, <1>3, PTL DEF Spec

\* The dictionary that the wait queue and the trade unit share has one reference
\* for each of them and those that the code drops without a release.
THEOREM SharedDictionaryCounted == Spec => []RefsAccounted
<1>1. Init => Inv
    BY ProcessorAssumption, InitInv
<1>2. Inv /\ [Next]_vars => Inv'
    BY StepInv
<1>3. Inv => RefsAccounted
    BY DEF Inv
<1>. QED
    BY <1>1, <1>2, <1>3, PTL DEF Spec

-----------------------------------------------------------------------------
(* Withdrawals go first                                                    *)

\* At "get" of a thread that runs, a withdrawal in the queue has just come.
OverInv ==
    \A r \in Reqs :
        /\ fate[r] = "unposted" => overtaken[r] = 0
        /\ overtaken[r] <= IF ~is_running /\ pc \in {"top", "gone"} THEN 2 ELSE 1
        /\ pc = "get" /\ Queued(r) => overtaken[r] <= IF is_running THEN 0 ELSE 1

LEMMA InitOver == Init => OverInv
BY DEF Init, OverInv, is_running

\* a message is taken: each withdrawal in the queue is overtaken once more
LEMMA TakeOver ==
    ASSUME Inv, OverInv, TakeMessage, \A r \in Reqs : fate'[r] = "unposted" => fate[r] = "unposted"
    PROVE  OverInv'
<1>1. /\ pc = "get" /\ pc' = "top" /\ stage' = stage
      /\ \A r \in Reqs : overtaken'[r] = IF Queued(r) THEN overtaken[r] + 1 ELSE overtaken[r]
    BY DEF TakeMessage
<1>2. is_running' <=> is_running
    BY <1>1 DEF is_running
<1>3. \A r \in Reqs : fate[r] = "unposted" => ~Queued(r)
    BY DEF Inv, OneFate
<1>4. \A r \in Reqs : overtaken[r] \in Nat
    BY DEF Inv, TypeOK
<1>. QED
    BY <1>1, <1>2, <1>3, <1>4 DEF OverInv

\* steps that overtake nobody and move no withdrawal into the queue
LEMMA KeepOver ==
    ASSUME Inv, OverInv, UNCHANGED <<overtaken, pc, stage>>,
           \A r \in Reqs : /\ fate'[r] = "unposted" => fate[r] = "unposted"
                           /\ Queued(r)' => Queued(r)
    PROVE  OverInv'
BY DEF OverInv, is_running

LEMMA StepOver ==
    ASSUME Inv, OverInv, [Next]_vars
    PROVE  OverInv'
<1>a. \A r \in Reqs : overtaken[r] \in Nat
    BY DEF Inv, TypeOK
<1>b. ASSUME UNCHANGED <<withdraw_queue, overtaken, fate, pc, stage>> PROVE OverInv'
    BY <1>b, KeepOver DEF Queued
<1>c. ASSUME NEW rs, Reply(rs), NEW r \in Reqs PROVE fate'[r] = "unposted" => fate[r] = "unposted"
    BY <1>c DEF Reply
<1>1. CASE RunTop
  <2>1. /\ UNCHANGED <<withdraw_queue, overtaken, fate, stage>>
        /\ pc = "top" /\ pc' = IF ~is_running THEN "gone" ELSE IF started THEN "withdraws" ELSE "top"
    BY <1>1 DEF RunTop, queueVars, ghostVars
  <2>2. (is_running' <=> is_running) /\ \A r \in Reqs : Queued(r)' <=> Queued(r)
    BY <2>1 DEF is_running, Queued
  <2>. QED
    BY <2>1, <2>2 DEF OverInv
<1>2. CASE WithdrawsDone
  <2>1. /\ UNCHANGED <<withdraw_queue, overtaken, fate, stage>> /\ pc = "withdraws" /\ pc' = "get"
        /\ ~is_running \/ withdraw_queue = <<>>
    BY <1>2 DEF WithdrawsDone, queueVars, ghostVars
  <2>2. /\ is_running' <=> is_running
        /\ \A r \in Reqs : Queued(r)' => ~is_running
    BY <2>1, EmptyFacts DEF is_running, Queued
  <2>. QED
    BY <1>a, <2>1, <2>2 DEF OverInv
<1>3. ASSUME NEW r \in Reqs, WithdrawRefused(r) \/ WithdrawUnknown(r) \/ WithdrawSent(r)
      PROVE  OverInv'
  <2>1. Withdrawal(r) /\ overtaken' = overtaken
    BY <1>3 DEF WithdrawRefused, WithdrawUnknown, WithdrawSent, ghostVars
  <2>2. \A q \in Reqs : fate'[q] = "unposted" => fate[q] = "unposted"
    BY <1>3, <1>c DEF WithdrawRefused, WithdrawUnknown, WithdrawSent, ghostVars
  <2>. QED
    BY <2>1, <2>2, WithdrawalFacts, KeepOver
<1>4. CASE GetNothing
  <2>1. UNCHANGED <<withdraw_queue, overtaken, fate, stage>> /\ pc = "get" /\ pc' = "top"
    BY <1>4 DEF GetNothing, queueVars, ghostVars
  <2>. QED
    BY <1>a, <2>1 DEF OverInv, is_running
<1>5. CASE HandleOther
    BY <1>5, TakeOver DEF HandleOther
<1>6. CASE StatusResponse
    BY <1>6, <1>c, TakeOver DEF StatusResponse
<1>7. CASE RspStep
    BY <1>7, <1>b DEF RspStep, RspTop, RspPop, queueVars, ghostVars
<1>8. CASE StopBegins \/ StopProcessor \/ StopUnits
  <2>1. UNCHANGED <<withdraw_queue, overtaken, fate, pc>> /\ (is_running' => is_running)
    BY <1>8 DEF StopBegins, StopProcessor, StopUnits, queueVars, ghostVars, is_running
  <2>2. \A r \in Reqs : Queued(r)' <=> Queued(r)
    BY <2>1 DEF Queued
  <2>. QED
    BY <1>a, <2>1, <2>2 DEF OverInv
<1>9. CASE ReleaseMessages
  <2>1. /\ UNCHANGED <<overtaken, pc>> /\ pc = "gone" /\ stage = "stop_proc" /\ stage' = "stop_unit"
        /\ \A r \in Reqs : fate'[r] = "unposted" => fate[r] = "unposted"
    BY <1>9 DEF ReleaseMessages
  <2>. QED
    BY <2>1 DEF OverInv, is_running
<1>10. ASSUME NEW r \in Reqs, PostWithdraw(r) PROVE OverInv'
  <2>1. /\ fate[r] = "unposted" /\ fate' = [fate EXCEPT ![r] = "open"]
        /\ withdraw_queue' = Append(withdraw_queue, r) /\ UNCHANGED <<overtaken, pc, stage>>
    BY <1>10 DEF PostWithdraw
  <2>2. \A q \in Reqs : Queued(q)' => Queued(q) \/ q = r
    BY <2>1, AppendFacts DEF Queued, Inv, TypeOK
  <2>3. \A q \in Reqs : fate'[q] = "unposted" => fate[q] = "unposted"
    BY <2>1 DEF Inv, TypeOK
  <2>. QED
    BY <2>1, <2>2, <2>3 DEF OverInv, is_running
<1>11. ASSUME NEW r \in Reqs, UnitDone(r) PROVE OverInv'
    BY <1>11, <1>b DEF UnitDone, queueVars, ghostVars
<1>12. ASSUME NEW m \in Orders \cup {Other}, PostOther(m) PROVE OverInv'
    BY <1>12, <1>b DEF PostOther, ghostVars
<1>13. ASSUME NEW o \in Orders, RowChanges(o) PROVE OverInv'
    BY <1>13, <1>b DEF RowChanges, queueVars, ghostVars
<1>14. CASE UNCHANGED vars
    BY <1>14, <1>b DEF vars, queueVars, ghostVars
<1>. QED
    BY <1>1, <1>2, <1>3, <1>4, <1>5, <1>6, <1>7, <1>8, <1>9, <1>10, <1>11, <1>12, <1>13, <1>14
    DEF Next, RunStep, StopStep

\* process_withdraws empties its queue before each get(): at most one other
\* message is taken before a queued withdrawal while the thread runs, and one
\* more while it is stopped, however many messages are posted.
THEOREM WithdrawalsGoFirst == Spec => []OvertakenOnce
<1>1. Init => Inv /\ OverInv
    BY ProcessorAssumption, InitInv, InitOver
<1>2. Inv /\ OverInv /\ [Next]_vars => (Inv /\ OverInv)'
    BY StepInv, StepOver
<1>3. Inv /\ OverInv => OvertakenOnce
    BY DEF Inv, TypeOK, OverInv, OvertakenOnce
<1>. QED
    BY <1>1, <1>2, <1>3, PTL DEF Spec

-----------------------------------------------------------------------------
(* TradeUnit.  m_last_respond is shared with the API object before: a push *)
(* that comes while that one is released costs the new one its grace, and  *)
(* a tick before the release is done costs one second more.  Patience      *)
(* bounds what a connect in progress can be charged.                       *)

\* While a connect is in progress, the silence it is charged with is not much
\* longer than it has lived, or it has had its time.
Patience ==
    conn = "connecting" =>
        IF rpc = "release" THEN age <= (IF ran THEN 0 ELSE 1)
                           ELSE age <= life + 1 \/ life >= ConnectLimit - 1

\* An object that has not called back is still connecting, and m_conn_state says
\* so unless the object before it overwrote that while it was released.
Noticed ==
    /\ fresh => session = "connecting"
    /\ fresh \/ rpc = "release" => overwritten \/ conn = "connecting"

\* What is posted and not yet sent was posted.
QueueBounded == queue <= posts

\* The two halves of TypeOK: flags, and the rest.
FlagsOK ==
    /\ connected \in BOOLEAN /\ logined \in BOOLEAN /\ loginReq \in BOOLEAN
    /\ net \in BOOLEAN /\ ran \in BOOLEAN /\ fresh \in BOOLEAN /\ overwritten \in BOOLEAN
ValuesOK ==
    /\ conn \in {"connecting", "connected", "disconnected"}
    /\ age \in -Grace..Ancient /\ session \in {"connecting", "up", "in"}
    /\ lag \in 0..LagLimit /\ life \in 0..ConnectLimit
    /\ market \in {"open", "closed", "holiday"} /\ queue \in 0..MaxPosts
    /\ rpc \in {"top", "active", "silent", "release", "after", "gate", "get"}
    /\ posts \in 0..MaxPosts /\ faults \in 0..MaxFaults
    /\ pushes \in 0..MaxPushes /\ turns \in 0..MaxTurns

SessionInv == FlagsOK /\ ValuesOK /\ QueueBounded /\ Patience /\ Noticed

LEMMA BoundsAreNat ==
    MaxPosts \in Nat /\ MaxFaults \in Nat /\ MaxPushes \in Nat /\ MaxTurns \in Nat
BY UnitAssumption DEF UnitAssumption

LEMMA SessionInit == UnitInit => SessionInv
<1>. SUFFICES ASSUME UnitInit PROVE SessionInv
    OBVIOUS
<1>. USE BoundsAreNat DEF Grace, ConnectLimit, SilenceLimit, Ancient, LagLimit
<1>1. FlagsOK
    BY DEF UnitInit, FlagsOK
<1>2. ValuesOK
    BY DEF UnitInit, ValuesOK
<1>3. QueueBounded /\ Patience /\ Noticed
    BY DEF UnitInit, QueueBounded, Patience, Noticed
<1>. QED
    BY <1>1, <1>2, <1>3 DEF SessionInv

-----------------------------------------------------------------------------
(* run()                                                                   *)

LEMMA RunInv ==
    ASSUME SessionInv, UnitRunStep
    PROVE  SessionInv'
<1>. USE BoundsAreNat DEF SessionInv, FlagsOK, ValuesOK, QueueBounded, Patience, unitVars, apiVars,
         envVars, NextRound, Grace, ConnectLimit, SilenceLimit, Ancient, LagLimit
<1>1. CASE UnitRunTop
  <2>1. FlagsOK'
    BY <1>1 DEF UnitRunTop
  <2>2. ValuesOK'
    BY <1>1 DEF UnitRunTop
  <2>3. QueueBounded' /\ Patience'
    BY <1>1 DEF UnitRunTop
  <2>4. Noticed'
    BY <1>1 DEF UnitRunTop, Noticed
  <2>. QED
    BY <2>1, <2>2, <2>3, <2>4
<1>2. CASE MakeActive
  <2>1. FlagsOK'
    BY <1>2 DEF MakeActive
  <2>2. ValuesOK'
    BY <1>2 DEF MakeActive
  <2>3. QueueBounded' /\ Patience'
    BY <1>2 DEF MakeActive
  <2>4. Noticed'
    BY <1>2 DEF MakeActive, Noticed
  <2>. QED
    BY <2>1, <2>2, <2>3, <2>4
<1>3. CASE ReconnectBegin
  <2>1. FlagsOK'
    BY <1>3 DEF ReconnectBegin
  <2>2. ValuesOK'
    BY <1>3 DEF ReconnectBegin
  <2>3. QueueBounded' /\ Patience'
    BY <1>3 DEF ReconnectBegin
  <2>4. Noticed'
    BY <1>3 DEF ReconnectBegin, Noticed
  <2>. QED
    BY <2>1, <2>2, <2>3, <2>4
<1>4. CASE ReconnectFinish
  <2>1. FlagsOK'
    BY <1>4 DEF ReconnectFinish
  <2>2. ValuesOK'
    BY <1>4 DEF ReconnectFinish
  <2>3. QueueBounded' /\ Patience'
    BY <1>4 DEF ReconnectFinish
  <2>4. Noticed'
    BY <1>4 DEF ReconnectFinish, Noticed
  <2>. QED
    BY <2>1, <2>2, <2>3, <2>4
<1>5. CASE NotSilentYet
  <2>1. FlagsOK'
    BY <1>5 DEF NotSilentYet
  <2>2. ValuesOK'
    BY <1>5 DEF NotSilentYet
  <2>3. QueueBounded' /\ Patience'
    BY <1>5 DEF NotSilentYet
  <2>4. Noticed'
    BY <1>5 DEF NotSilentYet, Noticed
  <2>. QED
    BY <2>1, <2>2, <2>3, <2>4
<1>6. CASE RunAfter
  <2>1. FlagsOK'
    BY <1>6 DEF RunAfter
  <2>2. ValuesOK'
    BY <1>6 DEF RunAfter
  <2>3. QueueBounded' /\ Patience'
    BY <1>6 DEF RunAfter
  <2>4. Noticed'
    BY <1>6 DEF RunAfter, Noticed
  <2>. QED
    BY <2>1, <2>2, <2>3, <2>4
<1>7. CASE RunGate
  <2>1. FlagsOK'
    BY <1>7 DEF RunGate
  <2>2. ValuesOK'
    BY <1>7 DEF RunGate
  <2>3. QueueBounded' /\ Patience'
    BY <1>7 DEF RunGate
  <2>4. Noticed'
    BY <1>7 DEF RunGate, Noticed
  <2>. QED
    BY <2>1, <2>2, <2>3, <2>4
<1>8. CASE RunGet
  <2>1. FlagsOK'
    BY <1>8 DEF RunGet
  <2>2. ValuesOK'
    BY <1>8 DEF RunGet
  <2>3. QueueBounded' /\ Patience'
    BY <1>8 DEF RunGet
  <2>4. Noticed'
    BY <1>8 DEF RunGet, Noticed
  <2>. QED
    BY <2>1, <2>2, <2>3, <2>4
<1>. QED
    BY <1>1, <1>2, <1>3, <1>4, <1>5, <1>6, <1>7, <1>8 DEF UnitRunStep

-----------------------------------------------------------------------------
(* The callback thread                                                     *)

LEMMA CallbackInv ==
    ASSUME SessionInv, 
           \/ OnFrontConnected \/ OnFrontDisconnected \/ OnLineTrouble
           \/ OnRspUserLogin \/ OnPush
    PROVE  SessionInv'
<1>. USE BoundsAreNat DEF SessionInv, FlagsOK, ValuesOK, QueueBounded, Patience, unitVars, apiVars,
         envVars, Fault, NoFault, Grace, ConnectLimit, SilenceLimit, Ancient, LagLimit
<1>1. CASE OnFrontConnected
  <2>1. FlagsOK'
    BY <1>1 DEF OnFrontConnected
  <2>2. ValuesOK'
    BY <1>1 DEF OnFrontConnected
  <2>3. QueueBounded' /\ Patience'
    BY <1>1 DEF OnFrontConnected
  <2>4. Noticed'
    BY <1>1 DEF OnFrontConnected, Noticed
  <2>. QED
    BY <2>1, <2>2, <2>3, <2>4
<1>2. CASE OnFrontDisconnected
  <2>1. FlagsOK'
    BY <1>2 DEF OnFrontDisconnected
  <2>2. ValuesOK'
    BY <1>2 DEF OnFrontDisconnected
  <2>3. QueueBounded' /\ Patience'
    BY <1>2 DEF OnFrontDisconnected
  <2>4. Noticed'
    BY <1>2 DEF OnFrontDisconnected, Noticed
  <2>. QED
    BY <2>1, <2>2, <2>3, <2>4
<1>3. CASE OnLineTrouble
  <2>1. FlagsOK'
    BY <1>3 DEF OnLineTrouble
  <2>2. ValuesOK'
    BY <1>3 DEF OnLineTrouble
  <2>3. QueueBounded' /\ Patience'
    BY <1>3 DEF OnLineTrouble
  <2>4. Noticed'
    BY <1>3 DEF OnLineTrouble, Noticed
  <2>. QED
    BY <2>1, <2>2, <2>3, <2>4
<1>4. CASE OnRspUserLogin
  <2>1. FlagsOK'
    BY <1>4 DEF OnRspUserLogin
  <2>2. ValuesOK'
    BY <1>4 DEF OnRspUserLogin
  <2>3. QueueBounded' /\ Patience'
    BY <1>4 DEF OnRspUserLogin
  <2>4. Noticed'
    BY <1>4 DEF OnRspUserLogin, Noticed
  <2>. QED
    BY <2>1, <2>2, <2>3, <2>4
<1>5. CASE OnPush
  <2>1. FlagsOK'
    BY <1>5 DEF OnPush
  <2>2. ValuesOK'
    BY <1>5 DEF OnPush
  <2>3. QueueBounded' /\ Patience'
    BY <1>5 DEF OnPush
  <2>4. Noticed'
    BY <1>5 DEF OnPush, Noticed
  <2>. QED
    BY <2>1, <2>2, <2>3, <2>4
<1>. QED
    BY <1>1, <1>2, <1>3, <1>4, <1>5

-----------------------------------------------------------------------------
(* The rest of the world                                                   *)

LEMMA WorldInv ==
    ASSUME SessionInv, Post \/ Tick \/ NetDown \/ NetUp \/ MarketTurns \/ UNCHANGED tradeUnitVars
    PROVE  SessionInv'
<1>. USE BoundsAreNat DEF SessionInv, FlagsOK, ValuesOK, QueueBounded, Patience, unitVars, apiVars,
         envVars, Fault, Grace, ConnectLimit, SilenceLimit, Ancient, LagLimit
<1>1. CASE Post
  <2>1. FlagsOK'
    BY <1>1 DEF Post
  <2>2. ValuesOK'
    BY <1>1 DEF Post
  <2>3. QueueBounded' /\ Patience'
    BY <1>1 DEF Post
  <2>4. Noticed'
    BY <1>1 DEF Post, Noticed
  <2>. QED
    BY <2>1, <2>2, <2>3, <2>4
<1>2. CASE Tick
  <2>1. FlagsOK'
    BY <1>2 DEF Tick
  <2>2. ValuesOK'
    BY <1>2 DEF Tick
  <2>3. QueueBounded' /\ Patience'
    BY <1>2 DEF Tick
  <2>4. Noticed'
    BY <1>2 DEF Tick, Noticed
  <2>. QED
    BY <2>1, <2>2, <2>3, <2>4
<1>3. CASE NetDown
  <2>1. FlagsOK'
    BY <1>3 DEF NetDown
  <2>2. ValuesOK'
    BY <1>3 DEF NetDown
  <2>3. QueueBounded' /\ Patience'
    BY <1>3 DEF NetDown
  <2>4. Noticed'
    BY <1>3 DEF NetDown, Noticed
  <2>. QED
    BY <2>1, <2>2, <2>3, <2>4
<1>4. CASE NetUp
  <2>1. FlagsOK'
    BY <1>4 DEF NetUp
  <2>2. ValuesOK'
    BY <1>4 DEF NetUp
  <2>3. QueueBounded' /\ Patience'
    BY <1>4 DEF NetUp
  <2>4. Noticed'
    BY <1>4 DEF NetUp, Noticed
  <2>. QED
    BY <2>1, <2>2, <2>3, <2>4
<1>5. CASE MarketTurns
  <2>1. FlagsOK'
    BY <1>5 DEF MarketTurns
  <2>2. ValuesOK'
    BY <1>5 DEF MarketTurns
  <2>3. QueueBounded' /\ Patience'
    BY <1>5 DEF MarketTurns
  <2>4. Noticed'
    BY <1>5 DEF MarketTurns, Noticed
  <2>. QED
    BY <2>1, <2>2, <2>3, <2>4
<1>6. CASE UNCHANGED tradeUnitVars
  <2>1. FlagsOK'
    BY <1>6 DEF tradeUnitVars
  <2>2. ValuesOK'
    BY <1>6 DEF tradeUnitVars
  <2>3. QueueBounded' /\ Patience'
    BY <1>6 DEF tradeUnitVars
  <2>4. Noticed'
    BY <1>6 DEF tradeUnitVars, Noticed
  <2>. QED
    BY <2>1, <2>2, <2>3, <2>4
<1>. QED
    BY <1>1, <1>2, <1>3, <1>4, <1>5, <1>6

LEMMA SessionInvHolds == UnitSpec => []SessionInv
<1>1. UnitInit => SessionInv
    BY SessionInit
<1>2. SessionInv /\ [UnitNext]_tradeUnitVars => SessionInv'
    BY RunInv, CallbackInv, WorldInv DEF UnitNext
<1>. QED
    BY <1>1, <1>2, PTL DEF UnitSpec

-----------------------------------------------------------------------------
(* The theorems                                                            *)

\* The flags, clocks and the queue of a trade unit keep their types; the queue
\* never holds more requests than were posted.
THEOREM UnitTypes == UnitSpec => []UnitTypeOK
<1>1. SessionInv => UnitTypeOK
    BY DEF SessionInv, FlagsOK, ValuesOK, UnitTypeOK
<1>. QED
    BY <1>1, SessionInvHolds, PTL

\* MakeActive and run never tear down an API object that has not called back
\* before its time, unless a callback of the object before it set m_conn_state
\* while trade_reconnect was replacing it.
THEOREM ConnectsGetTheirTime == UnitSpec => ConnectGetsTime
<1>1. SessionInv /\ [UnitNext]_tradeUnitVars
      => [ReconnectBegin /\ fresh => life >= ConnectLimit - 1 \/ overwritten]_tradeUnitVars
  <2>. SUFFICES ASSUME SessionInv, ReconnectBegin, fresh, ~overwritten
                PROVE  life >= ConnectLimit - 1
    OBVIOUS
  <2>1. conn = "connecting"
    BY DEF SessionInv, Noticed
  <2>. QED
    BY <2>1 DEF SessionInv, ValuesOK, Patience, ReconnectBegin,
           Grace, ConnectLimit, SilenceLimit, Ancient, LagLimit
<1>. QED
    BY <1>1, SessionInvHolds, PTL DEF UnitSpec, ConnectGetsTime
=============================================================================
