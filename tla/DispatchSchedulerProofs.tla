----------------------- MODULE DispatchSchedulerProofs -----------------------
(***************************************************************************)
(* Theorems about DispatchScheduler, for any workers, clients and timers   *)
(* and any number of operations and starts.                                *)
(*                                                                         *)
(* Base says who holds mutex_, where check_timers stands in timers_ and    *)
(* what each thread's call is about.  On it rest the others:               *)
(* LifeInv for what start() and stop() make and delete, TakenInv for the   *)
(* operations the workers take, FillInv for the cells that are claimed and *)
(* not filled, and TimerInv for the timers.                                *)
(***************************************************************************)
EXTENDS DispatchScheduler, FiniteSetTheorems, SequenceTheorems, TLAPS

Ops == {"claimed", "filled"}

\* TypeOK in two halves, with the types it leaves out: flags, and the rest
FlagsInv ==
    /\ repeat \in [Timers -> BOOLEAN] /\ set \in BOOLEAN
    /\ running \in BOOLEAN /\ missed \in BOOLEAN

WorkerPoints == {"off", "top", "spin", "call", "reset", "wait"}
TimerCalls == {"setting", "set", "detached", "signal", "fire"}
CallPoints == {"idle", "fill"} \cup TimerCalls

ValuesInv ==
    /\ timers \in Seq(Timers) /\ next \in [Timers -> {"zero", "later", "past"}]
    /\ cells \in Seq(Ops) /\ got \in 0..Len(cells) /\ Len(cells) <= MaxOps
    /\ has \in [Workers -> 0..MaxOps] /\ fills \in [Threads -> 0..MaxOps]
    /\ fired \in [Timers -> Nat] /\ runs \in [1..MaxOps -> Nat]
    /\ spc \in {"off", "born", "loop", "wait", "scan", "fill"} /\ at \in Nat
    /\ wpc \in [Workers -> WorkerPoints] /\ cpc \in [Users -> CallPoints]
    /\ ct \in [Users -> Timers \cup {NULL}]
    /\ attached \subseteq Timers

\* no two calls are about one timer, and a worker has a call only in a callback
CallInv ==
    /\ \A x \in Users : IF cpc[x] \in TimerCalls THEN ct[x] \in Timers ELSE ct[x] = NULL
    /\ \A x, y \in Users : ct[x] = ct[y] /\ ct[x] # NULL => x = y
    /\ \A w \in Workers : cpc[w] # "idle" => wpc[w] = "call"

\* who holds mutex_ follows from where the threads are
LockInv ==
    /\ lock \in Users \cup {TimerThread, NULL}
    /\ lock = TimerThread <=> spc \in {"scan", "fill"}
    /\ \A x \in Users : lock = x <=> cpc[x] \in {"signal", "fire"}

\* check_timers stands at an entry of timers_ while it dispatches
PlaceInv ==
    /\ spc = "fill" => at \in 1..Len(timers)
    /\ spc = "scan" => at >= 1

Distinct(s) == \A i, j \in DOMAIN s : s[i] = s[j] => i = j

\* timers_ holds attached timers, each once
ListInv ==
    /\ Distinct(timers)
    /\ \A i \in DOMAIN timers : timers[i] \in attached
    /\ \A x \in Users : cpc[x] = "detached" => ct[x] \notin attached

\* the timers whose time is up and that have not been dispatched for it
Due == {t \in Timers : next[t] = "past"}
Owed == Due \ (IF spc = "fill" THEN {timers[at]} ELSE {})

\* what is owed can still be posted
RoomInv == Len(cells) + Cardinality(Owed) <= MaxOps

Base == FlagsInv /\ ValuesInv /\ CallInv /\ LockInv /\ PlaceInv /\ ListInv /\ RoomInv

-----------------------------------------------------------------------------
\* The workers live from start() to stop()'s join, and so does the timer thread
\* unless stop() missed it; is_running_ is set when it has begun.
LifeInv ==
    /\ \A w \in Workers : wpc[w] # "off" => life \in {"up", "joining", "stopping"}
    /\ spc # "off" => life \in {"event", "up", "joining"} \/ missed
    /\ missed => life \in {"stopping", "unqueued", "gone"}
    /\ life \in {"none", "made"} => ~running
    /\ life \in {"event", "up"} => (running <=> spc \notin {"off", "born"}) /\ spc # "off"

\* A worker that spins holds an index below get_index_ that no other one holds.
TakenInv ==
    /\ \A w \in Workers : IF wpc[w] = "spin" THEN has[w] \in 1..got ELSE has[w] = 0
    /\ \A v, w \in Workers : has[v] = has[w] /\ has[v] # 0 => v = w
    /\ OpsRunOnce

\* check_timers is dispatching for t
Firing(t) == spc = "fill" /\ timers[at] = t

OnList(t) == \E i \in DOMAIN timers : timers[i] = t

\* A timer that does not repeat has not fired while it waits in timers_.
TimerOK(t) ==
    /\ t \notin attached => fired[t] = 0
    /\ ~repeat[t] /\ ~BeingSet(t) =>
          /\ fired[t] <= 1
          /\ OnList(t) /\ ~Firing(t) => fired[t] = 0

TimerInv == \A t \in Timers : TimerOK(t)

\* Every cell that is not filled yet is the work of one thread, which is at the
\* point of filling it.
FillPoint(x) ==
    \/ x \in Users /\ cpc[x] \in {"fill", "fire"}
    \/ x = TimerThread /\ spc = "fill"

Unfilled == {i \in 1..Len(cells) : cells[i] = "claimed"}

FillInv ==
    /\ \A x \in Threads : IF FillPoint(x) THEN fills[x] \in Unfilled ELSE fills[x] = 0
    /\ \A x, y \in Threads : fills[x] = fills[y] /\ fills[x] # 0 => x = y
    /\ \A i \in Unfilled : \E x \in Threads : fills[x] = i

-----------------------------------------------------------------------------
(* Lists of timers                                                         *)

\* RemoveAt takes one entry off and closes the gap
LEMMA RemoveAtFacts ==
    ASSUME NEW S, NEW s \in Seq(S), NEW i \in 1..Len(s)
    PROVE  /\ RemoveAt(s, i) \in Seq(S)
           /\ Len(RemoveAt(s, i)) = Len(s) - 1
           /\ \A k \in 1..(Len(s) - 1) :
                 RemoveAt(s, i)[k] = IF k < i THEN s[k] ELSE s[k + 1]
<1> DEFINE a == SubSeq(s, 1, i - 1)
           b == SubSeq(s, i + 1, Len(s))
           r == a \o b
<1>0. Len(s) \in Nat /\ i \in Nat /\ 1 <= i /\ i <= Len(s)
  OBVIOUS
<1>1. a \in Seq(S) /\ Len(a) = i - 1 /\ \A k \in 1..(i - 1) : a[k] = s[k]
  OBVIOUS
<1>2. b \in Seq(S) /\ Len(b) = Len(s) - i /\ \A k \in 1..(Len(s) - i) : b[k] = s[i + k]
  OBVIOUS
<1> HIDE DEF a, b
<1>3. /\ r \in Seq(S) /\ Len(r) = Len(a) + Len(b)
      /\ \A k \in 1..(Len(a) + Len(b)) : r[k] = IF k <= Len(a) THEN a[k] ELSE b[k - Len(a)]
  BY <1>1, <1>2, ConcatProperties
<1> HIDE DEF r
<1>4. RemoveAt(s, i) = r
  BY DEF RemoveAt, a, b, r
<1>5. Len(a) + Len(b) = Len(s) - 1 /\ Len(r) = Len(s) - 1
  BY <1>0, <1>1, <1>2, <1>3
<1>6. \A k \in 1..(Len(s) - 1) : k < i => r[k] = s[k]
  <2> SUFFICES ASSUME NEW k \in 1..(Len(s) - 1), k < i PROVE r[k] = s[k]
    OBVIOUS
  <2>1. k \in 1..(Len(a) + Len(b)) /\ k <= Len(a) /\ k \in 1..(i - 1)
    BY <1>0, <1>1, <1>5
  <2> QED BY <1>1, <1>3, <2>1
<1>7. \A k \in 1..(Len(s) - 1) : k >= i => r[k] = s[k + 1]
  <2> SUFFICES ASSUME NEW k \in 1..(Len(s) - 1), k >= i PROVE r[k] = s[k + 1]
    OBVIOUS
  <2>1. k \in 1..(Len(a) + Len(b)) /\ ~(k <= Len(a)) /\ k - Len(a) = k - (i - 1)
    BY <1>0, <1>1, <1>5
  <2>2. k - (i - 1) \in 1..(Len(s) - i) /\ i + (k - (i - 1)) = k + 1
    BY <1>0
  <2>3. r[k] = b[k - (i - 1)]
    BY <1>3, <2>1
  <2> QED BY <1>2, <2>2, <2>3
<1>8. \A k \in 1..(Len(s) - 1) : r[k] = IF k < i THEN s[k] ELSE s[k + 1]
  BY <1>0, <1>6, <1>7
<1> QED BY <1>3, <1>4, <1>5, <1>8

\* the entry is gone, and the others are still there
LEMMA RemoveDistinct ==
    ASSUME NEW S, NEW s \in Seq(S), NEW i \in 1..Len(s), Distinct(s)
    PROVE  /\ Distinct(RemoveAt(s, i))
           /\ \A k \in DOMAIN RemoveAt(s, i) :
                 /\ RemoveAt(s, i)[k] # s[i]
                 /\ \E j \in DOMAIN s : RemoveAt(s, i)[k] = s[j]
<1> DEFINE r == RemoveAt(s, i)
           from(k) == IF k < i THEN k ELSE k + 1
<1>1. /\ DOMAIN r = 1..(Len(s) - 1) /\ DOMAIN s = 1..Len(s)
      /\ \A k \in DOMAIN r : r[k] = s[from(k)]
  <2>1. r \in Seq(S) /\ Len(r) = Len(s) - 1 /\ Len(s) \in Nat
    BY RemoveAtFacts
  <2>2. \A k \in 1..(Len(s) - 1) : r[k] = IF k < i THEN s[k] ELSE s[k + 1]
    BY RemoveAtFacts
  <2> HIDE DEF r
  <2> QED BY <2>1, <2>2
<1>2. \A k \in DOMAIN r : from(k) \in DOMAIN s /\ from(k) # i
  BY <1>1
<1>3. \A k, l \in DOMAIN r : from(k) = from(l) => k = l
  BY <1>1
<1> HIDE DEF r, from
<1>4. /\ Distinct(r)
      /\ \A k \in DOMAIN r : r[k] # s[i] /\ \E j \in DOMAIN s : r[k] = s[j]
  BY <1>1, <1>2, <1>3 DEF Distinct
<1> QED BY <1>4 DEF r

\* detach_timer takes the timer off a list that holds it at most once
LEMMA DetachedFacts ==
    ASSUME timers \in Seq(Timers), Distinct(timers), NEW t
    PROVE  /\ Detached(t) \in Seq(Timers) /\ Distinct(Detached(t))
           /\ \A k \in DOMAIN Detached(t) :
                 /\ Detached(t)[k] # t
                 /\ \E j \in DOMAIN timers : Detached(t)[k] = timers[j]
           /\ timers = <<>> => Detached(t) = <<>>
<1>1. CASE t \in ToSet(timers)
  <2>1. PICK i \in DOMAIN timers : timers[i] = t
    BY <1>1 DEF ToSet
  <2>2. \A j \in 1..i - 1 : timers[j] # t
    BY <2>1 DEF Distinct
  <2> DEFINE first(k) == timers[k] = t /\ \A j \in 1..k - 1 : timers[j] # t
  <2>3. i = CHOOSE k \in DOMAIN timers : first(k)
    BY <2>1, <2>2 DEF Distinct
  <2>4. Detached(t) = RemoveAt(timers, i)
    BY <1>1, <2>3 DEF Detached
  <2>5. i \in 1..Len(timers)
    BY <2>1
  <2> QED BY <2>1, <2>4, <2>5, RemoveAtFacts, RemoveDistinct
<1>2. CASE t \notin ToSet(timers)
  <2>1. Detached(t) = timers
    BY <1>2 DEF Detached
  <2> QED BY <1>2, <2>1 DEF ToSet
<1> QED BY <1>1, <1>2

-----------------------------------------------------------------------------
(* The queue of operations                                                 *)

LEMMA ClaimFacts ==
    ASSUME cells \in Seq(Ops), NEW x, Claim(x)
    PROVE  /\ cells' \in Seq(Ops) /\ Len(cells') = Len(cells) + 1
           /\ cells'[Len(cells) + 1] = "claimed"
           /\ \A i \in 1..Len(cells) : cells'[i] = cells[i]
           /\ fills' = [fills EXCEPT ![x] = Len(cells) + 1]
BY DEF Claim, Ops

LEMMA FillFacts ==
    ASSUME cells \in Seq(Ops), NEW x, Fill(x)
    PROVE  /\ cells' \in Seq(Ops) /\ Len(cells') = Len(cells)
           /\ fills[x] \in 1..Len(cells) => cells'[fills[x]] = "filled"
           /\ \A i \in 1..Len(cells) : i # fills[x] => cells'[i] = cells[i]
           /\ fills' = [fills EXCEPT ![x] = 0] /\ set'
<1>1. PICK v : v = "filled" /\ cells' = [cells EXCEPT ![fills[x]] = v]
  BY DEF Fill
<1>2. v \in Ops
  BY <1>1 DEF Ops
<1>3. cells' \in Seq(Ops) /\ Len(cells') = Len(cells)
  <2>1. cells \in [1..Len(cells) -> Ops] /\ Len(cells) \in Nat
    OBVIOUS
  <2>2. cells' \in [1..Len(cells) -> Ops]
    BY <1>1, <1>2, <2>1
  <2> QED BY <2>1, <2>2
<1> QED BY <1>1, <1>3 DEF Fill

LEMMA TimerSets ==
    ASSUME NEW D \in SUBSET Timers
    PROVE  /\ IsFiniteSet(D) /\ Cardinality(D) \in Nat
           /\ \A E \in SUBSET D : Cardinality(E) <= Cardinality(D)
           /\ \A t \in D : Cardinality(D \ {t}) = Cardinality(D) - 1
<1>1. IsFiniteSet(D)
  BY SchedulerAssumption, FS_Subset DEF SchedulerAssumption
<1> QED BY <1>1, FS_Subset, FS_CardinalityType, FS_RemoveElement

LEMMA TimerSetGrows ==
    ASSUME NEW D \in SUBSET Timers, NEW t \in Timers, NEW E \in SUBSET (D \cup {t})
    PROVE  Cardinality(E) <= Cardinality(D) + 1
<1>1. CASE t \in E
  <2>1. E \ {t} \in SUBSET D /\ E \in SUBSET Timers
    OBVIOUS
  <2>2. Cardinality(E \ {t}) <= Cardinality(D) /\ Cardinality(D) \in Nat
    BY <2>1, TimerSets
  <2>3. Cardinality(E \ {t}) = Cardinality(E) - 1 /\ Cardinality(E) \in Nat
    BY <1>1, <2>1, TimerSets
  <2> QED BY <2>2, <2>3
<1>2. CASE t \notin E
  <2>1. E \in SUBSET D
    BY <1>2
  <2>2. Cardinality(E) <= Cardinality(D) /\ Cardinality(D) \in Nat /\ Cardinality(E) \in Nat
    BY <2>1, TimerSets
  <2> QED BY <2>2
<1> QED BY <1>1, <1>2

\* nothing more is posted and nothing more is owed
LEMMA RoomKept ==
    ASSUME Len(cells) \in Nat, RoomInv, Len(cells') = Len(cells), Owed' \subseteq Owed
    PROVE  RoomInv'
<1>1. Owed \in SUBSET Timers /\ Owed' \in SUBSET Owed /\ Owed' \in SUBSET Timers
  BY DEF Owed, Due
<1>2. /\ Cardinality(Owed) \in Nat /\ Cardinality(Owed') \in Nat
      /\ Cardinality(Owed') <= Cardinality(Owed)
  BY <1>1, TimerSets
<1> QED BY <1>2, SchedulerAssumption DEF RoomInv, SchedulerAssumption

\* one operation is posted where there was room
LEMMA RoomUsed ==
    ASSUME Len(cells) \in Nat, Room, Len(cells') = Len(cells) + 1, Owed' \subseteq Due
    PROVE  RoomInv' /\ Len(cells') <= MaxOps
<1>1. Due \in SUBSET Timers /\ Owed' \in SUBSET Due /\ Owed' \in SUBSET Timers
  BY DEF Due
<1>2. /\ Cardinality(Due) \in Nat /\ Cardinality(Owed') \in Nat
      /\ Cardinality(Owed') <= Cardinality(Due)
  BY <1>1, TimerSets
<1>3. Len(cells) + Cardinality(Due) < MaxOps
  BY DEF Room, Due
<1>4. Len(cells') + Cardinality(Owed') <= MaxOps /\ Len(cells') <= MaxOps
  BY <1>2, <1>3, SchedulerAssumption DEF SchedulerAssumption
<1> QED BY <1>4 DEF RoomInv
-----------------------------------------------------------------------------
(* Base holds, action by action                                            *)

LEMMA Types ==
    ASSUME Base
    PROVE  /\ cells \in Seq(Ops) /\ Len(cells) \in Nat /\ timers \in Seq(Timers)
           /\ Distinct(timers) /\ MaxOps \in Nat
BY SchedulerAssumption DEF SchedulerAssumption, Base, ValuesInv, ListInv

LEMMA InitBase == Init => Base
<1> SUFFICES ASSUME Init PROVE Base
  OBVIOUS
<1>0. FlagsInv
  BY DEF Init, FlagsInv
<1>1. ValuesInv
  BY SchedulerAssumption DEF SchedulerAssumption, Init, ValuesInv, WorkerPoints, CallPoints
<1>2. CallInv /\ LockInv /\ PlaceInv /\ ListInv
  BY SchedulerAssumption, ThreadsAssumption
     DEF SchedulerAssumption, ThreadsAssumption, Users, TimerCalls, Init, CallInv, LockInv,
         PlaceInv, ListInv, Distinct
<1>3. RoomInv
  <2>1. Owed = {}
    BY DEF Init, Owed, Due
  <2>2. Len(cells) = 0 /\ Cardinality(Owed) = 0
    BY <2>1, FS_EmptySet DEF Init
  <2> QED BY <2>2, SchedulerAssumption DEF RoomInv, SchedulerAssumption
<1> QED BY <1>0, <1>1, <1>2, <1>3 DEF Base

(* the clients *)

LEMMA DispatchBase ==
    ASSUME Base, NEW c \in Users, Dispatch(c)
    PROVE  Base'
<1> USE DEF Dispatch, Enter, callFrame, timerVars
<1>1. /\ cells' \in Seq(Ops) /\ Len(cells') = Len(cells) + 1 /\ Len(cells) \in Nat
      /\ fills' = [fills EXCEPT ![c] = Len(cells) + 1]
  BY Types, ClaimFacts
<1>2. Owed' \subseteq Due
  BY DEF Owed, Due
<1>3. RoomInv' /\ Len(cells') <= MaxOps
  BY <1>1, <1>2, RoomUsed
<1>4. ValuesInv'
  BY <1>1, <1>3, SchedulerAssumption
     DEF SchedulerAssumption, Base, ValuesInv, CallInv, CallPoints, TimerCalls, Threads
<1>5. FlagsInv'
  BY <1>1 DEF Base, FlagsInv
<1>6. LockInv'
  BY SchedulerAssumption, ThreadsAssumption
     DEF SchedulerAssumption, ThreadsAssumption, Base, ValuesInv, LockInv, CallPoints, TimerCalls, Done
<1>7. CallInv' /\ PlaceInv'
  BY SchedulerAssumption, ThreadsAssumption
     DEF SchedulerAssumption, ThreadsAssumption, Base, ValuesInv, LockInv, CallInv, PlaceInv,
         CallPoints, TimerCalls, Users, Alone, Done
<1>8. ListInv'
  BY SchedulerAssumption
     DEF SchedulerAssumption, Base, ValuesInv, CallInv, ListInv
<1> QED BY <1>3, <1>4, <1>5, <1>6, <1>7, <1>8 DEF Base

LEMMA FireBase ==
    ASSUME Base, NEW c \in Users, NEW t \in Timers, Fire(c, t)
    PROVE  Base'
<1> USE DEF Fire, Enter, callFrame, timerVars
<1>1. /\ cells' \in Seq(Ops) /\ Len(cells') = Len(cells) + 1 /\ Len(cells) \in Nat
      /\ fills' = [fills EXCEPT ![c] = Len(cells) + 1]
  BY Types, ClaimFacts
<1>2. Owed' \subseteq Due
  BY DEF Owed, Due
<1>3. RoomInv' /\ Len(cells') <= MaxOps
  BY <1>1, <1>2, RoomUsed
<1>4. ValuesInv'
  BY <1>1, <1>3, SchedulerAssumption
     DEF SchedulerAssumption, Base, ValuesInv, CallInv, CallPoints, TimerCalls, Threads
<1>5. FlagsInv'
  BY <1>1 DEF Base, FlagsInv
<1>6. LockInv'
  BY SchedulerAssumption, ThreadsAssumption
     DEF SchedulerAssumption, ThreadsAssumption, Base, ValuesInv, LockInv, CallPoints, TimerCalls, Done
<1>7. CallInv' /\ PlaceInv'
  BY SchedulerAssumption, ThreadsAssumption
     DEF SchedulerAssumption, ThreadsAssumption, Base, ValuesInv, LockInv, CallInv, PlaceInv,
         CallPoints, TimerCalls, Users, Alone, Done
<1>8. ListInv'
  BY SchedulerAssumption
     DEF SchedulerAssumption, Base, ValuesInv, CallInv, ListInv
<1> QED BY <1>3, <1>4, <1>5, <1>6, <1>7, <1>8 DEF Base

LEMMA DispatchFillBase ==
    ASSUME Base, NEW c \in Users, DispatchFill(c)
    PROVE  Base'
<1> USE DEF DispatchFill, Done, callFrame, timerVars
<1>1. /\ cells' \in Seq(Ops) /\ Len(cells') = Len(cells) /\ Len(cells) \in Nat
      /\ fills' = [fills EXCEPT ![c] = 0] /\ set'
  BY Types, FillFacts
<1>2. Owed' \subseteq Owed
  BY DEF Owed, Due, Base, ValuesInv
<1>3. RoomInv'
  BY <1>1, <1>2, RoomKept DEF Base
<1>4. ValuesInv'
  BY <1>1, <1>3, SchedulerAssumption
     DEF SchedulerAssumption, Base, ValuesInv, CallInv, CallPoints, TimerCalls, Threads
<1>5. FlagsInv'
  BY <1>1 DEF Base, FlagsInv
<1>6. LockInv'
  BY SchedulerAssumption, ThreadsAssumption
     DEF SchedulerAssumption, ThreadsAssumption, Base, ValuesInv, LockInv, CallPoints, TimerCalls, Done
<1>7. CallInv' /\ PlaceInv'
  BY SchedulerAssumption, ThreadsAssumption
     DEF SchedulerAssumption, ThreadsAssumption, Base, ValuesInv, LockInv, CallInv, PlaceInv,
         CallPoints, TimerCalls, Users, Alone, Done
<1>8. ListInv'
  BY SchedulerAssumption
     DEF SchedulerAssumption, Base, ValuesInv, CallInv, ListInv
<1> QED BY <1>3, <1>4, <1>5, <1>6, <1>7, <1>8 DEF Base

LEMMA FireFillBase ==
    ASSUME Base, NEW c \in Users, FireFill(c)
    PROVE  Base'
<1> USE DEF FireFill, Done, callFrame
<1>1. /\ cells' \in Seq(Ops) /\ Len(cells') = Len(cells) /\ Len(cells) \in Nat
      /\ fills' = [fills EXCEPT ![c] = 0] /\ set'
  BY Types, FillFacts
<1>2. Owed' \subseteq Owed
  BY DEF Owed, Due, Base, ValuesInv
<1>3. RoomInv'
  BY <1>1, <1>2, RoomKept DEF Base
<1>4. ValuesInv'
  BY <1>1, <1>3, SchedulerAssumption
     DEF SchedulerAssumption, Base, ValuesInv, CallInv, CallPoints, TimerCalls, Threads
<1>5. FlagsInv'
  BY <1>1 DEF Base, FlagsInv
<1>6. LockInv'
  BY SchedulerAssumption, ThreadsAssumption
     DEF SchedulerAssumption, ThreadsAssumption, Base, ValuesInv, LockInv, CallPoints, TimerCalls, Done
<1>7. CallInv' /\ PlaceInv'
  BY SchedulerAssumption, ThreadsAssumption
     DEF SchedulerAssumption, ThreadsAssumption, Base, ValuesInv, LockInv, CallInv, PlaceInv,
         CallPoints, TimerCalls, Users, Alone, Done
<1>8. ListInv'
  BY SchedulerAssumption
     DEF SchedulerAssumption, Base, ValuesInv, CallInv, ListInv
<1> QED BY <1>3, <1>4, <1>5, <1>6, <1>7, <1>8 DEF Base

LEMMA SetTimerBase ==
    ASSUME Base, NEW c \in Users, NEW t \in Timers, SetTimer(c, t)
    PROVE  Base'
<1> USE DEF SetTimer, Enter, callFrame, queueVars
<1>1. Len(cells) \in Nat
  BY Types
<1>2. Owed' \subseteq Owed
  BY SchedulerAssumption, ThreadsAssumption
     DEF SchedulerAssumption, ThreadsAssumption, Owed, Due, Base, ValuesInv, LockInv
<1>3. RoomInv'
  BY <1>1, <1>2, RoomKept DEF Base
<1>4. ValuesInv'
  BY <1>1, <1>3, SchedulerAssumption
     DEF SchedulerAssumption, Base, ValuesInv, CallInv, CallPoints, TimerCalls, Threads
<1>5. FlagsInv'
  BY <1>1 DEF Base, FlagsInv
<1>6. LockInv'
  BY SchedulerAssumption, ThreadsAssumption
     DEF SchedulerAssumption, ThreadsAssumption, Base, ValuesInv, LockInv, CallPoints, TimerCalls, Done
<1>7. CallInv' /\ PlaceInv'
  BY SchedulerAssumption, ThreadsAssumption
     DEF SchedulerAssumption, ThreadsAssumption, Base, ValuesInv, LockInv, CallInv, PlaceInv,
         CallPoints, TimerCalls, Users, Alone, Done
<1>8. ListInv'
  BY SchedulerAssumption
     DEF SchedulerAssumption, Base, ValuesInv, CallInv, ListInv
<1> QED BY <1>3, <1>4, <1>5, <1>6, <1>7, <1>8 DEF Base

LEMMA SetTimerEndBase ==
    ASSUME Base, NEW c \in Users, SetTimerEnd(c)
    PROVE  Base'
<1> USE DEF SetTimerEnd, callFrame, queueVars
<1>1. Len(cells) \in Nat
  BY Types
<1>2. Owed' \subseteq Owed
  BY SchedulerAssumption, ThreadsAssumption
     DEF SchedulerAssumption, ThreadsAssumption, Owed, Due, Base, ValuesInv, LockInv
<1>3. RoomInv'
  BY <1>1, <1>2, RoomKept DEF Base
<1>4. ValuesInv'
  BY <1>1, <1>3, SchedulerAssumption
     DEF SchedulerAssumption, Base, ValuesInv, CallInv, CallPoints, TimerCalls, Threads
<1>5. FlagsInv'
  BY <1>1 DEF Base, FlagsInv
<1>6. LockInv'
  BY SchedulerAssumption, ThreadsAssumption
     DEF SchedulerAssumption, ThreadsAssumption, Base, ValuesInv, LockInv, CallPoints, TimerCalls, Done
<1>7. CallInv' /\ PlaceInv'
  BY SchedulerAssumption, ThreadsAssumption
     DEF SchedulerAssumption, ThreadsAssumption, Base, ValuesInv, LockInv, CallInv, PlaceInv,
         CallPoints, TimerCalls, Users, Alone, Done
<1>8. ListInv'
  BY SchedulerAssumption
     DEF SchedulerAssumption, Base, ValuesInv, CallInv, ListInv
<1> QED BY <1>3, <1>4, <1>5, <1>6, <1>7, <1>8 DEF Base

LEMMA StartResetBase ==
    ASSUME Base, NEW c \in Users, StartReset(c)
    PROVE  Base'
<1> USE DEF StartReset, callFrame, queueVars
<1>1. Len(cells) \in Nat
  BY Types
<1>2. Owed' \subseteq Owed
  BY SchedulerAssumption, ThreadsAssumption
     DEF SchedulerAssumption, ThreadsAssumption, Owed, Due, Base, ValuesInv, LockInv
<1>3. RoomInv'
  BY <1>1, <1>2, RoomKept DEF Base
<1>9. /\ Detached(ct[c]) \in Seq(Timers) /\ Distinct(Detached(ct[c]))
      /\ \A k \in DOMAIN Detached(ct[c]) :
            /\ Detached(ct[c])[k] # ct[c]
            /\ \E j \in DOMAIN timers : Detached(ct[c])[k] = timers[j]
  BY Types, DetachedFacts
<1>4. ValuesInv'
  BY <1>1, <1>3, <1>9, SchedulerAssumption
     DEF SchedulerAssumption, Base, ValuesInv, CallInv, CallPoints, TimerCalls, Threads
<1>5. FlagsInv'
  BY <1>1 DEF Base, FlagsInv
<1>6. LockInv'
  BY SchedulerAssumption, ThreadsAssumption
     DEF SchedulerAssumption, ThreadsAssumption, Base, ValuesInv, LockInv, CallPoints, TimerCalls, Done
<1>7. CallInv' /\ PlaceInv'
  BY <1>9, SchedulerAssumption, ThreadsAssumption
     DEF SchedulerAssumption, ThreadsAssumption, Base, ValuesInv, LockInv, CallInv, PlaceInv,
         CallPoints, TimerCalls, Users, Alone, Done
<1>8. ListInv'
  BY <1>9, SchedulerAssumption
     DEF SchedulerAssumption, Base, ValuesInv, CallInv, ListInv
<1> QED BY <1>3, <1>4, <1>5, <1>6, <1>7, <1>8 DEF Base

LEMMA ResetBase ==
    ASSUME Base, NEW c \in Users, NEW t \in Timers, Reset(c, t)
    PROVE  Base'
<1> USE DEF Reset, Enter, callFrame, queueVars
<1>1. Len(cells) \in Nat
  BY Types
<1>2. Owed' \subseteq Owed
  BY SchedulerAssumption, ThreadsAssumption
     DEF SchedulerAssumption, ThreadsAssumption, Owed, Due, Base, ValuesInv, LockInv
<1>3. RoomInv'
  BY <1>1, <1>2, RoomKept DEF Base
<1>9. /\ Detached(t) \in Seq(Timers) /\ Distinct(Detached(t))
      /\ \A k \in DOMAIN Detached(t) :
            /\ Detached(t)[k] # t
            /\ \E j \in DOMAIN timers : Detached(t)[k] = timers[j]
  BY Types, DetachedFacts
<1>4. ValuesInv'
  BY <1>1, <1>3, <1>9, SchedulerAssumption
     DEF SchedulerAssumption, Base, ValuesInv, CallInv, CallPoints, TimerCalls, Threads
<1>5. FlagsInv'
  BY <1>1 DEF Base, FlagsInv
<1>6. LockInv'
  BY SchedulerAssumption, ThreadsAssumption
     DEF SchedulerAssumption, ThreadsAssumption, Base, ValuesInv, LockInv, CallPoints, TimerCalls, Done
<1>7. CallInv' /\ PlaceInv'
  BY <1>9, SchedulerAssumption, ThreadsAssumption
     DEF SchedulerAssumption, ThreadsAssumption, Base, ValuesInv, LockInv, CallInv, PlaceInv,
         CallPoints, TimerCalls, Users, Alone, Done
<1>8. ListInv'
  BY <1>9, SchedulerAssumption
     DEF SchedulerAssumption, Base, ValuesInv, CallInv, ListInv
<1> QED BY <1>3, <1>4, <1>5, <1>6, <1>7, <1>8 DEF Base

LEMMA AttachBase ==
    ASSUME Base, NEW c \in Users, Attach(c)
    PROVE  Base'
<1> USE DEF Attach, callFrame, queueVars
<1>1. Len(cells) \in Nat
  BY Types
<1>2. Owed' \subseteq Owed
  BY SchedulerAssumption, ThreadsAssumption
     DEF SchedulerAssumption, ThreadsAssumption, Owed, Due, Base, ValuesInv, LockInv
<1>3. RoomInv'
  BY <1>1, <1>2, RoomKept DEF Base
<1>9. /\ timers' \in Seq(Timers) /\ Distinct(timers') /\ ct[c] \in Timers
      /\ \A k \in DOMAIN timers' : timers'[k] \in attached'
  <2>1. /\ ct[c] \in Timers /\ \A i \in DOMAIN timers : timers[i] # ct[c]
        /\ \A i \in DOMAIN timers : timers[i] \in attached
    BY DEF Base, CallInv, ListInv, TimerCalls
  <2>2. /\ timers' \in Seq(Timers) /\ Len(timers) \in Nat
        /\ DOMAIN timers' = 1..(Len(timers) + 1) /\ DOMAIN timers = 1..Len(timers)
        /\ \A i \in DOMAIN timers : timers'[i] = timers[i]
        /\ timers'[Len(timers) + 1] = ct[c]
        /\ \A i \in DOMAIN timers' : i \in DOMAIN timers \/ i = Len(timers) + 1
    BY <2>1, Types
  <2> QED BY <2>1, <2>2, Types DEF Distinct
<1>4. ValuesInv'
  BY <1>1, <1>3, <1>9, SchedulerAssumption
     DEF SchedulerAssumption, Base, ValuesInv, CallInv, CallPoints, TimerCalls, Threads
<1>5. FlagsInv'
  BY <1>1 DEF Base, FlagsInv
<1>6. LockInv'
  BY SchedulerAssumption, ThreadsAssumption
     DEF SchedulerAssumption, ThreadsAssumption, Base, ValuesInv, LockInv, CallPoints, TimerCalls, Done
<1>7. CallInv' /\ PlaceInv'
  BY <1>9, SchedulerAssumption, ThreadsAssumption
     DEF SchedulerAssumption, ThreadsAssumption, Base, ValuesInv, LockInv, CallInv, PlaceInv,
         CallPoints, TimerCalls, Users, Alone, Done
<1>8. ListInv'
  <2>1. ASSUME NEW d \in Users, cpc'[d] = "detached" PROVE ct'[d] \notin attached'
    <3>1. d # c /\ cpc[d] = "detached" /\ ct'[d] = ct[d]
      BY <2>1 DEF Base, ValuesInv
    <3>2. ct[d] # ct[c] /\ ct[d] \notin attached
      BY <3>1, SchedulerAssumption DEF SchedulerAssumption, Base, CallInv, ListInv, TimerCalls
    <3> QED BY <3>1, <3>2
  <2> QED BY <1>9, <2>1 DEF ListInv
<1> QED BY <1>3, <1>4, <1>5, <1>6, <1>7, <1>8 DEF Base

LEMMA AttachSignalBase ==
    ASSUME Base, NEW c \in Users, AttachSignal(c)
    PROVE  Base'
<1> USE DEF AttachSignal, Done, callFrame, timerVars, queueVars
<1>1. Len(cells) \in Nat
  BY Types
<1>2. Owed' \subseteq Owed
  BY SchedulerAssumption, ThreadsAssumption
     DEF SchedulerAssumption, ThreadsAssumption, Owed, Due, Base, ValuesInv, LockInv
<1>3. RoomInv'
  BY <1>1, <1>2, RoomKept DEF Base
<1>4. ValuesInv'
  BY <1>1, <1>3, SchedulerAssumption
     DEF SchedulerAssumption, Base, ValuesInv, CallInv, CallPoints, TimerCalls, Threads
<1>5. FlagsInv'
  BY <1>1 DEF Base, FlagsInv
<1>6. LockInv'
  BY SchedulerAssumption, ThreadsAssumption
     DEF SchedulerAssumption, ThreadsAssumption, Base, ValuesInv, LockInv, CallPoints, TimerCalls, Done
<1>7. CallInv' /\ PlaceInv'
  BY SchedulerAssumption, ThreadsAssumption
     DEF SchedulerAssumption, ThreadsAssumption, Base, ValuesInv, LockInv, CallInv, PlaceInv,
         CallPoints, TimerCalls, Users, Alone, Done
<1>8. ListInv'
  BY SchedulerAssumption
     DEF SchedulerAssumption, Base, ValuesInv, CallInv, ListInv
<1> QED BY <1>3, <1>4, <1>5, <1>6, <1>7, <1>8 DEF Base


(* the timer thread *)

\* a timer whose turn it was is moved past or taken off
LEMMA RearmFacts ==
    ASSUME Base, at \in 1..Len(timers), Rearm(timers[at])
    PROVE  /\ timers[at] \in Timers /\ at >= 1
           /\ timers' \in Seq(Timers) /\ Distinct(timers') /\ at' \in Nat /\ at' >= 1
           /\ \A k \in DOMAIN timers' : \E j \in DOMAIN timers : timers'[k] = timers[j]
           /\ next' \in [Timers -> {"zero", "later", "past"}]
           /\ next'[timers[at]] # "past"
           /\ \A t \in Timers : t # timers[at] => next'[t] = next[t]
<1>1. timers[at] \in Timers /\ timers \in Seq(Timers) /\ Distinct(timers)
  BY Types
<1>2. \/ next' = [next EXCEPT ![timers[at]] = "later"]
      \/ next' = [next EXCEPT ![timers[at]] = "zero"]
  BY DEF Rearm
<1>3. /\ next' \in [Timers -> {"zero", "later", "past"}]
      /\ next'[timers[at]] # "past"
      /\ \A t \in Timers : t # timers[at] => next'[t] = next[t]
  BY <1>1, <1>2 DEF Base, ValuesInv
<1>4. at \in Nat /\ at >= 1 /\ at' \in Nat /\ at' >= 1
  BY Types DEF Rearm
<1>5. /\ timers' \in Seq(Timers) /\ Distinct(timers')
      /\ \A k \in DOMAIN timers' : \E j \in DOMAIN timers : timers'[k] = timers[j]
  <2>1. CASE timers' = timers
    BY <1>1, <2>1
  <2>2. CASE timers' = RemoveAt(timers, at)
    BY <1>1, <2>2, RemoveAtFacts, RemoveDistinct
  <2> QED BY <2>1, <2>2 DEF Rearm
<1> QED BY <1>1, <1>3, <1>4, <1>5

LEMMA ScanPastBase ==
    ASSUME Base, ScanPast
    PROVE  Base'
<1> USE DEF ScanPast, TimeIsUp, timerFrame
<1>9. at \in 1..Len(timers) /\ timers[at] \in Timers
  <2>1. at \in Nat /\ at >= 1 /\ timers \in Seq(Timers)
    BY DEF Base, ValuesInv, PlaceInv
  <2> QED BY <2>1
<1>1. /\ cells' \in Seq(Ops) /\ Len(cells') = Len(cells) + 1 /\ Len(cells) \in Nat
      /\ fills' = [fills EXCEPT ![TimerThread] = Len(cells) + 1]
  BY <1>9, Types, ClaimFacts
<1>3. RoomInv' /\ Len(cells') <= MaxOps
  <2>1. Owed = Due /\ timers[at] \in Due /\ Owed' = Due \ {timers[at]} /\ Due \in SUBSET Timers
    BY <1>9 DEF Owed, Due
  <2>2. Cardinality(Owed') = Cardinality(Due) - 1 /\ Cardinality(Due) \in Nat
        /\ Cardinality(Due \ {timers[at]}) \in Nat
    BY <2>1, TimerSets
  <2>3. Len(cells) + Cardinality(Due) <= MaxOps
    BY <2>1 DEF Base, RoomInv
  <2>4. Len(cells') + Cardinality(Owed') <= MaxOps /\ Len(cells') <= MaxOps
    BY <1>1, <2>1, <2>2, <2>3, Types
  <2> QED BY <2>4 DEF RoomInv
<1>4. ValuesInv'
  <2>1. fired' \in [Timers -> Nat]
    BY <1>9 DEF Base, ValuesInv
  <2>2. got \in 0..Len(cells) /\ fills \in [Threads -> 0..MaxOps] /\ got' = got
    BY DEF Base, ValuesInv
  <2>3. MaxOps \in Nat /\ Len(cells) + 1 \in 0..MaxOps /\ got' \in 0..Len(cells')
    BY <1>1, <1>3, <2>2, SchedulerAssumption DEF SchedulerAssumption
  <2>4. fills' \in [Threads -> 0..MaxOps]
    BY <1>1, <2>2, <2>3
  <2> QED BY <1>1, <1>3, <2>1, <2>3, <2>4 DEF Base, ValuesInv
<1>5. FlagsInv'
  BY <1>1 DEF Base, FlagsInv
<1>6. LockInv'
  BY SchedulerAssumption, ThreadsAssumption
     DEF SchedulerAssumption, ThreadsAssumption, Base, ValuesInv, LockInv, CallPoints, TimerCalls, Done
<1>7. CallInv' /\ PlaceInv'
  BY <1>1, <1>9 DEF Base, ValuesInv, CallInv, PlaceInv
<1>8. ListInv'
  BY <1>1, <1>9 DEF Base, ValuesInv, ListInv
<1> QED BY <1>3, <1>4, <1>5, <1>6, <1>7, <1>8 DEF Base

LEMMA ScanFillBase ==
    ASSUME Base, ScanFill
    PROVE  Base'
<1> USE DEF ScanFill, timerFrame
<1>1. /\ cells' \in Seq(Ops) /\ Len(cells') = Len(cells) /\ Len(cells) \in Nat
      /\ fills' = [fills EXCEPT ![TimerThread] = 0] /\ set'
  BY Types, FillFacts
<1>9. /\ timers[at] \in Timers /\ at >= 1
      /\ timers' \in Seq(Timers) /\ Distinct(timers') /\ at' \in Nat /\ at' >= 1
      /\ \A k \in DOMAIN timers' : \E j \in DOMAIN timers : timers'[k] = timers[j]
      /\ next' \in [Timers -> {"zero", "later", "past"}]
      /\ next'[timers[at]] # "past"
      /\ \A t \in Timers : t # timers[at] => next'[t] = next[t]
  <2>1. at \in 1..Len(timers) /\ Rearm(timers[at])
    BY DEF Base, PlaceInv
  <2> QED BY <2>1, RearmFacts
<1>2. Owed' \subseteq Owed
  BY <1>9 DEF Owed, Due
<1>3. RoomInv'
  BY <1>1, <1>2, RoomKept DEF Base
<1>4. ValuesInv'
  BY <1>1, <1>3, <1>9, SchedulerAssumption
     DEF SchedulerAssumption, Base, ValuesInv, CallInv, CallPoints, TimerCalls, Threads
<1>5. FlagsInv'
  BY <1>1 DEF Base, FlagsInv
<1>6. LockInv'
  BY SchedulerAssumption, ThreadsAssumption
     DEF SchedulerAssumption, ThreadsAssumption, Base, ValuesInv, LockInv, CallPoints, TimerCalls, Done
<1>7. CallInv' /\ PlaceInv'
  BY <1>1, <1>9 DEF Base, ValuesInv, CallInv, PlaceInv
<1>8. ListInv'
  BY <1>1, <1>9 DEF Base, ValuesInv, ListInv
<1> QED BY <1>3, <1>4, <1>5, <1>6, <1>7, <1>8 DEF Base

LEMMA ScanOtherBase ==
    ASSUME Base, ScanOther
    PROVE  Base'
<1> USE DEF ScanOther, timerFrame, queueVars
<1>1. Len(cells) \in Nat
  BY Types
<1>9. /\ timers' \in Seq(Timers) /\ Distinct(timers') /\ at' \in Nat /\ at' >= 1
      /\ \A k \in DOMAIN timers' : \E j \in DOMAIN timers : timers'[k] = timers[j]
      /\ next' \in [Timers -> {"zero", "later", "past"}]
      /\ \A t \in Timers : next'[t] = "past" => next[t] = "past"
  <2>1. at \in 1..Len(timers)
    BY Types DEF Base, ValuesInv, PlaceInv
  <2>2. CASE Rearm(timers[at])
    BY <2>1, <2>2, RearmFacts
  <2>3. CASE at' = at + 1 /\ UNCHANGED <<next, timers>>
    BY <2>1, <2>3, Types DEF Base, ValuesInv
  <2> QED BY <2>2, <2>3
<1>2. Owed' \subseteq Owed
  BY <1>9 DEF Owed, Due
<1>3. RoomInv'
  BY <1>1, <1>2, RoomKept DEF Base
<1>4. ValuesInv'
  BY <1>1, <1>3, <1>9, SchedulerAssumption
     DEF SchedulerAssumption, Base, ValuesInv, CallInv, CallPoints, TimerCalls, Threads
<1>5. FlagsInv'
  BY <1>1 DEF Base, FlagsInv
<1>6. LockInv'
  BY SchedulerAssumption, ThreadsAssumption
     DEF SchedulerAssumption, ThreadsAssumption, Base, ValuesInv, LockInv, CallPoints, TimerCalls, Done
<1>7. CallInv' /\ PlaceInv'
  BY <1>1, <1>9 DEF Base, ValuesInv, CallInv, PlaceInv
<1>8. ListInv'
  BY <1>1, <1>9 DEF Base, ValuesInv, ListInv
<1> QED BY <1>3, <1>4, <1>5, <1>6, <1>7, <1>8 DEF Base

\* the steps that take and release mutex_, and the loop around them
LEMMA LoopBase ==
    ASSUME Base, TimerBegins \/ CheckTimers \/ ScanEnd \/ LoopEnd
    PROVE  Base'
<1> USE DEF TimerBegins, CheckTimers, ScanEnd, LoopEnd, AtLoopTest, timerFrame, queueVars
<1>1. Len(cells) \in Nat
  BY Types
<1>2. Owed' \subseteq Owed
  BY DEF Owed, Due
<1>3. RoomInv'
  BY <1>1, <1>2, RoomKept DEF Base
<1>4. ValuesInv'
  BY <1>1, <1>3, SchedulerAssumption
     DEF SchedulerAssumption, Base, ValuesInv, CallInv, CallPoints, TimerCalls, Threads
<1>5. FlagsInv'
  BY <1>1 DEF Base, FlagsInv
<1>6. LockInv'
  BY SchedulerAssumption, ThreadsAssumption
     DEF SchedulerAssumption, ThreadsAssumption, Base, ValuesInv, LockInv, CallPoints, TimerCalls, Done
<1>7. CallInv' /\ PlaceInv'
  BY <1>1 DEF Base, ValuesInv, CallInv, PlaceInv
<1>8. ListInv'
  BY <1>1 DEF Base, ValuesInv, ListInv
<1> QED BY <1>3, <1>4, <1>5, <1>6, <1>7, <1>8 DEF Base

LEMMA TimePassesBase ==
    ASSUME Base, NEW t \in Timers, TimePasses(t)
    PROVE  Base'
<1> USE DEF TimePasses, timerFrame, queueVars
<1>1. Len(cells) \in Nat
  BY Types
<1>3. RoomInv'
  <2>1. Due \in SUBSET Timers /\ Owed' \in SUBSET (Due \cup {t}) /\ Owed' \in SUBSET Timers
    BY DEF Owed, Due, Base, ValuesInv
  <2>2. Cardinality(Owed') <= Cardinality(Due) + 1
    BY <2>1, TimerSetGrows
  <2>3. Cardinality(Owed') \in Nat /\ Cardinality(Due) \in Nat
    BY <2>1, TimerSets
  <2>4. Len(cells) + Cardinality(Due) < MaxOps
    BY DEF Room, Due
  <2> QED BY <1>1, <2>2, <2>3, <2>4, Types DEF RoomInv
<1>4. ValuesInv'
  BY <1>1, <1>3, SchedulerAssumption
     DEF SchedulerAssumption, Base, ValuesInv, CallInv, CallPoints, TimerCalls, Threads
<1>5. FlagsInv'
  BY <1>1 DEF Base, FlagsInv
<1>6. LockInv'
  BY SchedulerAssumption, ThreadsAssumption
     DEF SchedulerAssumption, ThreadsAssumption, Base, ValuesInv, LockInv, CallPoints, TimerCalls, Done
<1>7. CallInv' /\ PlaceInv'
  BY <1>1 DEF Base, ValuesInv, CallInv, PlaceInv
<1>8. ListInv'
  BY <1>1 DEF Base, ValuesInv, ListInv
<1> QED BY <1>3, <1>4, <1>5, <1>6, <1>7, <1>8 DEF Base

(* the workers, start() and stop() *)

LEMMA WorkerBase ==
    ASSUME Base, NEW w \in Workers,
           \/ WorkerClaim(w) \/ WorkerCall(w) \/ CallbackReturns(w)
           \/ WorkerNothing(w) \/ WorkerReset(w) \/ WorkerWait(w)
    PROVE  Base'
<1> USE DEF WorkerClaim, WorkerCall, CallbackReturns, WorkerNothing, WorkerReset, WorkerWait,
            AfterTest, workerFrame, timerVars, queueVars
<1>1. Len(cells) \in Nat /\ cells' = cells
  BY Types
<1>2. Owed' \subseteq Owed
  BY DEF Owed, Due
<1>3. RoomInv'
  BY <1>1, <1>2, RoomKept DEF Base
<1>4. ValuesInv'
  <2>1. got' \in 0..Len(cells) /\ has' \in [Workers -> 0..MaxOps]
    BY <1>1, SchedulerAssumption DEF SchedulerAssumption, Base, ValuesInv
  <2>2. runs' \in [1..MaxOps -> Nat]
    BY DEF Base, ValuesInv
  <2>3. wpc' \in [Workers -> WorkerPoints]
    BY DEF Base, ValuesInv, WorkerPoints
  <2> QED BY <1>1, <2>1, <2>2, <2>3 DEF Base, ValuesInv
<1>5. FlagsInv'
  BY DEF Base, FlagsInv
<1>6. LockInv' /\ PlaceInv' /\ ListInv'
  BY DEF Base, LockInv, PlaceInv, ListInv
<1>7. CallInv'
  BY DEF Base, ValuesInv, CallInv
<1> QED BY <1>3, <1>4, <1>5, <1>6, <1>7 DEF Base

LEMMA LifeBase ==
    ASSUME Base, LifeInv, Create \/ Release \/ LifeStep
    PROVE  Base'
<1>1. /\ UNCHANGED <<timers, next, repeat, attached, fired, lock, cells, set, got, at, has,
                     fills, cpc, ct, runs>>
      /\ \/ UNCHANGED <<spc, wpc>>
         \/ spc = "off" /\ spc' = "born" /\ UNCHANGED wpc
         \/ /\ \A w \in Workers : wpc[w] = "off"
            /\ wpc' = [w \in Workers |-> "wait"] /\ UNCHANGED spc
  BY DEF Create, Release, LifeStep, StartTimerThread, StartWorkers,
         StopTimerThread, StopJoin, StopDelete, lifeFrame, timerVars,
         queueVars, LifeInv
<1>2. Len(cells) \in Nat
  BY Types
<1>3. Owed' \subseteq Owed
  BY <1>1 DEF Owed, Due
<1>4. RoomInv'
  BY <1>1, <1>2, <1>3, RoomKept DEF Base
<1>5. FlagsInv' /\ ListInv'
  <2>1. (running' = running \/ running' = FALSE) /\ (missed' = missed \/ missed' = (spc = "born"))
    BY DEF Create, Release, LifeStep, StartTimerThread, StartWorkers, StopTimerThread, StopJoin,
           StopDelete
  <2>2. running' \in BOOLEAN /\ missed' \in BOOLEAN
    BY <2>1, Zenon DEF Base, FlagsInv
  <2> QED BY <1>1, <2>2 DEF Base, FlagsInv, ListInv
<1>6. ValuesInv'
  BY <1>1 DEF Base, ValuesInv, WorkerPoints
<1>7. LockInv' /\ CallInv' /\ PlaceInv'
  BY <1>1 DEF Base, LockInv, CallInv, PlaceInv
<1> QED BY <1>4, <1>5, <1>6, <1>7 DEF Base

LEMMA StutterBase ==
    ASSUME Base, UNCHANGED vars
    PROVE  Base'
<1> USE DEF vars, timerVars, queueVars
<1>1. FlagsInv' /\ ValuesInv'
  BY DEF Base, FlagsInv, ValuesInv
<1>2. CallInv' /\ LockInv' /\ PlaceInv' /\ ListInv'
  BY DEF Base, CallInv, LockInv, PlaceInv, ListInv
<1>3. RoomInv'
  BY DEF Base, RoomInv, Owed, Due
<1> QED BY <1>1, <1>2, <1>3 DEF Base

LEMMA NextBase == Base /\ LifeInv /\ [Next]_vars => Base'
<1> SUFFICES ASSUME Base, LifeInv, [Next]_vars PROVE Base'
  OBVIOUS
<1>1. ASSUME NEW c \in Users, Call(c) \/ CallStep(c) PROVE Base'
  BY <1>1, DispatchBase, FireBase, DispatchFillBase, FireFillBase, SetTimerBase, SetTimerEndBase,
     StartResetBase, ResetBase, AttachBase, AttachSignalBase DEF Call, CallStep
<1>2. ASSUME TimerStep \/ \E t \in Timers : TimePasses(t) PROVE Base'
  BY <1>2, ScanPastBase, ScanFillBase, ScanOtherBase, LoopBase, TimePassesBase DEF TimerStep
<1>3. ASSUME NEW w \in Workers, WorkerStep(w) PROVE Base'
  BY <1>3, WorkerBase DEF WorkerStep
<1> QED BY <1>1, <1>2, <1>3, LifeBase, StutterBase DEF Next

-----------------------------------------------------------------------------
(* The life of the instance                                                *)

LEMMA InitLife == Init => LifeInv
BY DEF Init, LifeInv

LEMMA NextLife == Base /\ LifeInv /\ [Next]_vars => LifeInv'
<1> SUFFICES ASSUME Base, LifeInv, [Next]_vars PROVE LifeInv'
  OBVIOUS
<1> USE DEF LifeInv
<1>0. wpc \in [Workers -> WorkerPoints]
  BY DEF Base, ValuesInv
<1>1. ASSUME NEW c \in Users, Call(c) \/ CallStep(c) PROVE LifeInv'
  <2>1. UNCHANGED <<life, missed, running, spc, wpc>>
    BY <1>1 DEF Call, CallStep, Dispatch, SetTimer, SetTimerEnd, Reset, Fire, DispatchFill,
                StartReset, Attach, AttachSignal, FireFill, callFrame
  <2> QED BY <2>1
<1>2. ASSUME TimerStep \/ \E t \in Timers : TimePasses(t) PROVE LifeInv'
  <2>1. /\ UNCHANGED <<life, missed, wpc>> /\ (spc = "off" => spc' = "off")
        /\ \/ spc = "born" /\ spc' = "loop" /\ running'
           \/ running' = running /\ (spc = "born" <=> spc' = "born")
                /\ (spc' # "off" \/ spc = "off" \/ ~running)
    BY <1>2 DEF TimerStep, TimerBegins, CheckTimers, ScanPast, TimeIsUp, ScanFill, ScanOther,
                ScanEnd, LoopEnd, AtLoopTest, TimePasses, timerFrame
  <2> QED BY <2>1
<1>3. ASSUME NEW w \in Workers, WorkerStep(w) PROVE LifeInv'
  <2>1. UNCHANGED <<life, missed, running, spc>> /\ \A v \in Workers : wpc[v] = "off" => wpc'[v] = "off"
    BY <1>0, <1>3 DEF WorkerStep, WorkerClaim, WorkerCall, CallbackReturns,
                WorkerNothing, WorkerReset, WorkerWait, workerFrame
  <2> QED BY <2>1
<1>4. ASSUME Create \/ Release \/ LifeStep PROVE LifeInv'
  <2>1. CASE Release
    <3>1. /\ \/ running /\ life' = "joining"
             \/ ~running /\ life' = "stopping"
          /\ life = "up" /\ UNCHANGED <<spc, wpc>> /\ (missed' <=> spc = "born")
      BY <2>1, Zenon DEF Release
    <3> QED BY <3>1
  <2>2. CASE Create \/ LifeStep
    BY <2>2 DEF Create, LifeStep, StartTimerThread, StartWorkers, StopTimerThread, StopJoin,
                StopDelete
  <2> QED BY <1>4, <2>1, <2>2
<1>5. ASSUME UNCHANGED vars PROVE LifeInv'
  BY <1>5 DEF vars
<1> QED BY <1>1, <1>2, <1>3, <1>4, <1>5 DEF Next

LEMMA BaseHolds == Spec => [](Base /\ LifeInv)
<1>1. Init => Base /\ LifeInv
  BY InitBase, InitLife
<1>2. Base /\ LifeInv /\ [Next]_vars => Base' /\ LifeInv'
  BY NextBase, NextLife
<1> QED BY <1>1, <1>2, PTL DEF Spec

\* The variables keep their types, no worker is ahead of the writers, and the
\* operations never outgrow the queue, for any number of threads and timers.
THEOREM SchedulerTypes == Spec => []TypeOK
<1>1. Base => TypeOK
  BY DEF Base, FlagsInv, ValuesInv, TypeOK
<1> QED BY <1>1, BaseHolds, PTL

\* Clients may call at any time and callbacks dispatch and start timers until the
\* workers are joined: no worker outlives the queue and its event, and the timer
\* thread is without what it uses only when it began too late for stop() to join
\* it, or so early that start() had not made the queue.
THEOREM SchedulerUsersSafe == Spec => []UsersSafe
<1>1. LifeInv => UsersSafe
  BY DEF LifeInv, UsersSafe, TimeIsUp, SchedEventThere, QueueThere, OpEventThere
<1> QED BY <1>1, BaseHolds, PTL

-----------------------------------------------------------------------------
(* The operations the workers take                                         *)

Held(i) == \E w \in Workers : has[w] = i

LEMMA RunOnceFacts ==
    ASSUME Base
    PROVE  OpsRunOnce <=> \A i \in 1..MaxOps :
                              /\ i <= got /\ Held(i) => runs[i] = 0
                              /\ i <= got /\ ~Held(i) => runs[i] = 1
                              /\ i > got => ~Held(i) /\ runs[i] = 0
<1>1. runs \in [1..MaxOps -> Nat] /\ got \in Nat
  BY Types DEF Base, ValuesInv
<1> QED BY <1>1 DEF OpsRunOnce, Held

LEMMA InitTaken == Init => TakenInv
BY SchedulerAssumption DEF SchedulerAssumption, Init, TakenInv, OpsRunOnce

LEMMA WorkerClaimTaken ==
    ASSUME Base, Base', TakenInv, NEW w \in Workers, WorkerClaim(w)
    PROVE  TakenInv'
<1> USE DEF WorkerClaim
<1>1. /\ got \in Nat /\ got' = got + 1 /\ got + 1 \in 1..MaxOps
      /\ has \in [Workers -> 0..MaxOps] /\ has'[w] = got + 1
      /\ \A v \in Workers : v # w => has'[v] = has[v] /\ wpc'[v] = wpc[v]
      /\ wpc'[w] = "spin" /\ runs' = runs /\ has[w] = 0
  BY Types DEF Base, ValuesInv, TakenInv
<1>2. \A v \in Workers : has[v] \in 0..got
  BY <1>1 DEF TakenInv
<1>3. \A v \in Workers : IF wpc'[v] = "spin" THEN has'[v] \in 1..got' ELSE has'[v] = 0
  BY <1>1, <1>2 DEF TakenInv
<1>4. \A u, v \in Workers : has'[u] = has'[v] /\ has'[u] # 0 => u = v
  BY <1>1, <1>2 DEF TakenInv
<1>5. OpsRunOnce'
  <2>1. \A i \in 1..MaxOps : Held(i)' <=> Held(i) \/ i = got + 1
    BY <1>1 DEF Held
  <2>2. ~Held(got + 1)
    BY <1>1, <1>2 DEF Held
  <2>3. \A i \in 1..MaxOps :
            /\ i <= got /\ Held(i) => runs[i] = 0
            /\ i <= got /\ ~Held(i) => runs[i] = 1
            /\ i > got => ~Held(i) /\ runs[i] = 0
    BY RunOnceFacts DEF TakenInv
  <2>4. \A i \in 1..MaxOps :
            (IF Held(i)' THEN 1 ELSE 0) + runs'[i] = (IF i <= got' THEN 1 ELSE 0)
    BY <1>1, <2>1, <2>2, <2>3
  <2> QED BY <2>4 DEF OpsRunOnce, Held
<1> QED BY <1>3, <1>4, <1>5 DEF TakenInv

LEMMA WorkerCallTaken ==
    ASSUME Base, Base', TakenInv, NEW w \in Workers, WorkerCall(w)
    PROVE  TakenInv'
<1> USE DEF WorkerCall
<1>1. /\ got \in Nat /\ got' = got /\ got <= MaxOps /\ MaxOps \in Nat
      /\ has[w] \in 1..got /\ has'[w] = 0
      /\ \A v \in Workers : v # w => has'[v] = has[v] /\ wpc'[v] = wpc[v]
      /\ wpc'[w] = "call" /\ runs \in [1..MaxOps -> Nat]
      /\ runs' = [runs EXCEPT ![has[w]] = @ + 1]
  BY Types DEF Base, ValuesInv, TakenInv
<1>2. \A v \in Workers : IF wpc'[v] = "spin" THEN has'[v] \in 1..got' ELSE has'[v] = 0
  BY <1>1 DEF TakenInv
<1>3. \A u, v \in Workers : has'[u] = has'[v] /\ has'[u] # 0 => u = v
  BY <1>1 DEF TakenInv
<1>4. OpsRunOnce'
  <2>1. \A i \in 1..MaxOps : Held(i)' <=> Held(i) /\ i # has[w]
    BY <1>1 DEF Held, TakenInv
  <2>2. Held(has[w])
    BY DEF Held
  <2>3. \A i \in 1..MaxOps :
            /\ i <= got /\ Held(i) => runs[i] = 0
            /\ i <= got /\ ~Held(i) => runs[i] = 1
            /\ i > got => ~Held(i) /\ runs[i] = 0
    BY RunOnceFacts DEF TakenInv
  <2>4. \A i \in 1..MaxOps :
            (IF Held(i)' THEN 1 ELSE 0) + runs'[i] = (IF i <= got' THEN 1 ELSE 0)
    BY <1>1, <2>1, <2>2, <2>3
  <2> QED BY <2>4 DEF OpsRunOnce, Held
<1> QED BY <1>2, <1>3, <1>4 DEF TakenInv

LEMMA NextTaken == Base /\ Base' /\ LifeInv /\ TakenInv /\ [Next]_vars => TakenInv'
<1> SUFFICES ASSUME Base, Base', LifeInv, TakenInv, [Next]_vars PROVE TakenInv'
  OBVIOUS
<1>0. wpc \in [Workers -> WorkerPoints]
  BY DEF Base, ValuesInv
<1>1. ASSUME UNCHANGED <<got, has, runs>>,
             \A w \in Workers : wpc'[w] = "spin" <=> wpc[w] = "spin"
      PROVE  TakenInv'
  BY <1>1 DEF TakenInv, OpsRunOnce
<1>2. ASSUME NEW c \in Users, Call(c) \/ CallStep(c) PROVE TakenInv'
  <2>1. UNCHANGED <<got, has, runs, wpc>>
    BY <1>2 DEF Call, CallStep, Dispatch, SetTimer, SetTimerEnd, Reset, Fire, DispatchFill,
                StartReset, Attach, AttachSignal, FireFill, callFrame
  <2> QED BY <1>1, <2>1
<1>3. ASSUME TimerStep \/ \E t \in Timers : TimePasses(t) PROVE TakenInv'
  <2>1. UNCHANGED <<got, has, runs, wpc>>
    BY <1>3 DEF TimerStep, TimerBegins, CheckTimers, ScanPast, ScanFill, ScanOther, ScanEnd, LoopEnd,
                TimePasses, timerFrame
  <2> QED BY <1>1, <2>1
<1>4. ASSUME NEW w \in Workers,
             CallbackReturns(w) \/ WorkerNothing(w) \/ WorkerReset(w) \/ WorkerWait(w)
      PROVE  TakenInv'
  <2>1. /\ UNCHANGED <<got, has, runs>>
        /\ \A v \in Workers : wpc'[v] = "spin" <=> wpc[v] = "spin"
    BY <1>0, <1>4 DEF CallbackReturns, WorkerNothing, WorkerReset, WorkerWait,
                AfterTest
  <2> QED BY <1>1, <2>1
<1>5. ASSUME Create \/ Release \/ LifeStep PROVE TakenInv'
  <2>1. /\ UNCHANGED <<got, has, runs>>
        /\ \A v \in Workers : wpc'[v] = "spin" <=> wpc[v] = "spin"
    BY <1>5 DEF Create, Release, LifeStep, StartTimerThread, StartWorkers,
                StopTimerThread, StopJoin, StopDelete, lifeFrame, LifeInv
  <2> QED BY <1>1, <2>1
<1>6. ASSUME UNCHANGED vars PROVE TakenInv'
  BY <1>1, <1>6 DEF vars
<1> QED BY <1>2, <1>3, <1>4, <1>5, <1>6, WorkerClaimTaken, WorkerCallTaken
        DEF Next, WorkerStep

\* However many workers compete for get_index_ while writers claim and fill, an
\* operation is taken by one worker and called once.
THEOREM OperationsRunOnce == Spec => []OpsRunOnce
<1>1. TakenInv => OpsRunOnce
  BY DEF TakenInv
<1> QED BY <1>1, InitTaken, NextTaken, BaseHolds, PTL DEF Spec

-----------------------------------------------------------------------------
(* The timers                                                              *)

\* t keeps its count, its flag, its setting and its place
LEMMA TimerKept ==
    ASSUME NEW t \in Timers, TimerOK(t), fired'[t] = fired[t], repeat[t] => repeat'[t],
           t \in attached => t \in attached', BeingSet(t) => BeingSet(t)',
           OnList(t)' => OnList(t), Firing(t) /\ OnList(t)' => Firing(t)'
    PROVE  TimerOK(t)'
BY DEF TimerOK

\* a timer that is reset, or not yet fired, may be anything else
LEMMA TimerFresh ==
    ASSUME NEW t \in Timers, fired'[t] = 0
    PROVE  TimerOK(t)'
BY DEF TimerOK

LEMMA InitTimer == Init => TimerInv
BY DEF Init, TimerInv, TimerOK

LEMMA SetTimerTimer ==
    ASSUME Base, TimerInv, NEW c \in Users, NEW t \in Timers, SetTimer(c, t)
    PROVE  TimerInv'
<1> USE DEF SetTimer
<1>0. /\ cpc \in [Users -> CallPoints]
      /\ ct \in [Users -> Timers \cup {NULL}] /\ cpc[c] = "idle"
      /\ cpc' = [cpc EXCEPT ![c] = "setting"] /\ ct' = [ct EXCEPT ![c] = t]
      /\ UNCHANGED <<timers, attached, fired, spc, at>>
  BY DEF Base, ValuesInv, Enter, callFrame
<1> SUFFICES ASSUME NEW u \in Timers PROVE TimerOK(u)'
  BY DEF TimerInv
<1>1. TimerOK(u)
  BY DEF TimerInv
<1>2. CASE u = t
  <2>1. BeingSet(u)'
    BY <1>0, <1>2 DEF BeingSet
  <2> QED BY <1>0, <1>1, <2>1 DEF TimerOK
<1>3. CASE u # t
  <2>1. BeingSet(u) => BeingSet(u)'
    BY <1>0, <1>3 DEF BeingSet
  <2>2. repeat'[u] = repeat[u]
    BY <1>3 DEF Base, FlagsInv
  <2>3. (OnList(u)' => OnList(u)) /\ (Firing(u) => Firing(u)')
    BY <1>0 DEF OnList, Firing
  <2> QED BY <1>0, <1>1, <2>1, <2>2, <2>3, TimerKept
<1> QED BY <1>2, <1>3

LEMMA SetTimerEndTimer ==
    ASSUME Base, TimerInv, NEW c \in Users, SetTimerEnd(c)
    PROVE  TimerInv'
<1> USE DEF SetTimerEnd
<1>0. /\ cpc \in [Users -> CallPoints] /\ cpc[c] = "setting"
      /\ cpc' = [cpc EXCEPT ![c] = "set"]
      /\ UNCHANGED <<timers, repeat, attached, fired, spc, at, ct>>
  BY DEF Base, ValuesInv, callFrame
<1> SUFFICES ASSUME NEW u \in Timers PROVE TimerOK(u)'
  BY DEF TimerInv
<1>1. TimerOK(u)
  BY DEF TimerInv
<1>2. BeingSet(u) => BeingSet(u)'
  BY <1>0 DEF BeingSet
<1>3. (OnList(u)' => OnList(u)) /\ (Firing(u) => Firing(u)')
  BY <1>0 DEF OnList, Firing
<1> QED BY <1>0, <1>1, <1>2, <1>3, TimerKept

\* reset(), as such and from start()
LEMMA ResetTimer ==
    ASSUME Base, TimerInv, NEW c \in Users, NEW t \in Timers, lock = NULL,
           timers' = Detached(t), attached' = attached \ {t}, fired' = [fired EXCEPT ![t] = 0],
           UNCHANGED repeat,
           \A u \in Timers \ {t} : BeingSet(u) => BeingSet(u)'
    PROVE  TimerInv'
<1> SUFFICES ASSUME NEW u \in Timers PROVE TimerOK(u)'
  BY DEF TimerInv
<1>0. fired \in [Timers -> Nat]
  BY DEF Base, ValuesInv
<1>1. TimerOK(u)
  BY DEF TimerInv
<1>2. CASE u = t
  <2>1. fired'[u] = 0
    BY <1>0, <1>2
  <2> QED BY <2>1, TimerFresh
<1>3. CASE u # t
  <2>1. OnList(u)' => OnList(u)
    BY Types, DetachedFacts DEF OnList
  <2>2. ~Firing(u)
    BY ThreadsAssumption DEF ThreadsAssumption, Base, LockInv, Firing
  <2>3. fired'[u] = fired[u]
    BY <1>0, <1>3
  <2> QED BY <1>1, <1>3, <2>1, <2>2, <2>3, TimerKept
<1> QED BY <1>2, <1>3

LEMMA StartResetTimer ==
    ASSUME Base, TimerInv, NEW c \in Users, StartReset(c)
    PROVE  TimerInv'
<1> USE DEF StartReset
<1>1. ct[c] \in Timers /\ cpc \in [Users -> CallPoints]
  BY DEF Base, ValuesInv, CallInv, TimerCalls
<1>2. \A u \in Timers \ {ct[c]} : BeingSet(u) => BeingSet(u)'
  BY <1>1, SchedulerAssumption DEF SchedulerAssumption, BeingSet
<1> QED BY <1>1, <1>2, ResetTimer

LEMMA ResetCallTimer ==
    ASSUME Base, TimerInv, NEW c \in Users, NEW t \in Timers, Reset(c, t)
    PROVE  TimerInv'
<1> USE DEF Reset
<1>1. \A u \in Timers \ {t} : BeingSet(u) => BeingSet(u)'
  BY DEF BeingSet
<1> QED BY <1>1, ResetTimer

LEMMA AttachTimer ==
    ASSUME Base, TimerInv, NEW c \in Users, Attach(c)
    PROVE  TimerInv'
<1> USE DEF Attach
<1>1. /\ ct[c] \in Timers /\ ct[c] \notin attached
      /\ cpc \in [Users -> CallPoints]
  BY DEF Base, ValuesInv, CallInv, ListInv, TimerCalls
<1> SUFFICES ASSUME NEW u \in Timers PROVE TimerOK(u)'
  BY DEF TimerInv
<1>2. TimerOK(u)
  BY DEF TimerInv
<1>3. CASE u = ct[c]
  <2>1. fired'[u] = 0
    BY <1>1, <1>2, <1>3 DEF TimerOK
  <2> QED BY <2>1, TimerFresh
<1>4. CASE u # ct[c]
  <2>1. OnList(u)' => OnList(u)
    BY <1>1, <1>4, Types DEF OnList
  <2>2. ~Firing(u)
    BY ThreadsAssumption DEF ThreadsAssumption, Base, LockInv, Firing
  <2>3. BeingSet(u) => BeingSet(u)'
    BY <1>1, SchedulerAssumption DEF SchedulerAssumption, BeingSet
  <2> QED BY <1>2, <2>1, <2>2, <2>3, TimerKept
<1> QED BY <1>3, <1>4

\* the calls that do nothing to a timer's list, flag or count
LEMMA CallTimer ==
    ASSUME Base, TimerInv, NEW c \in Users,
           \/ Dispatch(c) \/ DispatchFill(c) \/ AttachSignal(c) \/ FireFill(c)
           \/ \E t \in Timers : Fire(c, t)
    PROVE  TimerInv'
<1>0. /\ cpc \in [Users -> CallPoints]
      /\ ct \in [Users -> Timers \cup {NULL}]
  BY DEF Base, ValuesInv
<1>1. /\ UNCHANGED <<timers, repeat, attached, fired, spc, at>>
      /\ cpc[c] \notin {"setting", "set"} /\ \A d \in Users \ {c} : cpc'[d] = cpc[d] /\ ct'[d] = ct[d]
  BY <1>0 DEF Dispatch, DispatchFill, AttachSignal, FireFill, Done, Fire, Enter, callFrame,
              timerVars
<1> SUFFICES ASSUME NEW u \in Timers PROVE TimerOK(u)'
  BY DEF TimerInv
<1>2. TimerOK(u)
  BY DEF TimerInv
<1>3. BeingSet(u) => BeingSet(u)'
  BY <1>1, SchedulerAssumption DEF SchedulerAssumption, BeingSet
<1>4. (OnList(u)' => OnList(u)) /\ (Firing(u) => Firing(u)')
  BY <1>1 DEF OnList, Firing
<1> QED BY <1>1, <1>2, <1>3, <1>4, TimerKept

LEMMA ScanPastTimer ==
    ASSUME Base, TimerInv, ScanPast
    PROVE  TimerInv'
<1> USE DEF ScanPast, TimeIsUp, timerFrame
<1>0. /\ fired \in [Timers -> Nat] /\ at \in DOMAIN timers
      /\ timers[at] \in Timers /\ timers[at] \in attached
  <2>1. at \in Nat /\ at >= 1 /\ timers \in Seq(Timers) /\ fired \in [Timers -> Nat]
    BY DEF Base, ValuesInv, PlaceInv
  <2>2. at \in DOMAIN timers
    BY <2>1
  <2> QED BY <2>1, <2>2 DEF Base, ListInv
<1> SUFFICES ASSUME NEW u \in Timers PROVE TimerOK(u)'
  BY DEF TimerInv
<1>1. TimerOK(u)
  BY DEF TimerInv
<1>2. BeingSet(u)' <=> BeingSet(u)
  BY DEF BeingSet
<1>3. CASE u = timers[at]
  <2>1. OnList(u) /\ ~Firing(u) /\ Firing(u)'
    BY <1>0, <1>3 DEF OnList, Firing
  <2>2. ~repeat[u] /\ ~BeingSet(u) => fired[u] = 0
    BY <1>1, <2>1 DEF TimerOK
  <2>3. fired'[u] = fired[u] + 1 /\ u \in attached'
    BY <1>0, <1>3
  <2> QED BY <1>2, <2>1, <2>2, <2>3 DEF TimerOK
<1>4. CASE u # timers[at]
  <2>1. fired'[u] = fired[u]
    BY <1>0, <1>4
  <2>2. (OnList(u)' => OnList(u)) /\ ~Firing(u)
    BY DEF OnList, Firing
  <2> QED BY <1>1, <1>2, <2>1, <2>2, TimerKept
<1> QED BY <1>3, <1>4

\* a timer that does not repeat is gone once it was dispatched
LEMMA RearmTimer ==
    ASSUME Base, at \in 1..Len(timers), Rearm(timers[at])
    PROVE  /\ \A u \in Timers : OnList(u)' => OnList(u)
           /\ \A u \in Timers : u = timers[at] /\ ~repeat[u] => ~OnList(u)'
<1>1. CASE repeat[timers[at]]
  BY <1>1 DEF Rearm, OnList
<1>2. CASE ~repeat[timers[at]]
  <2>1. timers' = RemoveAt(timers, at)
    BY <1>2 DEF Rearm
  <2>2. \A k \in DOMAIN timers' : /\ timers'[k] # timers[at]
                                  /\ \E j \in DOMAIN timers : timers'[k] = timers[j]
    BY <2>1, Types, RemoveDistinct
  <2> QED BY <2>2 DEF OnList
<1> QED BY <1>1, <1>2

LEMMA ScanFillTimer ==
    ASSUME Base, TimerInv, ScanFill
    PROVE  TimerInv'
<1> USE DEF ScanFill, timerFrame
<1>0. at \in 1..Len(timers) /\ Rearm(timers[at])
  BY DEF Base, PlaceInv
<1> SUFFICES ASSUME NEW u \in Timers PROVE TimerOK(u)'
  BY DEF TimerInv
<1>1. TimerOK(u)
  BY DEF TimerInv
<1>2. (BeingSet(u)' <=> BeingSet(u)) /\ UNCHANGED <<repeat, attached, fired>>
  BY DEF BeingSet
<1>3. OnList(u)' => OnList(u)
  BY <1>0, RearmTimer
<1>4. CASE u = timers[at]
  <2>1. ~repeat[u] => ~OnList(u)'
    BY <1>0, <1>4, RearmTimer
  <2> QED BY <1>1, <1>2, <2>1 DEF TimerOK
<1>5. CASE u # timers[at]
  <2>1. ~Firing(u)
    BY <1>5 DEF Firing
  <2> QED BY <1>1, <1>2, <1>3, <2>1, TimerKept
<1> QED BY <1>4, <1>5

LEMMA ScanOtherTimer ==
    ASSUME Base, TimerInv, ScanOther
    PROVE  TimerInv'
<1> USE DEF ScanOther, timerFrame
<1> SUFFICES ASSUME NEW u \in Timers PROVE TimerOK(u)'
  BY DEF TimerInv
<1>1. TimerOK(u)
  BY DEF TimerInv
<1>2. (BeingSet(u)' <=> BeingSet(u)) /\ UNCHANGED <<repeat, attached, fired>>
  BY DEF BeingSet
<1>3. OnList(u)' => OnList(u)
  <2>1. at \in 1..Len(timers)
    BY Types DEF Base, ValuesInv, PlaceInv
  <2>2. CASE Rearm(timers[at])
    BY <2>1, <2>2, RearmTimer
  <2>3. CASE UNCHANGED timers
    BY <2>3 DEF OnList
  <2> QED BY <2>2, <2>3
<1>4. ~Firing(u)
  BY DEF Firing
<1> QED BY <1>1, <1>2, <1>3, <1>4, TimerKept

\* a step that no timer and no client notices
LEMMA ElsewhereTimer ==
    ASSUME TimerInv, UNCHANGED <<timers, repeat, attached, fired, cpc, ct>>,
           spc # "fill" \/ UNCHANGED <<spc, at>>
    PROVE  TimerInv'
<1> SUFFICES ASSUME NEW u \in Timers PROVE TimerOK(u)'
  BY DEF TimerInv
<1>1. TimerOK(u)
  BY DEF TimerInv
<1>2. BeingSet(u) => BeingSet(u)'
  BY DEF BeingSet
<1>3. (OnList(u)' => OnList(u)) /\ (Firing(u) => Firing(u)')
  BY DEF OnList, Firing
<1> QED BY <1>1, <1>2, <1>3, TimerKept

LEMMA NextTimer == Base /\ LifeInv /\ TimerInv /\ [Next]_vars => TimerInv'
<1> SUFFICES ASSUME Base, LifeInv, TimerInv, [Next]_vars PROVE TimerInv'
  OBVIOUS
<1>1. ASSUME NEW c \in Users, Call(c) \/ CallStep(c) PROVE TimerInv'
  BY <1>1, SetTimerTimer, SetTimerEndTimer, StartResetTimer, ResetCallTimer, AttachTimer, CallTimer
     DEF Call, CallStep
<1>2. ASSUME TimerStep PROVE TimerInv'
  <2>1. CASE TimerBegins \/ CheckTimers \/ ScanEnd \/ LoopEnd
    BY <2>1, ElsewhereTimer
       DEF TimerBegins, CheckTimers, ScanEnd, LoopEnd, AtLoopTest, timerFrame
  <2> QED BY <1>2, <2>1, ScanPastTimer, ScanFillTimer, ScanOtherTimer DEF TimerStep
<1>3. ASSUME NEW t \in Timers, TimePasses(t) PROVE TimerInv'
  BY <1>3, ElsewhereTimer DEF TimePasses, timerFrame
<1>4. ASSUME NEW w \in Workers, WorkerStep(w) PROVE TimerInv'
  <2>1. UNCHANGED <<timers, repeat, attached, fired, cpc, ct, spc, at>>
    BY <1>4 DEF WorkerStep, WorkerClaim, WorkerCall, CallbackReturns,
                WorkerNothing, WorkerReset, WorkerWait, workerFrame, timerVars
  <2> QED BY <2>1, ElsewhereTimer
<1>5. ASSUME Create \/ Release \/ LifeStep PROVE TimerInv'
  <2>1. /\ UNCHANGED <<timers, repeat, attached, fired, cpc, ct, at>>
        /\ spc = "off" \/ UNCHANGED spc
    BY <1>5 DEF Create, Release, LifeStep, StartTimerThread, StartWorkers,
                StopTimerThread, StopJoin, StopDelete, lifeFrame,
                timerVars, LifeInv, SchedEventThere
  <2> QED BY <2>1, ElsewhereTimer
<1>6. ASSUME UNCHANGED vars PROVE TimerInv'
  BY <1>6, ElsewhereTimer DEF vars, timerVars
<1> QED BY <1>1, <1>2, <1>3, <1>4, <1>5, <1>6 DEF Next

\* Whatever the clients set, start, fire and reset while check_timers scans, a
\* timer is in timers_ at most once, one that is reset fires no more until it
\* is started again, and one that does not repeat fires once for a start.
THEOREM TimersFireAsTheyAreSet == Spec => []TimersFireAsSet
<1>1. Base /\ TimerInv => TimersFireAsSet
  BY DEF Base, ListInv, Distinct, TimerInv, TimerOK, TimersFireAsSet
<1> QED BY <1>1, InitTimer, NextTimer, BaseHolds, PTL DEF Spec

-----------------------------------------------------------------------------
(* The cells that are claimed and not filled                               *)

LEMMA InitFill == Init => FillInv
<1> SUFFICES ASSUME Init PROVE FillInv
  OBVIOUS
<1>1. Unfilled = {}
  BY DEF Init, Unfilled
<1>2. \A x \in Threads : ~FillPoint(x) /\ fills[x] = 0
  BY DEF Init, FillPoint
<1> QED BY <1>1, <1>2 DEF FillInv

\* the other threads stay where they are with respect to their cells
OthersStay(x) == \A y \in Threads \ {x} : FillPoint(y)' <=> FillPoint(y)

LEMMA ClaimFills ==
    ASSUME Base, FillInv, NEW x \in Threads, Claim(x),
           ~FillPoint(x), FillPoint(x)', OthersStay(x)
    PROVE  FillInv'
<1> DEFINE n == Len(cells) + 1
<1>1. /\ Len(cells) \in Nat /\ Len(cells') = n /\ cells'[n] = "claimed"
      /\ \A i \in 1..Len(cells) : cells'[i] = cells[i]
      /\ fills' = [fills EXCEPT ![x] = n] /\ fills \in [Threads -> 0..MaxOps]
  BY Types, ClaimFacts DEF Base, ValuesInv
<1>2. Unfilled' = Unfilled \cup {n} /\ n \notin Unfilled /\ n # 0 /\ 0 \notin Unfilled
  <2>1. Unfilled' = {i \in 1..n : cells'[i] = "claimed"}
    BY <1>1 DEF Unfilled
  <2>2. 1..n = 1..Len(cells) \cup {n} /\ n \notin 1..Len(cells) /\ n # 0
    BY <1>1
  <2> HIDE DEF n
  <2> QED BY <1>1, <2>1, <2>2 DEF Unfilled
<1> HIDE DEF n
<1>3. fills'[x] = n /\ \A y \in Threads \ {x} : fills'[y] = fills[y] /\ fills[y] # n
  <2>1. \A y \in Threads : fills[y] # n
    BY <1>2 DEF FillInv
  <2> QED BY <1>1, <2>1
<1>4. fills[x] = 0
  BY DEF FillInv
<1>5. \A y \in Threads : IF FillPoint(y)' THEN fills'[y] \in Unfilled' ELSE fills'[y] = 0
  BY <1>2, <1>3 DEF FillInv, OthersStay
<1>6. \A y, z \in Threads : fills'[y] = fills'[z] /\ fills'[y] # 0 => y = z
  BY <1>3 DEF FillInv
<1>7. \A i \in Unfilled' : \E y \in Threads : fills'[y] = i
  BY <1>2, <1>3, <1>4 DEF FillInv
<1> QED BY <1>5, <1>6, <1>7 DEF FillInv

LEMMA FillFills ==
    ASSUME Base, FillInv, NEW x \in Threads, Fill(x),
           FillPoint(x), ~FillPoint(x)', OthersStay(x)
    PROVE  FillInv'
<1>1. /\ Len(cells) \in Nat /\ Len(cells') = Len(cells)
      /\ fills[x] \in 1..Len(cells) => cells'[fills[x]] = "filled"
      /\ \A i \in 1..Len(cells) : i # fills[x] => cells'[i] = cells[i]
      /\ fills' = [fills EXCEPT ![x] = 0] /\ fills \in [Threads -> 0..MaxOps]
  BY Types, FillFacts DEF Base, ValuesInv
<1>2. Unfilled' = Unfilled \ {fills[x]} /\ 0 \notin Unfilled /\ fills[x] \in Unfilled
  <2>1. Unfilled' = {i \in 1..Len(cells) : cells'[i] = "claimed"} /\ fills[x] \in Unfilled
    BY <1>1 DEF Unfilled, FillInv
  <2> QED BY <1>1, <2>1 DEF Unfilled
<1>3. fills'[x] = 0 /\ \A y \in Threads \ {x} : fills'[y] = fills[y] /\ fills[y] # fills[x]
  <2>1. \A y \in Threads \ {x} : fills[y] # fills[x]
    BY <1>2 DEF FillInv
  <2> QED BY <1>1, <2>1
<1>5. \A y \in Threads : IF FillPoint(y)' THEN fills'[y] \in Unfilled' ELSE fills'[y] = 0
  BY <1>2, <1>3 DEF FillInv, OthersStay
<1>6. \A y, z \in Threads : fills'[y] = fills'[z] /\ fills'[y] # 0 => y = z
  BY <1>3 DEF FillInv
<1>7. \A i \in Unfilled' : \E y \in Threads : fills'[y] = i
  BY <1>2, <1>3 DEF FillInv
<1> QED BY <1>5, <1>6, <1>7 DEF FillInv

LEMMA FillsKept ==
    ASSUME FillInv, UNCHANGED <<cells, fills>>,
           \A x \in Threads : FillPoint(x)' <=> FillPoint(x)
    PROVE  FillInv'
<1>1. Unfilled' = Unfilled
  BY DEF Unfilled
<1> QED BY <1>1 DEF FillInv

LEMMA CallFills ==
    ASSUME Base, FillInv, NEW c \in Users, Call(c) \/ CallStep(c)
    PROVE  FillInv'
<1>0. /\ cpc \in [Users -> CallPoints]
      /\ c \in Threads /\ c # TimerThread
  BY ThreadsAssumption DEF ThreadsAssumption, Base, ValuesInv, Threads
<1>1. UNCHANGED <<wpc, spc>> /\ \A d \in Users \ {c} : cpc'[d] = cpc[d]
  BY <1>0 DEF Call, CallStep, Dispatch, SetTimer, SetTimerEnd, Reset, Fire, DispatchFill,
              StartReset, Attach, AttachSignal, FireFill, Done, callFrame
<1>2. OthersStay(c)
  BY <1>1 DEF OthersStay, FillPoint
<1>3. CASE Dispatch(c) \/ \E t \in Timers : Fire(c, t)
  <2>1. cpc[c] = "idle" /\ cpc'[c] \in {"fill", "fire"}
    BY <1>0, <1>3 DEF Dispatch, Fire, Enter
  <2>2. ~FillPoint(c) /\ FillPoint(c)'
    BY <1>0, <2>1 DEF FillPoint
  <2>3. Claim(c)
    BY <1>3 DEF Dispatch, Fire
  <2> QED BY <1>0, <1>2, <2>2, <2>3, ClaimFills
<1>4. CASE DispatchFill(c) \/ FireFill(c)
  <2>1. cpc[c] \in {"fill", "fire"} /\ cpc'[c] = "idle"
    BY <1>0, <1>4 DEF DispatchFill, Done, FireFill
  <2>2. FillPoint(c) /\ ~FillPoint(c)'
    BY <1>0, <2>1 DEF FillPoint
  <2>3. Fill(c)
    BY <1>4 DEF DispatchFill, Done, FireFill
  <2> QED BY <1>0, <1>2, <2>2, <2>3, FillFills
<1>5. CASE \/ SetTimerEnd(c) \/ StartReset(c) \/ Attach(c) \/ AttachSignal(c)
           \/ \E t \in Timers : SetTimer(c, t) \/ Reset(c, t)
  <2>1. /\ cpc[c] \notin {"fill", "fire"} /\ cpc'[c] \notin {"fill", "fire"}
        /\ UNCHANGED <<cells, fills>>
    BY <1>0, <1>5 DEF SetTimerEnd, StartReset, Attach, AttachSignal, Done, SetTimer, Reset,
                      Enter, queueVars
  <2>2. FillPoint(c)' <=> FillPoint(c)
    BY <1>0, <2>1 DEF FillPoint
  <2> QED BY <1>2, <2>1, <2>2, FillsKept DEF OthersStay
<1> QED BY <1>3, <1>4, <1>5 DEF Call, CallStep

LEMMA TimerFills ==
    ASSUME Base, FillInv, TimerStep \/ \E t \in Timers : TimePasses(t)
    PROVE  FillInv'
<1>0. /\ TimerThread \in Threads /\ TimerThread \notin Users
      /\ UNCHANGED <<wpc, cpc>>
  BY ThreadsAssumption
     DEF ThreadsAssumption, Threads, TimerStep, TimerBegins, CheckTimers, ScanPast, ScanFill, ScanOther,
         ScanEnd, LoopEnd, TimePasses, timerFrame
<1>1. OthersStay(TimerThread)
  BY <1>0 DEF OthersStay, FillPoint
<1>2. CASE ScanPast
  <2>2. Claim(TimerThread)
    BY <1>2 DEF ScanPast
  <2>3. ~FillPoint(TimerThread) /\ (FillPoint(TimerThread))'
    BY <1>0, <1>2 DEF ScanPast, TimeIsUp, FillPoint
  <2> QED BY <1>0, <1>1, <2>2, <2>3, ClaimFills
<1>3. CASE ScanFill
  <2>1. FillPoint(TimerThread) /\ ~(FillPoint(TimerThread))' /\ Fill(TimerThread)
    BY <1>0, <1>3 DEF ScanFill, FillPoint
  <2> QED BY <1>0, <1>1, <2>1, FillFills
<1>4. CASE \/ TimerBegins \/ CheckTimers \/ ScanOther \/ ScanEnd \/ LoopEnd
           \/ \E t \in Timers : TimePasses(t)
  <2>1. UNCHANGED <<cells, fills>> /\ (spc' = "fill" <=> spc = "fill")
    BY <1>4 DEF TimerBegins, CheckTimers, ScanOther, ScanEnd, LoopEnd, AtLoopTest, TimePasses,
                queueVars
  <2>2. FillPoint(TimerThread)' <=> FillPoint(TimerThread)
    BY <1>0, <2>1 DEF FillPoint
  <2> QED BY <1>1, <2>1, <2>2, FillsKept DEF OthersStay
<1> QED BY <1>2, <1>3, <1>4 DEF TimerStep

LEMMA WorkerFills ==
    ASSUME FillInv, NEW w \in Workers, WorkerStep(w)
    PROVE  FillInv'
<1>1. UNCHANGED <<cells, fills, cpc, spc>>
  BY DEF WorkerStep, WorkerClaim, WorkerCall, CallbackReturns, WorkerNothing, WorkerReset,
         WorkerWait, workerFrame, queueVars
<1>2. \A x \in Threads : FillPoint(x)' <=> FillPoint(x)
  BY <1>1 DEF FillPoint
<1> QED BY <1>1, <1>2, FillsKept

LEMMA NextFill == Base /\ LifeInv /\ FillInv /\ [Next]_vars => FillInv'
<1> SUFFICES ASSUME Base, LifeInv, FillInv, [Next]_vars PROVE FillInv'
  OBVIOUS
<1>1. ASSUME Create \/ Release \/ LifeStep PROVE FillInv'
  <2>1. /\ UNCHANGED <<cells, fills, cpc>>
        /\ spc' = "fill" <=> spc = "fill"
    BY <1>1 DEF Create, Release, LifeStep, StartTimerThread, StartWorkers,
                StopTimerThread, StopJoin, StopDelete, lifeFrame,
                queueVars, LifeInv, SchedEventThere
  <2>2. \A x \in Threads : FillPoint(x)' <=> FillPoint(x)
    BY <2>1 DEF FillPoint
  <2> QED BY <2>1, <2>2, FillsKept
<1>2. ASSUME UNCHANGED vars PROVE FillInv'
  <2>1. \A x \in Threads : FillPoint(x)' <=> FillPoint(x)
    BY <1>2 DEF vars, FillPoint
  <2> QED BY <1>2, <2>1, FillsKept DEF vars, queueVars
<1> QED BY <1>1, <1>2, CallFills, TimerFills, WorkerFills DEF Next

\* Every index that post_msg_mul has handed out and whose cell is still empty
\* is the work of exactly one thread, which is about to fill it.
THEOREM ClaimedCellsGetFilled == Spec => []FillInv
BY InitFill, NextFill, BaseHolds, PTL DEF Spec

\* A worker that spins in get_msg_mul finds its cell filled, or another thread
\* is at the point of filling that very cell: it never spins for a cell that
\* nobody works on, and never for its own.
SpinIsServed ==
    \A w \in Workers :
        wpc[w] = "spin" /\ cells[has[w]] = "claimed" =>
            \E x \in Threads \ {w} : FillPoint(x) /\ fills[x] = has[w]

\* So it is, whatever the order in which writers claim and fill their cells.
THEOREM SpinningIsServed == Spec => []SpinIsServed
<1>1. Base /\ TakenInv /\ FillInv => SpinIsServed
  <2> SUFFICES ASSUME Base, TakenInv, FillInv,
                      NEW w \in Workers, wpc[w] = "spin", cells[has[w]] = "claimed"
               PROVE  \E x \in Threads \ {w} : FillPoint(x) /\ fills[x] = has[w]
    BY DEF SpinIsServed
  <2>1. has[w] \in Unfilled /\ has[w] # 0
    <3>1. has[w] \in 1..got /\ got \in 0..Len(cells) /\ Len(cells) \in Nat
      BY Types DEF TakenInv, Base, ValuesInv
    <3>2. has[w] \in 1..Len(cells) /\ has[w] # 0
      BY <3>1
    <3> QED BY <3>2 DEF Unfilled
  <2>2. PICK x \in Threads : fills[x] = has[w]
    BY <2>1 DEF FillInv
  <2>3. FillPoint(x)
    BY <2>1, <2>2 DEF FillInv
  <2>4. ~FillPoint(w)
    BY ThreadsAssumption DEF ThreadsAssumption, Users, FillPoint, Base, CallInv
  <2> QED BY <2>2, <2>3, <2>4
<1> QED BY <1>1, InitTaken, NextTaken, InitFill, NextFill, BaseHolds, PTL DEF Spec
=============================================================================
