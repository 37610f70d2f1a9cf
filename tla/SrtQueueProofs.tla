--------------------------- MODULE SrtQueueProofs ---------------------------
(***************************************************************************)
(* Theorems about SrtQueue.                                                *)
(*                                                                         *)
(* IndexInv bounds how far the claims of N producers can overshoot the     *)
(* full test of push(), for any N.  With at most two producers the         *)
(* overshoot stays inside the page ring, which makes MemoryInv inductive:  *)
(* every page a thread holds is the live page of its index.  CountsOK      *)
(* counts the pushes each producer has begun; with it each step of the     *)
(* ring is one of MpscFifo, or leaves the queue it stands for unchanged.   *)
(***************************************************************************)
EXTENDS SrtQueue, FiniteSetTheorems, TLAPS

Cap == (PageIndexCount - 1) * PageMsgCount

\* producers that will claim an index, or may still be admitted although
\* post_index was already as large as c when they read it
Pending(c) == {p \in Producers : \/ pc[p] = "claim"
                                 \/ pc[p] = "check" /\ seen[p] <= c}

\* Once the queue looks full from c on, each producer claims at most once more.
IndexInv ==
    \A c \in Nat : c >= get_index + Cap - 1 =>
        post_index + Cardinality(Pending(c)) <= c + Cardinality(Producers)

\* The overshoot of push()'s unlocked full test: N producers can exceed the
\* (page_index_count_ - 1) pages it allows by at most N - 1 messages.
OvershootBounded ==
    post_index <= get_index + Cap + Cardinality(Producers) - 1

-----------------------------------------------------------------------------
InFlight(p) == pc[p] \in InFlightAt

\* the page of the claimed index i is linked, live, and really the page of i
Linked(i) ==
    /\ page_indexes[RingOf(i)] # NULL
    /\ page_indexes[RingOf(i)] \in DOMAIN heap
    /\ heap[page_indexes[RingOf(i)]].home = PageNo(i)

CellOf(i) == heap[page_indexes[RingOf(i)]].cell[Slot(i)]

LastSlot(i) == Slot(i) = PageMsgCount - 1

ClaimsOK ==
    /\ get_index <= post_index
    /\ Len(tickets) = post_index
    /\ \A p \in Producers : InFlight(p) =>
          /\ get_index <= idx[p] /\ idx[p] < post_index
          /\ tickets[idx[p] + 1] = <<p, sent[p]>>
          /\ \A q \in Producers : InFlight(q) /\ idx[q] = idx[p] => q = p

TableOK ==
    \A k \in Rings : page_indexes[k] # NULL =>
        \/ cpc = "unlink" /\ k = RingOf(get_index)
        \/ /\ page_indexes[k] \in DOMAIN heap
           /\ Ring(heap[page_indexes[k]].home) = k
           /\ heap[page_indexes[k]].home >= PageNo(get_index)
           /\ heap[page_indexes[k]].home < PageNo(get_index) + PageIndexCount

FreshOK ==
    /\ \A id \in DOMAIN heap : id < allocs
    /\ \A k \in Rings : page_indexes[k] # NULL => page_indexes[k] < allocs

HoldersOK ==
    \A p \in Producers :
        /\ pc[p] = "return" => Linked(idx[p])
        /\ pc[p] \in {"msg", "flag"} =>
              Linked(idx[p]) /\ page[p] = page_indexes[RingOf(idx[p])]
        /\ pc[p] = "flag" => CellOf(idx[p]).msg = <<p, sent[p]>>

\* a filled cell from get_index on holds the message of a completed push
CellsOK ==
    \A i \in Nat : i >= get_index /\ Linked(i) /\ CellOf(i).flag = 1 =>
        /\ i < post_index
        /\ \A p \in Producers : ~(InFlight(p) /\ idx[p] = i)
        /\ CellOf(i).msg = tickets[i + 1]

ConsumerOK ==
    /\ cpc # "idle" => get_index < post_index
    /\ cpc \in {"return", "flag", "copy", "delete"} => Linked(get_index)
    /\ cpc \in {"flag", "copy", "delete", "unlink"} =>
          cpage = page_indexes[RingOf(get_index)]
    /\ cpc = "copy" => CellOf(get_index).flag = 1
    /\ cpc \in {"delete", "unlink", "advance"} =>
          /\ cmsg = tickets[get_index + 1]
          /\ \A p \in Producers : ~(InFlight(p) /\ idx[p] = get_index)
    /\ cpc \in {"delete", "unlink"} => LastSlot(get_index)
    /\ cpc = "unlink" => cpage \notin DOMAIN heap /\ cpage # NULL
    /\ cpc = "advance" /\ LastSlot(get_index) =>
          page_indexes[RingOf(get_index)] = NULL

MemoryInv ==
    /\ ClaimsOK /\ TableOK /\ FreshOK /\ HoldersOK /\ CellsOK /\ ConsumerOK
    /\ DeliveredInClaimOrder
    /\ PagesAccounted
-----------------------------------------------------------------------------
(* Indices, pages and ring positions.                                      *)

LEMMA IndexFacts ==
    ASSUME NEW i \in Nat
    PROVE  /\ i = PageMsgCount * PageNo(i) + Slot(i)
           /\ PageNo(i) \in Nat /\ Slot(i) \in Slots /\ RingOf(i) \in Rings
BY SizeAssumption DEF SizeAssumption, PageNo, Slot, Slots, RingOf, Ring, Rings

\* the one fact of non-linear arithmetic the rest rests on
LEMMA TimesStep ==
    ASSUME NEW k \in Nat, NEW a \in Int, NEW b \in Int, a < b
    PROVE  k * a + k <= k * b
<1>1. k * (b - a - 1) >= 0
  OBVIOUS
<1>2. k * (b - a - 1) = k * b - k * a - k
  OBVIOUS
<1> QED BY <1>1, <1>2

LEMMA PageMonotone ==
    ASSUME NEW i \in Nat, NEW j \in Nat, i <= j
    PROVE  PageNo(i) <= PageNo(j)
<1> SUFFICES ASSUME PageNo(j) < PageNo(i) PROVE FALSE
  BY IndexFacts
<1>1. PageMsgCount * PageNo(j) + PageMsgCount <= PageMsgCount * PageNo(i)
  BY SizeAssumption, IndexFacts, TimesStep DEF SizeAssumption
<1> QED BY <1>1, SizeAssumption, IndexFacts DEF SizeAssumption, Slots

LEMMA IndexUnique ==
    ASSUME NEW i \in Nat, NEW j \in Nat, PageNo(i) = PageNo(j), Slot(i) = Slot(j)
    PROVE  i = j
BY SizeAssumption, IndexFacts DEF SizeAssumption

LEMMA PageStep ==
    ASSUME NEW i \in Nat
    PROVE  PageNo(i + 1) = IF LastSlot(i) THEN PageNo(i) + 1 ELSE PageNo(i)
BY SizeAssumption, IndexFacts DEF SizeAssumption, LastSlot, PageNo, Slot, Slots

LEMMA RingInjective ==
    ASSUME NEW a \in Nat, NEW b \in Nat, NEW n \in Nat, Ring(a) = Ring(b),
           a >= n, b >= n, a < n + PageIndexCount, b < n + PageIndexCount
    PROVE  a = b
<1> DEFINE Q(x) == x \div PageIndexCount
<1>1. \A x \in Nat : Q(x) \in Int /\ x = PageIndexCount * Q(x) + Ring(x)
  BY SizeAssumption DEF SizeAssumption, Ring
<1>2. ASSUME NEW x \in Nat, NEW y \in Nat, Ring(x) = Ring(y), x < y,
             y < x + PageIndexCount
      PROVE  FALSE
  <2>1. Q(x) < Q(y) => PageIndexCount * Q(x) + PageIndexCount <= PageIndexCount * Q(y)
    BY <1>1, <1>2, SizeAssumption, TimesStep DEF SizeAssumption
  <2>2. Q(y) <= Q(x) => Q(y) = Q(x)
                        \/ PageIndexCount * Q(y) + PageIndexCount <= PageIndexCount * Q(x)
    BY <1>1, <1>2, SizeAssumption, TimesStep DEF SizeAssumption
  <2>3. Ring(x) \in Nat
    BY <1>2, SizeAssumption DEF SizeAssumption, Ring
  <2>4. /\ x = PageIndexCount * Q(x) + Ring(x) /\ y = PageIndexCount * Q(y) + Ring(x)
        /\ Q(x) \in Int /\ Q(y) \in Int
    BY <1>1, <1>2
  <2> HIDE DEF Q
  <2> QED BY <1>2, <2>1, <2>2, <2>3, <2>4, SizeAssumption DEF SizeAssumption
<1> QED BY <1>2, SizeAssumption DEF SizeAssumption

LEMMA CapFacts ==
    /\ Cap \in Nat \ {0}
    /\ \A i, j \in Nat : j <= i + Cap => PageNo(j) < PageNo(i) + PageIndexCount
    /\ \A x, y \in Nat : IsFull(x, y) <=> x >= y + Cap
<1>1. Cap \in Nat \ {0}
  BY SizeAssumption DEF SizeAssumption, Cap
<1>2. \A i, j \in Nat : j <= i + Cap => PageNo(j) < PageNo(i) + PageIndexCount
  <2> SUFFICES ASSUME NEW i \in Nat, NEW j \in Nat, j <= i + Cap,
                      PageNo(j) >= PageNo(i) + PageIndexCount
               PROVE  FALSE
    BY SizeAssumption, IndexFacts DEF SizeAssumption
  <2>1. PageMsgCount * PageNo(j) >= PageMsgCount * (PageNo(i) + PageIndexCount)
    BY SizeAssumption, IndexFacts DEF SizeAssumption
  <2>2. Cap = PageMsgCount * PageIndexCount - PageMsgCount
    BY SizeAssumption DEF SizeAssumption, Cap
  <2> QED BY <2>1, <2>2, SizeAssumption, IndexFacts DEF SizeAssumption, Slots
<1>3. ASSUME NEW x \in Nat, NEW y \in Nat
      PROVE  IsFull(x, y) <=> x >= y + Cap
  <2> DEFINE d == x - y
  <2>1. d \div PageMsgCount >= PageIndexCount - 1 <=> d >= Cap
    <3> HIDE DEF d
    <3>1. d \in Int
      BY DEF d
    <3>2. /\ d = PageMsgCount * (d \div PageMsgCount) + (d % PageMsgCount)
          /\ d \div PageMsgCount \in Int /\ d % PageMsgCount \in 0..(PageMsgCount - 1)
      BY <3>1, SizeAssumption DEF SizeAssumption
    <3> DEFINE q == d \div PageMsgCount
               mq == PageMsgCount * q
               mp == PageMsgCount * (PageIndexCount - 1)
    <3>3. q < PageIndexCount - 1 => mq + PageMsgCount <= mp
      <4>1. q \in Int
        BY <3>2
      <4> HIDE DEF q
      <4> QED BY <4>1, SizeAssumption, TimesStep DEF SizeAssumption
    <3>4. PageIndexCount - 1 < q => mp + PageMsgCount <= mq
      <4>1. q \in Int
        BY <3>2
      <4> HIDE DEF q
      <4> QED BY <4>1, SizeAssumption, TimesStep DEF SizeAssumption
    <3>5. Cap = PageMsgCount * (PageIndexCount - 1)
      BY SizeAssumption DEF SizeAssumption, Cap
    <3> DEFINE r == d % PageMsgCount
    <3>6. /\ d = mq + r /\ q \in Int /\ r \in 0..(PageMsgCount - 1)
          /\ mq \in Int /\ mp \in Int /\ Cap = mp
          /\ q < PageIndexCount - 1 => mq + PageMsgCount <= mp
          /\ PageIndexCount - 1 < q => mp + PageMsgCount <= mq
          /\ q = PageIndexCount - 1 => mq = mp
      BY <3>1, <3>2, <3>3, <3>4, <3>5, SizeAssumption DEF SizeAssumption
    <3>7. q >= PageIndexCount - 1 <=> d >= Cap
      <4> HIDE DEF q, r, mq, mp
      <4> QED BY <3>1, <3>6, SizeAssumption DEF SizeAssumption
    <3> QED BY <3>7
  <2> QED BY <2>1, <1>1 DEF IsFull
<1> QED BY <1>1, <1>2, <1>3
-----------------------------------------------------------------------------
(* Type correctness, for any number of producers.                          *)

\* pop() tests the flag of a live page and nobody else frees pages
TypeInv == TypeOK /\ (cpc \in {"copy", "delete"} => cpage \in DOMAIN heap)

LEMMA NewPageType ==
    ASSUME NEW n \in Nat
    PROVE  NewPage(n) \in Pages
BY DEF NewPage, Pages, Cells, EmptyCell

\* the locked region of get_msg_page keeps the types and every live page
LEMMA AllocType ==
    ASSUME TypeOK, NEW i \in Nat, AllocPage(i)
    PROVE  /\ page_indexes' \in [Rings -> Nat \cup {NULL}]
           /\ allocs' \in Nat
           /\ DOMAIN heap \subseteq DOMAIN heap' /\ DOMAIN heap' \subseteq Nat
           /\ \A id \in DOMAIN heap' : heap'[id] \in Pages
<1>1. CASE page_indexes[RingOf(i)] = NULL
  BY <1>1, IndexFacts, NewPageType DEF TypeOK, AllocPage
<1>2. CASE page_indexes[RingOf(i)] # NULL
  BY <1>2 DEF TypeOK, AllocPage
<1> QED BY <1>1, <1>2

LEMMA StoreType ==
    ASSUME TypeOK, NEW pg, NEW s \in Slots, NEW m \in Msgs,
           \/ heap' = [heap EXCEPT ![pg].cell[s].msg = m]
           \/ heap' = [heap EXCEPT ![pg].cell[s].flag = 1]
    PROVE  /\ DOMAIN heap' = DOMAIN heap
           /\ \A id \in DOMAIN heap' : heap'[id] \in Pages
<1>1. DOMAIN heap' = DOMAIN heap
  OBVIOUS
<1>2. ASSUME NEW id \in DOMAIN heap PROVE heap'[id] \in Pages
  <2>1. heap[id] \in Pages /\ heap[id].cell[s] \in Cells
    BY DEF TypeOK, Pages
  <2>2. CASE id # pg
    BY <2>1, <2>2
  <2>3. CASE id = pg
    <3>1. CASE heap' = [heap EXCEPT ![pg].cell[s].msg = m]
      <4>1. heap'[id] = [heap[id] EXCEPT !.cell[s].msg = m]
        BY <2>3, <3>1
      <4> QED BY <2>1, <4>1 DEF Pages, Cells
    <3>2. CASE heap' = [heap EXCEPT ![pg].cell[s].flag = 1]
      <4>1. heap'[id] = [heap[id] EXCEPT !.cell[s].flag = 1]
        BY <2>3, <3>2
      <4> QED BY <2>1, <4>1 DEF Pages, Cells
    <3> QED BY <3>1, <3>2
  <2> QED BY <2>2, <2>3
<1> QED BY <1>1, <1>2

LEMMA TypeInit == Init => TypeInv
BY SizeAssumption, NewPageType DEF SizeAssumption, Init, TypeInv, TypeOK, Rings

LEMMA TypeNext == TypeInv /\ [Next]_vars => TypeInv'
<1> SUFFICES ASSUME TypeInv, [Next]_vars PROVE TypeInv'
  OBVIOUS
<1> USE DEF TypeInv, prodVars, consVars, InFlightAt
<1>1. ASSUME NEW p \in Producers, PushReadPost(p) PROVE TypeInv'
  BY <1>1 DEF PushReadPost, TypeOK
<1>2. ASSUME NEW p \in Producers, PushRefuse(p) PROVE TypeInv'
  BY <1>2 DEF PushRefuse, TypeOK
<1>3. ASSUME NEW p \in Producers, PushAdmit(p) PROVE TypeInv'
  BY <1>3 DEF PushAdmit, TypeOK
<1>4. ASSUME NEW p \in Producers, PushClaim(p) PROVE TypeInv'
  <2>1. <<p, sent[p]>> \in Msgs
    BY DEF TypeOK, Msgs
  <2> QED BY <1>4, <2>1 DEF PushClaim, TypeOK
<1>5. ASSUME NEW p \in Producers, PushLookup(p) PROVE TypeInv'
  BY <1>5 DEF PushLookup, LookupTarget, TypeOK
<1>6. ASSUME NEW p \in Producers, PushAlloc(p) PROVE TypeInv'
  BY <1>6, AllocType DEF PushAlloc, TypeOK
<1>7. ASSUME NEW p \in Producers, PushReturnPage(p) PROVE TypeInv'
  BY <1>7, IndexFacts DEF PushReturnPage, TypeOK
<1>8. ASSUME NEW p \in Producers, PushWriteMsg(p) PROVE TypeInv'
  <2>1. <<p, sent[p]>> \in Msgs /\ Slot(idx[p]) \in Slots
    BY IndexFacts DEF TypeOK, Msgs
  <2>2. DOMAIN heap' = DOMAIN heap /\ \A id \in DOMAIN heap' : heap'[id] \in Pages
    BY <1>8, <2>1, StoreType DEF PushWriteMsg
  <2> QED BY <1>8, <2>2 DEF PushWriteMsg, TypeOK
<1>9. ASSUME NEW p \in Producers, PushWriteFlag(p) PROVE TypeInv'
  <2>1. <<p, sent[p]>> \in Msgs /\ Slot(idx[p]) \in Slots
    BY IndexFacts DEF TypeOK, Msgs
  <2>2. DOMAIN heap' = DOMAIN heap /\ \A id \in DOMAIN heap' : heap'[id] \in Pages
    BY <1>9, <2>1, StoreType DEF PushWriteFlag
  <2> QED BY <1>9, <2>2 DEF PushWriteFlag, TypeOK
<1>10. CASE PopBegin
  BY <1>10 DEF PopBegin, TypeOK
<1>11. CASE PopLookup
  BY <1>11 DEF PopLookup, LookupTarget, TypeOK
<1>12. CASE PopAlloc
  BY <1>12, AllocType DEF PopAlloc, TypeOK
<1>13. CASE PopReturnPage
  BY <1>13, IndexFacts DEF PopReturnPage, TypeOK
<1>14. CASE PopNotReady
  BY <1>14 DEF PopNotReady, TypeOK
<1>15. CASE PopReady
  BY <1>15 DEF PopReady, TypeOK
<1>16. CASE PopCopy
  <2>1. heap[cpage].cell[Slot(get_index)] \in Cells
    BY <1>16, IndexFacts DEF PopCopy, TypeOK, Pages
  <2> QED BY <1>16, <2>1 DEF PopCopy, TypeOK, Cells
<1>17. CASE PopDelete
  BY <1>17 DEF PopDelete, TypeOK
<1>18. CASE PopUnlink
  BY <1>18, IndexFacts DEF PopUnlink, TypeOK
<1>19. CASE PopAdvance
  BY <1>19 DEF PopAdvance, TypeOK
<1>20. CASE UNCHANGED vars
  BY <1>20 DEF vars, TypeOK
<1> QED BY <1>1, <1>2, <1>3, <1>4, <1>5, <1>6, <1>7, <1>8, <1>9, <1>10, <1>11,
           <1>12, <1>13, <1>14, <1>15, <1>16, <1>17, <1>18, <1>19, <1>20
        DEF Next, PushStep, PopStep

\* Every variable of the queue keeps its type whatever the number of producers;
\* in particular pop() never copies from anything but a cell of a live page.
THEOREM TypeCorrect == Spec => []TypeOK
<1>1. Spec => []TypeInv
  BY TypeInit, TypeNext, PTL DEF Spec
<1>2. TypeInv => TypeOK
  BY DEF TypeInv
<1> QED BY <1>1, <1>2, PTL
-----------------------------------------------------------------------------
(* How far the unlocked full test can be overshot.                         *)

LEMMA PendingFinite ==
    ASSUME NEW c
    PROVE  /\ IsFiniteSet(Pending(c)) /\ Cardinality(Pending(c)) \in Nat
           /\ Cardinality(Producers) \in Nat
           /\ Cardinality(Pending(c)) <= Cardinality(Producers)
<1>1. Pending(c) \subseteq Producers
  BY DEF Pending
<1> QED BY <1>1, ProducersAssumption, FS_Subset, FS_CardinalityType
        DEF ProducersAssumption

LEMMA IndexInit == Init => IndexInv
<1> SUFFICES ASSUME Init, NEW c \in Nat PROVE 0 + Cardinality(Pending(c)) <= c + Cardinality(Producers)
  BY DEF Init, IndexInv
<1> QED BY PendingFinite

LEMMA IndexNext == TypeOK /\ IndexInv /\ [Next]_vars => IndexInv'
<1> SUFFICES ASSUME TypeOK, IndexInv, [Next]_vars,
                    NEW c \in Nat, c >= get_index' + Cap - 1
             PROVE  post_index' + Cardinality(Pending(c)') <= c + Cardinality(Producers)
  BY DEF IndexInv
<1> DEFINE W == Pending(c)
           N == Cardinality(Producers)
           Goal == post_index' + Cardinality(W') <= c + N
<1>0. /\ IsFiniteSet(W) /\ Cardinality(W) \in Nat /\ N \in Nat
      /\ Cardinality(W) <= N /\ Cap \in Nat
  BY PendingFinite, CapFacts
<1>a. IsFiniteSet(W') /\ Cardinality(W') \in Nat /\ Cardinality(W') <= N
  <2>1. W' \subseteq Producers
    BY DEF Pending
  <2> QED BY <2>1, ProducersAssumption, FS_Subset, FS_CardinalityType
          DEF ProducersAssumption
\* all but two actions leave post_index alone and make nobody newly pending
<1>b. ASSUME W' \subseteq W, post_index' = post_index,
             get_index' = get_index \/ get_index' = get_index + 1
      PROVE  Goal
  <2>1. Cardinality(W') <= Cardinality(W)
    BY <1>0, <1>b, FS_Subset
  <2>2. post_index + Cardinality(W) <= c + N
    BY <1>0, <1>b DEF IndexInv, TypeOK
  <2> QED BY <1>0, <1>a, <1>b, <2>1, <2>2 DEF TypeOK
<1> USE DEF TypeOK, Pending
<1>1. ASSUME NEW p \in Producers, PushReadPost(p) PROVE Goal
  <2>1. CASE post_index <= c
    BY <1>0, <1>1, <1>a, <2>1 DEF PushReadPost
  <2>2. CASE post_index > c
    <3>1. W' \subseteq W
      BY <1>1, <2>2 DEF PushReadPost
    <3> QED BY <1>1, <1>b, <3>1 DEF PushReadPost
  <2> QED BY <2>1, <2>2
<1>2. ASSUME NEW p \in Producers, PushRefuse(p) PROVE Goal
  BY <1>2, <1>b DEF PushRefuse
<1>3. ASSUME NEW p \in Producers, PushAdmit(p) PROVE Goal
  <2>1. seen[p] <= c
    BY <1>0, <1>3, CapFacts DEF PushAdmit
  <2> QED BY <1>3, <1>b, <2>1 DEF PushAdmit
<1>4. ASSUME NEW p \in Producers, PushClaim(p) PROVE Goal
  <2>1. p \in W /\ W' = W \ {p}
    BY <1>4 DEF PushClaim
  <2>2. Cardinality(W') = Cardinality(W) - 1
    <3>1. Cardinality(W \ {p}) = Cardinality(W) - 1
      <4> HIDE DEF W, Pending
      <4> QED BY <1>0, <2>1, FS_RemoveElement
    <3> QED BY <2>1, <3>1
  <2>3. post_index + Cardinality(W) <= c + N
    BY <1>4 DEF IndexInv, PushClaim
  <2> QED BY <1>0, <1>4, <2>2, <2>3 DEF PushClaim
<1>5. ASSUME NEW p \in Producers, PushLookup(p) PROVE Goal
  BY <1>5, <1>b DEF PushLookup, LookupTarget
<1>6. ASSUME NEW p \in Producers, PushAlloc(p) PROVE Goal
  BY <1>6, <1>b DEF PushAlloc
<1>7. ASSUME NEW p \in Producers, PushReturnPage(p) PROVE Goal
  BY <1>7, <1>b DEF PushReturnPage
<1>8. ASSUME NEW p \in Producers, PushWriteMsg(p) PROVE Goal
  BY <1>8, <1>b DEF PushWriteMsg
<1>9. ASSUME NEW p \in Producers, PushWriteFlag(p) PROVE Goal
  BY <1>9, <1>b DEF PushWriteFlag
<1>10. CASE PopStep
  BY <1>10, <1>b DEF PopStep, PopBegin, PopLookup, PopAlloc, PopReturnPage,
     PopNotReady, PopReady, PopCopy, PopDelete, PopUnlink, PopAdvance, prodVars
<1>11. CASE UNCHANGED vars
  BY <1>11, <1>b DEF vars
<1> QED BY <1>1, <1>2, <1>3, <1>4, <1>5, <1>6, <1>7, <1>8, <1>9, <1>10, <1>11
        DEF Next, PushStep

LEMMA IndexBound == TypeOK /\ IndexInv => OvershootBounded
<1> SUFFICES ASSUME TypeOK, IndexInv PROVE OvershootBounded
  OBVIOUS
<1> DEFINE c == get_index + Cap - 1
<1>1. c \in Nat
  BY CapFacts DEF TypeOK
<1>2. post_index + Cardinality(Pending(c)) <= c + Cardinality(Producers)
  BY <1>1, CapFacts DEF IndexInv, TypeOK
<1> QED BY <1>1, <1>2, PendingFinite, CapFacts DEF OvershootBounded, TypeOK

\* However many producers race through push()'s test of post_index_ and
\* get_index_ before their fetch-and-increment, they exceed the pages it allows
\* by at most one message each, less one.
THEOREM Overshoot == Spec => []OvershootBounded
<1>1. Spec => []TypeOK
  BY TypeCorrect
<1>2. Spec => []IndexInv
  BY <1>1, IndexInit, IndexNext, PTL DEF Spec
<1> QED BY <1>1, <1>2, IndexBound, PTL
-----------------------------------------------------------------------------
(* Memory safety and order, for at most two producers.                     *)

AtMostTwo == Cardinality(Producers) <= 2

\* every claimed index lies in the PageIndexCount pages from get_index on
Window == \A i \in Nat : i < post_index => PageNo(i) < PageNo(get_index) + PageIndexCount

LEMMA IndexWindow == ASSUME AtMostTwo, TypeOK, IndexInv PROVE Window
<1> SUFFICES ASSUME NEW i \in Nat, i < post_index
             PROVE  PageNo(i) < PageNo(get_index) + PageIndexCount
  BY DEF Window
<1>1. post_index <= get_index + Cap + Cardinality(Producers) - 1
  BY IndexBound DEF OvershootBounded
<1>2. Cardinality(Producers) \in Nat
  BY PendingFinite
<1>3. i <= get_index + Cap
  BY <1>1, <1>2, CapFacts DEF AtMostTwo, TypeOK
<1> QED BY <1>3, CapFacts DEF TypeOK

LEMMA WindowNoWrap == TypeOK /\ Window => NoWrapAround
BY DEF TypeOK, Window, NoWrapAround

\* Two claimed indices on one ring position are on the same page.
LEMMA SamePage ==
    ASSUME TypeOK, Window, NEW i \in Nat, NEW j \in Nat, RingOf(i) = RingOf(j),
           get_index <= i, i < post_index, get_index <= j, j < post_index
    PROVE  PageNo(i) = PageNo(j)
<1>1. /\ PageNo(i) >= PageNo(get_index) /\ PageNo(i) < PageNo(get_index) + PageIndexCount
      /\ PageNo(j) >= PageNo(get_index) /\ PageNo(j) < PageNo(get_index) + PageIndexCount
      /\ PageNo(i) \in Nat /\ PageNo(j) \in Nat /\ PageNo(get_index) \in Nat
  BY PageMonotone, IndexFacts DEF Window, TypeOK
<1> QED BY <1>1, RingInjective DEF RingOf

\* An index behind the last cell of get_index's page has another ring position.
LEMMA BehindLast ==
    ASSUME TypeOK, Window, LastSlot(get_index), NEW i \in Nat,
           get_index < i, i < post_index
    PROVE  PageNo(i) # PageNo(get_index) /\ RingOf(i) # RingOf(get_index)
<1>0. get_index \in Nat /\ get_index + 1 \in Nat
  BY DEF TypeOK
<1>1. PageNo(get_index + 1) <= PageNo(i)
  BY <1>0, PageMonotone
<1>2. PageNo(get_index + 1) = PageNo(get_index) + 1
  BY <1>0, PageStep
<1>3. PageNo(get_index) < PageNo(i)
  BY <1>0, <1>1, <1>2, IndexFacts
<1>4. get_index <= get_index /\ get_index <= i /\ get_index < post_index
  BY DEF TypeOK
<1>5. RingOf(i) = RingOf(get_index) => PageNo(i) = PageNo(get_index)
  BY <1>0, <1>4, SamePage
<1> QED BY <1>0, <1>3, <1>5, IndexFacts

\* A non-null ring entry for a claimed index points at the page of that index.
LEMMA EntryIsLinked ==
    ASSUME TypeOK, Window, TableOK, NEW i \in Nat, get_index <= i, i < post_index,
           page_indexes[RingOf(i)] # NULL,
           ~(cpc = "unlink" /\ RingOf(i) = RingOf(get_index))
    PROVE  Linked(i)
<1> DEFINE pg == page_indexes[RingOf(i)]
<1>1. /\ pg \in DOMAIN heap /\ Ring(heap[pg].home) = RingOf(i)
      /\ heap[pg].home >= PageNo(get_index)
      /\ heap[pg].home < PageNo(get_index) + PageIndexCount
  BY IndexFacts DEF TableOK
<1>2. /\ PageNo(i) >= PageNo(get_index) /\ PageNo(i) < PageNo(get_index) + PageIndexCount
      /\ PageNo(i) \in Nat /\ PageNo(get_index) \in Nat
  BY PageMonotone, IndexFacts DEF Window, TypeOK
<1>3. heap[pg].home \in Nat
  BY <1>1 DEF TypeOK, Pages
<1>4. heap[pg].home = PageNo(i)
  BY <1>1, <1>2, <1>3, RingInjective DEF RingOf
<1> QED BY <1>1, <1>4 DEF Linked

LEMMA LinkedUnchanged ==
    ASSUME UNCHANGED <<heap, page_indexes>>, NEW i
    PROVE  (Linked(i)' <=> Linked(i)) /\ CellOf(i)' = CellOf(i)
BY DEF Linked, CellOf, RingOf, Ring, PageNo, Slot

LEMMA PrefixAppend ==
    ASSUME NEW S, NEW s \in Seq(S), NEW x \in S, NEW n \in Nat, n <= Len(s)
    PROVE  SubSeq(Append(s, x), 1, n) = SubSeq(s, 1, n)
OBVIOUS

LEMMA PrefixExtend ==
    ASSUME NEW S, NEW s \in Seq(S), NEW n \in Nat, n < Len(s)
    PROVE  Append(SubSeq(s, 1, n), s[n + 1]) = SubSeq(s, 1, n + 1)
OBVIOUS

LEMMA MemoryInit == Init => MemoryInv
<1> SUFFICES ASSUME Init PROVE MemoryInv
  OBVIOUS
<1> USE DEF Init
<1>0. 0 \in Nat /\ PageNo(0) = 0 /\ Ring(0) = 0 /\ 0 \in Rings
  BY SizeAssumption DEF SizeAssumption, PageNo, Ring, Rings
<1>1. ClaimsOK
  BY DEF ClaimsOK, InFlight, InFlightAt
<1>2. TableOK
  BY <1>0, SizeAssumption DEF SizeAssumption, TableOK, NewPage
<1>3. FreshOK
  BY <1>0 DEF FreshOK
<1>4. HoldersOK
  BY DEF HoldersOK
<1>5. CellsOK
  <2> SUFFICES ASSUME NEW i \in Nat, Linked(i), CellOf(i).flag = 1 PROVE FALSE
    BY DEF CellsOK
  <2>1. page_indexes[RingOf(i)] = 0 /\ Slot(i) \in Slots
    BY IndexFacts DEF Linked
  <2> QED BY <2>1 DEF CellOf, NewPage, EmptyCell
<1>6. ConsumerOK
  BY DEF ConsumerOK
<1>7. DeliveredInClaimOrder
  BY DEF DeliveredInClaimOrder
<1>8. PagesAccounted
  BY <1>0, NullAssumption DEF NullAssumption, PagesAccounted
<1> QED BY <1>1, <1>2, <1>3, <1>4, <1>5, <1>6, <1>7, <1>8 DEF MemoryInv

\* Steps of push() before its claim touch nothing the invariant speaks of.
LEMMA BeforeClaim ==
    ASSUME TypeOK, MemoryInv, NEW p \in Producers,
           PushReadPost(p) \/ PushRefuse(p) \/ PushAdmit(p)
    PROVE  MemoryInv'
<1>1. /\ UNCHANGED <<post_index, get_index, page_indexes, heap, allocs, idx, page,
                     cpc, cpage, cmsg, tickets, delivered>>
      /\ \A q \in Producers : q # p => pc'[q] = pc[q] /\ sent'[q] = sent[q]
      /\ ~InFlight(p) /\ ~InFlight(p)'
  BY DEF PushReadPost, PushRefuse, PushAdmit, consVars, TypeOK, InFlight, InFlightAt
<1>2. \A i : (Linked(i)' <=> Linked(i)) /\ CellOf(i)' = CellOf(i)
  BY <1>1, LinkedUnchanged
<1>3. \A q \in Producers : InFlight(q)' <=> InFlight(q)
  BY <1>1 DEF InFlight
<1>4. ClaimsOK'
  BY <1>1, <1>3 DEF MemoryInv, ClaimsOK
<1>5. TableOK'
  BY <1>1 DEF MemoryInv, TableOK, RingOf, Ring, PageNo, Rings
<1>6. FreshOK'
  BY <1>1 DEF MemoryInv, FreshOK, Rings
<1>7. HoldersOK'
  BY <1>1, <1>2 DEF MemoryInv, HoldersOK, InFlight, InFlightAt, RingOf, Ring, PageNo
<1>8. CellsOK'
  BY <1>1, <1>2, <1>3 DEF MemoryInv, CellsOK
<1>9. ConsumerOK'
  BY <1>1, <1>2, <1>3 DEF MemoryInv, ConsumerOK, RingOf, Ring, PageNo, LastSlot, Slot
<1>10. DeliveredInClaimOrder' /\ PagesAccounted'
  BY <1>1 DEF MemoryInv, DeliveredInClaimOrder, PagesAccounted, Rings
<1> QED BY <1>4, <1>5, <1>6, <1>7, <1>8, <1>9, <1>10 DEF MemoryInv

\* The fetch-and-increment of push(): a new index, whose cell is still empty.
LEMMA Claim ==
    ASSUME TypeOK, MemoryInv, NEW p \in Producers, PushClaim(p)
    PROVE  MemoryInv'
<1>1. /\ UNCHANGED <<get_index, page_indexes, heap, allocs, page, sent,
                     cpc, cpage, cmsg, delivered>>
      /\ post_index' = post_index + 1 /\ post_index \in Nat
      /\ tickets' = Append(tickets, <<p, sent[p]>>)
      /\ idx'[p] = post_index /\ InFlight(p)' /\ pc'[p] = "lookup" /\ ~InFlight(p)
      /\ \A q \in Producers : q # p => pc'[q] = pc[q] /\ idx'[q] = idx[q]
  BY DEF PushClaim, consVars, TypeOK, InFlight, InFlightAt
<1>2. \A i : (Linked(i)' <=> Linked(i)) /\ CellOf(i)' = CellOf(i)
  BY <1>1, LinkedUnchanged
<1>3. \A q \in Producers : q # p => (InFlight(q)' <=> InFlight(q))
  BY <1>1 DEF InFlight
<1>4. /\ Len(tickets') = post_index + 1
      /\ tickets'[post_index + 1] = <<p, sent[p]>>
      /\ \A i \in Nat : i < post_index => tickets'[i + 1] = tickets[i + 1]
  BY <1>1 DEF MemoryInv, ClaimsOK, TypeOK
<1>5. \A q \in Producers : InFlight(q) => idx[q] \in Nat /\ idx[q] < post_index
  BY DEF MemoryInv, ClaimsOK, TypeOK
<1>6. ClaimsOK'
  <2>1. get_index' <= post_index' /\ Len(tickets') = post_index'
    BY <1>1, <1>4 DEF MemoryInv, ClaimsOK, TypeOK
  <2>2. ASSUME NEW q \in Producers, InFlight(q)'
        PROVE  /\ get_index' <= idx'[q] /\ idx'[q] < post_index'
               /\ tickets'[idx'[q] + 1] = <<q, sent'[q]>>
               /\ \A r \in Producers : InFlight(r)' /\ idx'[r] = idx'[q] => r = q
    <3>1. CASE q = p
      BY <1>1, <1>3, <1>4, <1>5, <3>1 DEF MemoryInv, ClaimsOK, TypeOK
    <3>2. CASE q # p
      <4>1. /\ InFlight(q) /\ idx'[q] = idx[q] /\ sent'[q] = sent[q]
            /\ idx[q] \in Nat /\ idx[q] < post_index
        BY <1>1, <1>3, <1>5, <2>2, <3>2
      <4>2. /\ get_index <= idx[q] /\ tickets[idx[q] + 1] = <<q, sent[q]>>
            /\ \A r \in Producers : InFlight(r) /\ idx[r] = idx[q] => r = q
        BY <4>1 DEF MemoryInv, ClaimsOK
      <4>3. tickets'[idx'[q] + 1] = <<q, sent'[q]>>
        BY <1>4, <4>1, <4>2
      <4>4. ASSUME NEW r \in Producers, InFlight(r)', idx'[r] = idx'[q] PROVE r = q
        BY <1>1, <1>3, <4>1, <4>2, <4>4
      <4>5. get_index' <= idx'[q] /\ idx'[q] < post_index'
        BY <1>1, <4>1, <4>2
      <4> QED BY <4>3, <4>4, <4>5
    <3> QED BY <3>1, <3>2
  <2> QED BY <2>1, <2>2 DEF ClaimsOK
<1>7. TableOK' /\ FreshOK'
  BY <1>1 DEF MemoryInv, TableOK, FreshOK, RingOf, Ring, PageNo, Rings
<1>8. HoldersOK'
  BY <1>1, <1>2 DEF MemoryInv, HoldersOK, RingOf, Ring, PageNo
<1>9. CellsOK'
  BY <1>1, <1>2, <1>3, <1>4 DEF MemoryInv, CellsOK
<1>10. ConsumerOK'
  <2>1. cpc # "idle" => get_index < post_index /\ tickets'[get_index + 1] = tickets[get_index + 1]
    BY <1>4 DEF MemoryInv, ConsumerOK, TypeOK
  <2>2. cpc # "idle" => idx'[p] # get_index
    BY <1>1, <2>1 DEF TypeOK
  <2>3. get_index < post_index => get_index' < post_index'
    BY <1>1 DEF TypeOK
  <2>4. cpc # "idle" => \A q \in Producers : InFlight(q)' /\ idx'[q] = get_index
                                             => InFlight(q) /\ idx[q] = get_index
    BY <1>1, <1>3, <2>2
  <2> QED BY <1>1, <1>2, <2>1, <2>3, <2>4
          DEF MemoryInv, ConsumerOK, RingOf, Ring, PageNo, LastSlot, Slot
<1>11. DeliveredInClaimOrder'
  <2>1. tickets \in Seq(Msgs) /\ <<p, sent[p]>> \in Msgs /\ get_index \in Nat
        /\ get_index <= Len(tickets)
    BY DEF MemoryInv, ClaimsOK, TypeOK, Msgs
  <2> QED BY <1>1, <2>1, PrefixAppend DEF MemoryInv, DeliveredInClaimOrder
<1>12. PagesAccounted'
  BY <1>1 DEF MemoryInv, PagesAccounted, Rings
<1> QED BY <1>6, <1>7, <1>8, <1>9, <1>10, <1>11, <1>12 DEF MemoryInv

\* A step of push() after its claim that only reads shared memory.
LEMMA HolderFrame ==
    ASSUME TypeOK, MemoryInv, NEW p \in Producers, InFlight(p), InFlight(p)',
           UNCHANGED <<post_index, get_index, page_indexes, heap, allocs, idx, sent,
                       cpc, cpage, cmsg, tickets, delivered>>,
           \A q \in Producers : q # p => pc'[q] = pc[q] /\ page'[q] = page[q],
           pc'[p] = "return" => Linked(idx[p]),
           pc'[p] = "msg" => Linked(idx[p]) /\ page'[p] = page_indexes[RingOf(idx[p])],
           pc'[p] # "flag"
    PROVE  MemoryInv'
<1>2. \A i : (Linked(i)' <=> Linked(i)) /\ CellOf(i)' = CellOf(i)
  BY LinkedUnchanged
<1>3. \A q \in Producers : InFlight(q)' <=> InFlight(q)
  BY DEF InFlight
<1>4. ClaimsOK'
  BY <1>3 DEF MemoryInv, ClaimsOK
<1>5. TableOK' /\ FreshOK'
  BY DEF MemoryInv, TableOK, FreshOK, RingOf, Ring, PageNo, Rings
<1>7. HoldersOK'
  BY <1>2 DEF MemoryInv, HoldersOK, RingOf, Ring, PageNo
<1>8. CellsOK'
  BY <1>2, <1>3 DEF MemoryInv, CellsOK
<1>9. ConsumerOK'
  BY <1>2, <1>3 DEF MemoryInv, ConsumerOK, RingOf, Ring, PageNo, LastSlot, Slot
<1>10. DeliveredInClaimOrder' /\ PagesAccounted'
  BY DEF MemoryInv, DeliveredInClaimOrder, PagesAccounted, Rings
<1> QED BY <1>4, <1>5, <1>7, <1>8, <1>9, <1>10 DEF MemoryInv

\* While a page is being unlinked nobody in push() is on its ring position.
LEMMA NobodyOnDying ==
    ASSUME TypeOK, Window, MemoryInv, NEW p \in Producers, InFlight(p),
           cpc \in {"delete", "unlink"} \/ (cpc = "advance" /\ LastSlot(get_index))
    PROVE  /\ RingOf(idx[p]) # RingOf(get_index)
           /\ PageNo(idx[p]) # PageNo(get_index)
<1>1. /\ LastSlot(get_index) /\ idx[p] \in Nat /\ get_index \in Nat
      /\ get_index < idx[p] /\ idx[p] < post_index
  BY DEF MemoryInv, ConsumerOK, ClaimsOK, TypeOK
<1> QED BY <1>1, BehindLast

LEMMA HolderEntry ==
    ASSUME TypeOK, Window, MemoryInv, NEW p \in Producers, InFlight(p),
           page_indexes[RingOf(idx[p])] # NULL
    PROVE  Linked(idx[p])
<1>1. idx[p] \in Nat /\ get_index <= idx[p] /\ idx[p] < post_index
  BY DEF MemoryInv, ClaimsOK, TypeOK
<1>2. ~(cpc = "unlink" /\ RingOf(idx[p]) = RingOf(get_index))
  BY NobodyOnDying
<1> QED BY <1>1, <1>2, EntryIsLinked DEF MemoryInv

LEMMA Lookup ==
    ASSUME TypeOK, Window, MemoryInv, NEW p \in Producers, PushLookup(p)
    PROVE  MemoryInv'
<1>1. /\ InFlight(p) /\ InFlight(p)' /\ pc'[p] \in {"alloc", "return"}
      /\ pc'[p] = "return" => page_indexes[RingOf(idx[p])] # NULL
      /\ UNCHANGED <<post_index, get_index, page_indexes, heap, allocs, idx, sent, page,
                     cpc, cpage, cmsg, tickets, delivered>>
      /\ \A q \in Producers : q # p => pc'[q] = pc[q]
  BY DEF PushLookup, LookupTarget, consVars, TypeOK, InFlight, InFlightAt
<1>2. pc'[p] = "return" => Linked(idx[p])
  BY <1>1, HolderEntry
<1> QED BY <1>1, <1>2, HolderFrame

LEMMA ReturnPage ==
    ASSUME TypeOK, Window, MemoryInv, NEW p \in Producers, PushReturnPage(p)
    PROVE  MemoryInv'
<1>1. /\ InFlight(p) /\ InFlight(p)' /\ pc'[p] = "msg" /\ Linked(idx[p])
      /\ page'[p] = page_indexes[RingOf(idx[p])]
      /\ UNCHANGED <<post_index, get_index, page_indexes, heap, allocs, idx, sent,
                     cpc, cpage, cmsg, tickets, delivered>>
      /\ \A q \in Producers : q # p => pc'[q] = pc[q] /\ page'[q] = page[q]
  BY DEF PushReturnPage, consVars, TypeOK, InFlight, InFlightAt, MemoryInv, HoldersOK
<1> QED BY <1>1, HolderFrame

(* A new page is linked for a claimed index i whose ring entry is NULL.    *)
LEMMA FreshPage ==
    ASSUME TypeOK, Window, MemoryInv, NEW i \in Nat, get_index <= i, i < post_index,
           page_indexes[RingOf(i)] = NULL, AllocPage(i)
    PROVE  /\ RingOf(i) \in Rings /\ allocs \in Nat /\ allocs \notin DOMAIN heap
           /\ DOMAIN heap' = DOMAIN heap \cup {allocs} /\ allocs' = allocs + 1
           /\ heap'[allocs] = NewPage(PageNo(i))
           /\ \A id \in DOMAIN heap : heap'[id] = heap[id] /\ id # allocs
           /\ \A k \in Rings : page_indexes'[k] = IF k = RingOf(i) THEN allocs
                                                  ELSE page_indexes[k]
           /\ \A k \in Rings : page_indexes[k] # allocs
           /\ allocs # NULL
BY IndexFacts, NullAssumption
   DEF NullAssumption, AllocPage, TypeOK, MemoryInv, FreshOK

LEMMA FreshLinked ==
    ASSUME TypeOK, Window, MemoryInv, NEW i \in Nat, get_index <= i, i < post_index,
           page_indexes[RingOf(i)] = NULL, AllocPage(i)
    PROVE  /\ \A j \in Nat : Linked(j) => Linked(j)' /\ CellOf(j)' = CellOf(j)
           /\ \A j \in Nat : Linked(j)' => Linked(j) \/ CellOf(j)'.flag = 0
           /\ Linked(i)'
           /\ \A j \in Nat : Linked(j) => page_indexes'[RingOf(j)] = page_indexes[RingOf(j)]
<1>0. NewPage(PageNo(i)).home = PageNo(i)
      /\ \A s \in Slots : NewPage(PageNo(i)).cell[s].flag = 0
  BY DEF NewPage, EmptyCell
<1>1. ASSUME NEW j \in Nat, Linked(j)
      PROVE  Linked(j)' /\ CellOf(j)' = CellOf(j)
             /\ page_indexes'[RingOf(j)] = page_indexes[RingOf(j)]
  <2>1. RingOf(j) \in Rings /\ RingOf(j) # RingOf(i)
    BY <1>1, IndexFacts DEF Linked
  <2>2. page_indexes'[RingOf(j)] = page_indexes[RingOf(j)]
    BY <2>1, FreshPage
  <2> QED BY <1>1, <2>2, FreshPage DEF Linked, CellOf, RingOf, Ring, PageNo, Slot
<1>2. ASSUME NEW j \in Nat, Linked(j)', ~Linked(j)
      PROVE  CellOf(j)'.flag = 0
  <2>1. RingOf(j) \in Rings /\ Slot(j) \in Slots
    BY IndexFacts
  <2>2. CASE RingOf(j) = RingOf(i)
    <3>1. page_indexes'[RingOf(j)] = allocs
      BY <2>1, <2>2, FreshPage
    <3>2. CellOf(j)' = NewPage(PageNo(i)).cell[Slot(j)]
      BY <3>1, FreshPage DEF CellOf, RingOf, Ring, PageNo, Slot
    <3> QED BY <1>0, <2>1, <3>2
  <2>3. CASE RingOf(j) # RingOf(i)
    <3>1. page_indexes'[RingOf(j)] = page_indexes[RingOf(j)] /\ page_indexes[RingOf(j)] # allocs
      BY <2>1, <2>3, FreshPage
    <3>2. page_indexes[RingOf(j)] # NULL /\ page_indexes[RingOf(j)] \in DOMAIN heap'
          /\ heap'[page_indexes[RingOf(j)]].home = PageNo(j)
      BY <1>2, <3>1 DEF Linked, RingOf, Ring, PageNo
    <3> QED BY <1>2, <3>1, <3>2, FreshPage DEF Linked
  <2> QED BY <2>2, <2>3
<1>3. Linked(i)'
  <2>1. page_indexes'[RingOf(i)] = allocs
    BY FreshPage
  <2> QED BY <1>0, <2>1, FreshPage DEF Linked, RingOf, Ring, PageNo
<1> QED BY <1>1, <1>2, <1>3

\* The locked region of get_msg_page, run by whichever thread owns index i.
LEMMA Alloc ==
    ASSUME TypeOK, Window, MemoryInv, NEW i \in Nat, get_index <= i, i < post_index,
           AllocPage(i), page_indexes[RingOf(i)] = NULL,
           UNCHANGED <<post_index, get_index, idx, sent, page, cpage, cmsg, tickets,
                       delivered>>,
           \A q \in Producers : InFlight(q)' <=> InFlight(q),
           \A q \in Producers : \/ pc'[q] = pc[q]
                                \/ pc'[q] = "return" /\ idx[q] = i,
           cpc' = cpc \/ (cpc = "alloc" /\ cpc' = "return" /\ get_index = i),
           cpc = "advance" /\ LastSlot(get_index) => RingOf(i) # RingOf(get_index)
    PROVE  MemoryInv'
<1>1. ClaimsOK' /\ DeliveredInClaimOrder'
  BY DEF MemoryInv, ClaimsOK, DeliveredInClaimOrder
<1>2. TableOK'
  <2> SUFFICES ASSUME NEW k \in Rings, page_indexes'[k] # NULL,
                      ~(cpc' = "unlink" /\ k = RingOf(get_index))
               PROVE  /\ page_indexes'[k] \in DOMAIN heap'
                      /\ Ring(heap'[page_indexes'[k]].home) = k
                      /\ heap'[page_indexes'[k]].home >= PageNo(get_index)
                      /\ heap'[page_indexes'[k]].home < PageNo(get_index) + PageIndexCount
    BY DEF TableOK, RingOf, Ring, PageNo, Rings
  <2>1. CASE k = RingOf(i)
    <3>1. page_indexes'[k] = allocs /\ allocs \in DOMAIN heap' /\ heap'[allocs].home = PageNo(i)
      <4>1. page_indexes'[k] = allocs /\ allocs \in DOMAIN heap' /\ heap'[allocs] = NewPage(PageNo(i))
        BY <2>1, FreshPage
      <4> QED BY <4>1 DEF NewPage
    <3>0. get_index \in Nat /\ i < post_index
      BY DEF TypeOK
    <3>2. PageNo(i) >= PageNo(get_index) /\ PageNo(i) < PageNo(get_index) + PageIndexCount
      BY <3>0, PageMonotone, IndexFacts DEF Window
    <3> QED BY <2>1, <3>1, <3>2 DEF RingOf
  <2>2. CASE k # RingOf(i)
    <3>1. page_indexes'[k] = page_indexes[k] /\ page_indexes[k] # NULL
      BY <2>2, FreshPage
    <3>2. ~(cpc = "unlink" /\ k = RingOf(get_index))
      OBVIOUS
    <3> QED BY <3>1, <3>2, FreshPage DEF MemoryInv, TableOK
  <2> QED BY <2>1, <2>2
<1>3. FreshOK'
  <2>1. \A id \in DOMAIN heap : id \in Nat /\ id < allocs
    BY DEF MemoryInv, FreshOK, TypeOK
  <2>2. \A id \in DOMAIN heap' : id < allocs'
    BY <2>1, FreshPage
  <2>3. ASSUME NEW k \in Rings, page_indexes'[k] # NULL PROVE page_indexes'[k] < allocs'
    <3>1. page_indexes[k] # NULL => page_indexes[k] \in Nat /\ page_indexes[k] < allocs
      BY DEF MemoryInv, FreshOK, TypeOK
    <3> QED BY <2>3, <3>1, FreshPage
  <2> QED BY <2>2, <2>3 DEF FreshOK, Rings
<1>4. HoldersOK'
  <2> SUFFICES ASSUME NEW q \in Producers
               PROVE  /\ pc'[q] = "return" => Linked(idx[q])'
                      /\ pc'[q] \in {"msg", "flag"} =>
                            Linked(idx[q])' /\ page[q] = page_indexes'[RingOf(idx[q])]
                      /\ pc'[q] = "flag" => CellOf(idx[q])'.msg = <<q, sent[q]>>
    BY DEF HoldersOK, RingOf, Ring, PageNo
  <2>1. idx[q] \in Nat /\ idx' = idx
    BY DEF TypeOK
  <2>2. CASE pc'[q] = pc[q]
    BY <2>1, <2>2, FreshLinked DEF MemoryInv, HoldersOK
  <2>3. CASE pc'[q] = "return" /\ idx[q] = i
    BY <2>1, <2>3, FreshLinked
  <2> QED BY <2>2, <2>3
<1>5. CellsOK'
  BY FreshLinked DEF MemoryInv, CellsOK
<1>6. ConsumerOK'
  <2>1. get_index \in Nat /\ RingOf(get_index) \in Rings
    BY IndexFacts DEF TypeOK
  <2>2. cpc' \in {"return", "flag", "copy", "delete"} => Linked(get_index)'
    BY <2>1, FreshLinked DEF MemoryInv, ConsumerOK
  <2>3. cpc' \in {"flag", "copy", "delete", "unlink"} =>
           cpage' = page_indexes'[RingOf(get_index)]
    BY <2>1, FreshPage, FreshLinked DEF MemoryInv, ConsumerOK
  <2>4. cpc' = "copy" => CellOf(get_index)'.flag = 1
    BY <2>1, FreshLinked DEF MemoryInv, ConsumerOK
  <2>5. cpc' = "unlink" => cpage \notin DOMAIN heap' /\ cpage # NULL
    BY <2>1, FreshPage DEF MemoryInv, ConsumerOK
  <2>6. cpc' = "advance" /\ LastSlot(get_index) => page_indexes'[RingOf(get_index)] = NULL
    BY <2>1, FreshPage DEF MemoryInv, ConsumerOK
  <2> QED BY <2>2, <2>3, <2>4, <2>5, <2>6
          DEF MemoryInv, ConsumerOK, RingOf, Ring, PageNo, LastSlot, Slot
<1>7. PagesAccounted'
  <2>1. cpc' = "unlink" <=> cpc = "unlink"
    OBVIOUS
  <2>2. cpc = "unlink" => cpage # allocs
    BY FreshPage, IndexFacts DEF MemoryInv, ConsumerOK, TypeOK
  <2> DEFINE linked == {page_indexes[k] : k \in Rings} \ {NULL}
             dying == IF cpc = "unlink" THEN {cpage} ELSE {}
  <2>3. {page_indexes'[k] : k \in Rings} \ {NULL} = linked \cup {allocs}
    <3>1. \A x \in linked : \E k \in Rings : x = page_indexes[k] /\ k # RingOf(i)
      OBVIOUS
    <3>2. \A x \in linked \cup {allocs} : \E k \in Rings : x = page_indexes'[k]
      BY <3>1, FreshPage
    <3>3. \A k \in Rings : page_indexes'[k] \in linked \cup {allocs, NULL}
      BY FreshPage
    <3> QED BY <3>2, <3>3, FreshPage
  <2>4. DOMAIN heap = linked \ dying
    BY DEF MemoryInv, PagesAccounted
  <2>5. DOMAIN heap' = (linked \cup {allocs}) \ dying
    BY <2>2, <2>4, FreshPage
  <2> QED BY <2>1, <2>3, <2>5 DEF PagesAccounted, Rings
<1> QED BY <1>1, <1>2, <1>3, <1>4, <1>5, <1>6, <1>7 DEF MemoryInv

LEMMA AllocStep ==
    ASSUME TypeOK, Window, MemoryInv, NEW p \in Producers, PushAlloc(p)
    PROVE  MemoryInv'
<1>1. /\ InFlight(p) /\ InFlight(p)' /\ pc'[p] = "return" /\ AllocPage(idx[p])
      /\ UNCHANGED <<post_index, get_index, idx, sent, page, cpc, cpage, cmsg,
                     tickets, delivered>>
      /\ \A q \in Producers : q # p => pc'[q] = pc[q]
  BY DEF PushAlloc, consVars, TypeOK, InFlight, InFlightAt
<1>2. idx[p] \in Nat /\ get_index <= idx[p] /\ idx[p] < post_index
  BY <1>1 DEF MemoryInv, ClaimsOK, TypeOK
<1>3. \A q \in Producers : InFlight(q)' <=> InFlight(q)
  BY <1>1 DEF InFlight
<1>4. CASE page_indexes[RingOf(idx[p])] = NULL
  <2>1. cpc = "advance" /\ LastSlot(get_index) => RingOf(idx[p]) # RingOf(get_index)
    BY <1>1, NobodyOnDying
  <2>2. \A q \in Producers : pc'[q] = pc[q] \/ (pc'[q] = "return" /\ idx[q] = idx[p])
    BY <1>1
  <2> QED BY <1>1, <1>2, <1>3, <1>4, <2>1, <2>2, Alloc
<1>5. CASE page_indexes[RingOf(idx[p])] # NULL
  <2>1. UNCHANGED <<page_indexes, heap, allocs>>
    BY <1>1, <1>5 DEF AllocPage
  <2>2. Linked(idx[p])
    BY <1>1, <1>5, HolderEntry
  <2> QED BY <1>1, <2>1, <2>2, HolderFrame
<1> QED BY <1>4, <1>5

-----------------------------------------------------------------------------
(* Stores through a page pointer change the one cell of the holder's index.*)

LEMMA StoreCell ==
    ASSUME TypeOK, MemoryInv, NEW p \in Producers, pc[p] \in {"msg", "flag"},
           NEW m \in Msgs,
           UNCHANGED <<page_indexes, idx>>,
           \/ heap' = [heap EXCEPT ![page[p]].cell[Slot(idx[p])].msg = m]
           \/ heap' = [heap EXCEPT ![page[p]].cell[Slot(idx[p])].flag = 1]
    PROVE  /\ \A i \in Nat : Linked(i)' <=> Linked(i)
           /\ \A i \in Nat : Linked(i) /\ i # idx[p] => CellOf(i)' = CellOf(i)
           /\ heap' = [heap EXCEPT ![page[p]].cell[Slot(idx[p])].msg = m] =>
                 CellOf(idx[p])' = [CellOf(idx[p]) EXCEPT !.msg = m]
           /\ heap' = [heap EXCEPT ![page[p]].cell[Slot(idx[p])].flag = 1] =>
                 CellOf(idx[p])' = [CellOf(idx[p]) EXCEPT !.flag = 1]
           /\ DOMAIN heap' = DOMAIN heap
           /\ \A id \in DOMAIN heap : heap'[id].home = heap[id].home
           /\ CellOf(idx[p]) \in Cells /\ idx[p] \in Nat
<1> DEFINE pg == page[p]
           s == Slot(idx[p])
<1>1. /\ idx[p] \in Nat /\ s \in Slots /\ Linked(idx[p])
      /\ pg = page_indexes[RingOf(idx[p])] /\ pg \in DOMAIN heap
      /\ heap[pg].home = PageNo(idx[p]) /\ heap[pg] \in Pages
      /\ heap[pg].cell[s] \in Cells /\ CellOf(idx[p]) = heap[pg].cell[s]
  BY IndexFacts DEF TypeOK, MemoryInv, HoldersOK, Linked, Pages, CellOf
<1>2. DOMAIN heap' = DOMAIN heap /\ \A id \in DOMAIN heap : id # pg => heap'[id] = heap[id]
  OBVIOUS
<1>3. \/ heap'[pg] = [heap[pg] EXCEPT !.cell[s].msg = m]
      \/ heap'[pg] = [heap[pg] EXCEPT !.cell[s].flag = 1]
  BY <1>1
<1>4. /\ heap'[pg].home = heap[pg].home
      /\ \A t \in Slots : t # s => heap'[pg].cell[t] = heap[pg].cell[t]
  BY <1>1, <1>3 DEF Pages
<1>5. /\ heap' = [heap EXCEPT ![pg].cell[s].msg = m] =>
            heap'[pg].cell[s] = [heap[pg].cell[s] EXCEPT !.msg = m]
      /\ heap' = [heap EXCEPT ![pg].cell[s].flag = 1] =>
            heap'[pg].cell[s] = [heap[pg].cell[s] EXCEPT !.flag = 1]
  BY <1>1 DEF Pages
<1>6. \A id \in DOMAIN heap : heap'[id].home = heap[id].home
  BY <1>2, <1>4
<1>7. \A i \in Nat : Linked(i)' <=> Linked(i)
  BY <1>2, <1>6 DEF Linked, RingOf, Ring, PageNo
<1>8. ASSUME NEW i \in Nat, Linked(i), i # idx[p] PROVE CellOf(i)' = CellOf(i)
  <2> DEFINE pi == page_indexes[RingOf(i)]
  <2>1. pi \in DOMAIN heap /\ heap[pi].home = PageNo(i) /\ Slot(i) \in Slots
    BY <1>8, IndexFacts DEF Linked
  <2>2. CellOf(i)' = heap'[pi].cell[Slot(i)] /\ CellOf(i) = heap[pi].cell[Slot(i)]
    BY DEF CellOf, RingOf, Ring, PageNo, Slot
  <2>3. CASE pi # pg
    BY <1>2, <2>1, <2>2, <2>3
  <2>4. CASE pi = pg
    <3>1. Slot(i) # s
      BY <1>1, <1>8, <2>1, <2>4, IndexUnique
    <3> QED BY <1>4, <2>1, <2>2, <2>4, <3>1
  <2> QED BY <2>3, <2>4
<1>9. CellOf(idx[p])' = heap'[pg].cell[s]
  BY <1>1 DEF CellOf, RingOf, Ring, PageNo, Slot
<1> QED BY <1>1, <1>2, <1>5, <1>6, <1>7, <1>8, <1>9

LEMMA WriteMsg ==
    ASSUME TypeOK, Window, MemoryInv, NEW p \in Producers, PushWriteMsg(p)
    PROVE  MemoryInv'
<1> DEFINE m == <<p, sent[p]>>
<1>1. /\ UNCHANGED <<post_index, get_index, page_indexes, allocs, idx, page, sent,
                     cpc, cpage, cmsg, tickets, delivered>>
      /\ pc[p] = "msg" /\ pc'[p] = "flag" /\ InFlight(p) /\ InFlight(p)'
      /\ \A q \in Producers : q # p => pc'[q] = pc[q]
      /\ heap' = [heap EXCEPT ![page[p]].cell[Slot(idx[p])].msg = m] /\ m \in Msgs
  BY DEF PushWriteMsg, consVars, TypeOK, InFlight, InFlightAt, Msgs
<1>2. /\ \A i \in Nat : Linked(i)' <=> Linked(i)
      /\ \A i \in Nat : Linked(i) /\ i # idx[p] => CellOf(i)' = CellOf(i)
      /\ CellOf(idx[p])' = [CellOf(idx[p]) EXCEPT !.msg = m]
      /\ DOMAIN heap' = DOMAIN heap
      /\ \A id \in DOMAIN heap : heap'[id].home = heap[id].home
      /\ CellOf(idx[p]) \in Cells /\ idx[p] \in Nat
  BY <1>1, StoreCell
<1>3. \A q \in Producers : InFlight(q)' <=> InFlight(q)
  BY <1>1 DEF InFlight
<1>4. CellOf(idx[p])'.msg = m /\ CellOf(idx[p])'.flag = CellOf(idx[p]).flag
  BY <1>2 DEF Cells
<1>5. \A q \in Producers : q # p /\ InFlight(q) => idx[q] # idx[p] /\ idx[q] \in Nat
  BY <1>1 DEF MemoryInv, ClaimsOK, TypeOK
<1>6. Linked(idx[p]) /\ page[p] = page_indexes[RingOf(idx[p])] /\ get_index <= idx[p]
  BY <1>1 DEF MemoryInv, HoldersOK, ClaimsOK
<1>7. ClaimsOK' /\ DeliveredInClaimOrder'
  BY <1>1, <1>3 DEF MemoryInv, ClaimsOK, DeliveredInClaimOrder
<1>8. TableOK' /\ FreshOK'
  BY <1>1, <1>2 DEF MemoryInv, TableOK, FreshOK, RingOf, Ring, PageNo, Rings
<1>9. HoldersOK'
  <2> SUFFICES ASSUME NEW q \in Producers
               PROVE  /\ pc'[q] = "return" => Linked(idx[q])'
                      /\ pc'[q] \in {"msg", "flag"} =>
                            Linked(idx[q])' /\ page[q] = page_indexes[RingOf(idx[q])]
                      /\ pc'[q] = "flag" => CellOf(idx[q])'.msg = <<q, sent[q]>>
    BY <1>1 DEF HoldersOK, RingOf, Ring, PageNo
  <2>1. CASE q = p
    BY <1>1, <1>2, <1>4, <1>6, <2>1
  <2>2. CASE q # p
    <3>1. pc[q] \in {"return", "msg", "flag"} =>
             /\ idx[q] \in Nat /\ idx[q] # idx[p]
      BY <1>5, <2>2 DEF InFlight, InFlightAt
    <3> QED BY <1>1, <1>2, <2>2, <3>1 DEF MemoryInv, HoldersOK
  <2> QED BY <2>1, <2>2
<1>10. CellsOK'
  <2> SUFFICES ASSUME NEW i \in Nat, i >= get_index, Linked(i)', CellOf(i)'.flag = 1
               PROVE  /\ i < post_index
                      /\ \A q \in Producers : ~(InFlight(q)' /\ idx[q] = i)
                      /\ CellOf(i)'.msg = tickets[i + 1]
    BY <1>1 DEF CellsOK
  <2>1. i # idx[p]
    <3>1. Linked(i) /\ (i = idx[p] => CellOf(i).flag = 1)
      BY <1>1, <1>2, <1>4
    <3> QED BY <1>1, <3>1 DEF MemoryInv, CellsOK
  <2> QED BY <1>2, <1>3, <2>1 DEF MemoryInv, CellsOK
<1>11. ConsumerOK'
  <2>1. get_index \in Nat
    BY DEF TypeOK
  <2>2. cpc = "copy" => CellOf(get_index)'.flag = 1
    BY <1>1, <1>2, <1>4, <2>1 DEF MemoryInv, ConsumerOK
  <2> QED BY <1>1, <1>2, <1>3, <2>1, <2>2
          DEF MemoryInv, ConsumerOK, RingOf, Ring, PageNo, LastSlot, Slot
<1>12. PagesAccounted'
  BY <1>1, <1>2 DEF MemoryInv, PagesAccounted, Rings
<1> QED BY <1>7, <1>8, <1>9, <1>10, <1>11, <1>12 DEF MemoryInv

\* The store of the flag completes push(): the cell holds its ticket's message.
LEMMA WriteFlag ==
    ASSUME TypeOK, Window, MemoryInv, NEW p \in Producers, PushWriteFlag(p)
    PROVE  MemoryInv'
<1>1. /\ UNCHANGED <<post_index, get_index, page_indexes, allocs, idx, sent,
                     cpc, cpage, cmsg, tickets, delivered>>
      /\ pc[p] = "flag" /\ pc'[p] = "idle" /\ InFlight(p) /\ ~InFlight(p)'
      /\ \A q \in Producers : q # p => pc'[q] = pc[q] /\ page'[q] = page[q]
      /\ heap' = [heap EXCEPT ![page[p]].cell[Slot(idx[p])].flag = 1]
      /\ <<p, sent[p]>> \in Msgs
  BY DEF PushWriteFlag, consVars, TypeOK, InFlight, InFlightAt, Msgs
<1>2. /\ \A i \in Nat : Linked(i)' <=> Linked(i)
      /\ \A i \in Nat : Linked(i) /\ i # idx[p] => CellOf(i)' = CellOf(i)
      /\ CellOf(idx[p])' = [CellOf(idx[p]) EXCEPT !.flag = 1]
      /\ DOMAIN heap' = DOMAIN heap
      /\ \A id \in DOMAIN heap : heap'[id].home = heap[id].home
      /\ CellOf(idx[p]) \in Cells /\ idx[p] \in Nat
  BY <1>1, StoreCell
<1>3. \A q \in Producers : InFlight(q)' <=> InFlight(q) /\ q # p
  BY <1>1 DEF InFlight
<1>4. CellOf(idx[p])'.msg = CellOf(idx[p]).msg /\ CellOf(idx[p])'.flag = 1
  BY <1>2 DEF Cells
<1>5. \A q \in Producers : q # p /\ InFlight(q) => idx[q] # idx[p] /\ idx[q] \in Nat
  BY <1>1 DEF MemoryInv, ClaimsOK, TypeOK
<1>6. /\ CellOf(idx[p]).msg = tickets[idx[p] + 1] /\ idx[p] < post_index
  BY <1>1 DEF MemoryInv, HoldersOK, ClaimsOK
<1>7. ClaimsOK' /\ DeliveredInClaimOrder'
  BY <1>1, <1>3 DEF MemoryInv, ClaimsOK, DeliveredInClaimOrder
<1>8. TableOK' /\ FreshOK'
  BY <1>1, <1>2 DEF MemoryInv, TableOK, FreshOK, RingOf, Ring, PageNo, Rings
<1>9. HoldersOK'
  <2> SUFFICES ASSUME NEW q \in Producers, q # p
               PROVE  /\ pc[q] = "return" => Linked(idx[q])'
                      /\ pc[q] \in {"msg", "flag"} =>
                            Linked(idx[q])' /\ page[q] = page_indexes[RingOf(idx[q])]
                      /\ pc[q] = "flag" => CellOf(idx[q])'.msg = <<q, sent[q]>>
    BY <1>1 DEF HoldersOK, RingOf, Ring, PageNo
  <2>1. pc[q] \in {"return", "msg", "flag"} => idx[q] \in Nat /\ idx[q] # idx[p]
    BY <1>5 DEF InFlight, InFlightAt
  <2> QED BY <1>1, <1>2, <2>1 DEF MemoryInv, HoldersOK
<1>10. CellsOK'
  <2> SUFFICES ASSUME NEW i \in Nat, i >= get_index, Linked(i)', CellOf(i)'.flag = 1
               PROVE  /\ i < post_index
                      /\ \A q \in Producers : ~(InFlight(q)' /\ idx[q] = i)
                      /\ CellOf(i)'.msg = tickets[i + 1]
    BY <1>1 DEF CellsOK
  <2>1. CASE i = idx[p]
    BY <1>1, <1>3, <1>4, <1>5, <1>6, <2>1
  <2>2. CASE i # idx[p]
    BY <1>2, <1>3, <2>2 DEF MemoryInv, CellsOK
  <2> QED BY <2>1, <2>2
<1>11. ConsumerOK'
  <2>1. get_index \in Nat
    BY DEF TypeOK
  <2>2. cpc = "copy" => CellOf(get_index)'.flag = 1
    BY <1>1, <1>2, <1>4, <2>1 DEF MemoryInv, ConsumerOK
  <2> QED BY <1>1, <1>2, <1>3, <2>1, <2>2
          DEF MemoryInv, ConsumerOK, RingOf, Ring, PageNo, LastSlot, Slot
<1>12. PagesAccounted'
  BY <1>1, <1>2 DEF MemoryInv, PagesAccounted, Rings
<1> QED BY <1>7, <1>8, <1>9, <1>10, <1>11, <1>12 DEF MemoryInv

-----------------------------------------------------------------------------
(* pop()                                                                   *)

\* A step of pop() that only reads shared memory.
LEMMA ConsumerFrame ==
    ASSUME TypeOK, MemoryInv,
           UNCHANGED <<post_index, get_index, page_indexes, heap, allocs, pc, idx,
                       page, sent, tickets, delivered>>,
           cpc # "unlink" /\ cpc' # "unlink",
           ConsumerOK'
    PROVE  MemoryInv'
<1>2. \A i : (Linked(i)' <=> Linked(i)) /\ CellOf(i)' = CellOf(i)
  BY LinkedUnchanged
<1>3. \A q \in Producers : InFlight(q)' <=> InFlight(q)
  BY DEF InFlight
<1>4. ClaimsOK' /\ DeliveredInClaimOrder'
  BY <1>3 DEF MemoryInv, ClaimsOK, DeliveredInClaimOrder
<1>5. TableOK' /\ FreshOK'
  BY DEF MemoryInv, TableOK, FreshOK, RingOf, Ring, PageNo, Rings
<1>6. HoldersOK'
  BY <1>2 DEF MemoryInv, HoldersOK, RingOf, Ring, PageNo
<1>7. CellsOK'
  BY <1>2, <1>3 DEF MemoryInv, CellsOK
<1>8. PagesAccounted'
  BY DEF MemoryInv, PagesAccounted, Rings
<1> QED BY <1>4, <1>5, <1>6, <1>7, <1>8 DEF MemoryInv

LEMMA PopReads ==
    ASSUME TypeOK, Window, MemoryInv,
           PopBegin \/ PopLookup \/ PopReturnPage \/ PopNotReady \/ PopReady \/ PopCopy
    PROVE  MemoryInv'
<1>1. UNCHANGED <<post_index, get_index, page_indexes, heap, allocs, pc, idx, page,
                  sent, tickets, delivered>>
  BY DEF PopBegin, PopLookup, PopReturnPage, PopNotReady, PopReady, PopCopy, prodVars
<1>2. \A i : (Linked(i)' <=> Linked(i)) /\ CellOf(i)' = CellOf(i)
  BY <1>1, LinkedUnchanged
<1>3. \A q \in Producers : InFlight(q)' <=> InFlight(q)
  BY <1>1 DEF InFlight
<1>4. get_index \in Nat /\ RingOf(get_index)' = RingOf(get_index)
      /\ (LastSlot(get_index)' <=> LastSlot(get_index))
  BY <1>1 DEF TypeOK, RingOf, Ring, PageNo, LastSlot, Slot
<1>5. cpc # "unlink" /\ cpc' # "unlink"
  BY DEF PopBegin, PopLookup, PopReturnPage, PopNotReady, PopReady, PopCopy, LookupTarget
<1> USE <1>1, <1>2, <1>3, <1>4 DEF MemoryInv, ConsumerOK
<1>6. CASE PopBegin
  <2>1. ConsumerOK'
    BY <1>6 DEF PopBegin
  <2> QED BY <1>5, <2>1, ConsumerFrame
<1>7. CASE PopLookup
  <2>1. get_index <= get_index /\ get_index < post_index /\ cpc = "lookup"
    BY <1>7 DEF PopLookup, TypeOK
  <2>2. cpc' \in {"alloc", "return"}
        /\ (cpc' = "return" => page_indexes[RingOf(get_index)] # NULL)
    BY <1>7 DEF PopLookup, LookupTarget
  <2>3. cpc' = "return" => Linked(get_index)
    BY <2>1, <2>2, EntryIsLinked
  <2>4. ConsumerOK'
    BY <2>1, <2>2, <2>3
  <2> QED BY <1>5, <2>4, ConsumerFrame
<1>8. CASE PopReturnPage
  <2>1. ConsumerOK'
    BY <1>8 DEF PopReturnPage
  <2> QED BY <1>5, <2>1, ConsumerFrame
<1>9. CASE PopNotReady
  <2>1. ConsumerOK'
    BY <1>9 DEF PopNotReady
  <2> QED BY <1>5, <2>1, ConsumerFrame
<1>10. CASE PopReady
  <2>1. CellOf(get_index).flag = 1
    BY <1>10 DEF PopReady, CellOf
  <2>2. ConsumerOK'
    BY <1>10, <2>1 DEF PopReady
  <2> QED BY <1>5, <2>2, ConsumerFrame
<1>11. CASE PopCopy
  <2>1. /\ cpc = "copy" /\ Linked(get_index) /\ CellOf(get_index).flag = 1
        /\ cmsg' = CellOf(get_index).msg /\ get_index >= get_index
    BY <1>11 DEF PopCopy, CellOf, TypeOK
  <2>2. /\ cmsg' = tickets[get_index + 1]
        /\ \A q \in Producers : ~(InFlight(q) /\ idx[q] = get_index)
    BY <2>1 DEF CellsOK
  <2>3. /\ cpage' = cpage
        /\ \/ cpc' = "delete" /\ LastSlot(get_index)
           \/ cpc' = "advance" /\ ~LastSlot(get_index)
    BY <1>11 DEF PopCopy, LastSlot
  <2>4. ConsumerOK'
    BY <2>1, <2>2, <2>3
  <2> QED BY <1>5, <2>4, ConsumerFrame
<1> QED BY <1>6, <1>7, <1>8, <1>9, <1>10, <1>11

LEMMA PopAllocStep ==
    ASSUME TypeOK, Window, MemoryInv, PopAlloc
    PROVE  MemoryInv'
<1>1. /\ cpc = "alloc" /\ cpc' = "return" /\ AllocPage(get_index)
      /\ UNCHANGED <<post_index, get_index, pc, idx, sent, page, cpage, cmsg, tickets,
                     delivered>>
  BY DEF PopAlloc, prodVars
<1>2. get_index \in Nat /\ get_index <= get_index /\ get_index < post_index
  BY <1>1 DEF MemoryInv, ConsumerOK, TypeOK
<1>3. \A q \in Producers : InFlight(q)' <=> InFlight(q)
  BY <1>1 DEF InFlight
<1>4. CASE page_indexes[RingOf(get_index)] = NULL
  BY <1>1, <1>2, <1>3, <1>4, Alloc
<1>5. CASE page_indexes[RingOf(get_index)] # NULL
  <2>1. UNCHANGED <<page_indexes, heap, allocs>>
    BY <1>1, <1>5 DEF AllocPage
  <2>2. Linked(get_index) /\ (Linked(get_index)' <=> Linked(get_index))
    BY <1>1, <1>2, <1>5, <2>1, EntryIsLinked, LinkedUnchanged
       DEF MemoryInv, Linked, RingOf, Ring, PageNo
  <2>3. ConsumerOK'
    BY <1>1, <1>2, <2>1, <2>2 DEF MemoryInv, ConsumerOK
  <2> QED BY <1>1, <2>1, <2>3, ConsumerFrame
<1> QED BY <1>4, <1>5

\* delete[] page frees the page of get_index, which nobody in push() holds.
LEMMA DeleteStep ==
    ASSUME TypeOK, Window, MemoryInv, PopDelete
    PROVE  MemoryInv'
<1>1. /\ cpc = "delete" /\ cpc' = "unlink"
      /\ UNCHANGED <<post_index, get_index, page_indexes, allocs, pc, idx, sent, page,
                     cpage, cmsg, tickets, delivered>>
      /\ DOMAIN heap' = DOMAIN heap \ {cpage}
      /\ \A id \in DOMAIN heap' : heap'[id] = heap[id]
  BY DEF PopDelete, prodVars
<1>2. /\ cpage = page_indexes[RingOf(get_index)] /\ Linked(get_index)
      /\ LastSlot(get_index) /\ RingOf(get_index) \in Rings
      /\ cpage \in DOMAIN heap /\ heap[cpage].home = PageNo(get_index) /\ cpage # NULL
      /\ get_index \in Nat
  BY <1>1, IndexFacts DEF MemoryInv, ConsumerOK, Linked, TypeOK
<1>3. \A q \in Producers : InFlight(q)' <=> InFlight(q)
  BY <1>1 DEF InFlight
<1>4. \A i \in Nat : Linked(i)' => Linked(i) /\ CellOf(i)' = CellOf(i)
  BY <1>1 DEF Linked, CellOf, RingOf, Ring, PageNo, Slot
<1>5. \A i \in Nat : Linked(i) /\ PageNo(i) # PageNo(get_index)
                     => Linked(i)' /\ CellOf(i)' = CellOf(i)
  BY <1>1, <1>2 DEF Linked, CellOf, RingOf, Ring, PageNo, Slot
<1>6. ClaimsOK' /\ DeliveredInClaimOrder'
  BY <1>1, <1>3 DEF MemoryInv, ClaimsOK, DeliveredInClaimOrder
<1>7. TableOK'
  <2> SUFFICES ASSUME NEW k \in Rings, page_indexes[k] # NULL, k # RingOf(get_index)
               PROVE  /\ page_indexes[k] \in DOMAIN heap'
                      /\ Ring(heap'[page_indexes[k]].home) = k
                      /\ heap'[page_indexes[k]].home >= PageNo(get_index)
                      /\ heap'[page_indexes[k]].home < PageNo(get_index) + PageIndexCount
    BY <1>1 DEF TableOK, RingOf, Ring, PageNo, Rings
  <2>1. /\ page_indexes[k] \in DOMAIN heap
        /\ Ring(heap[page_indexes[k]].home) = k
        /\ heap[page_indexes[k]].home >= PageNo(get_index)
        /\ heap[page_indexes[k]].home < PageNo(get_index) + PageIndexCount
    BY DEF MemoryInv, TableOK
  <2>2. page_indexes[k] # cpage
    BY <1>2, <2>1 DEF RingOf
  <2> QED BY <1>1, <2>1, <2>2
<1>8. FreshOK'
  BY <1>1 DEF MemoryInv, FreshOK, Rings
<1>9. HoldersOK'
  <2> SUFFICES ASSUME NEW q \in Producers
               PROVE  /\ pc[q] = "return" => Linked(idx[q])'
                      /\ pc[q] \in {"msg", "flag"} =>
                            Linked(idx[q])' /\ page[q] = page_indexes[RingOf(idx[q])]
                      /\ pc[q] = "flag" => CellOf(idx[q])'.msg = <<q, sent[q]>>
    BY <1>1 DEF HoldersOK, RingOf, Ring, PageNo
  <2>1. idx[q] \in Nat /\ idx'[q] = idx[q]
    BY <1>1 DEF TypeOK
  <2>2. InFlight(q) => PageNo(idx[q]) # PageNo(get_index)
    BY <1>1, NobodyOnDying
  <2>3. pc[q] \in {"return", "msg", "flag"} => InFlight(q)
    BY DEF InFlight, InFlightAt
  <2>4. pc[q] \in {"return", "msg", "flag"} =>
           Linked(idx[q])' /\ CellOf(idx[q])' = CellOf(idx[q])
    BY <1>1, <1>5, <2>1, <2>2, <2>3 DEF MemoryInv, HoldersOK
  <2> QED BY <2>4 DEF MemoryInv, HoldersOK
<1>10. CellsOK'
  BY <1>1, <1>3, <1>4 DEF MemoryInv, CellsOK
<1>11. ConsumerOK'
  BY <1>1, <1>2, <1>3 DEF MemoryInv, ConsumerOK, RingOf, Ring, PageNo, LastSlot, Slot
<1>12. PagesAccounted'
  BY <1>1 DEF MemoryInv, PagesAccounted, Rings
<1> QED BY <1>6, <1>7, <1>8, <1>9, <1>10, <1>11, <1>12 DEF MemoryInv

LEMMA UnlinkStep ==
    ASSUME TypeOK, Window, MemoryInv, PopUnlink
    PROVE  MemoryInv'
<1>1. /\ cpc = "unlink" /\ cpc' = "advance"
      /\ UNCHANGED <<post_index, get_index, heap, allocs, pc, idx, sent, page,
                     cpage, cmsg, tickets, delivered>>
      /\ \A k \in Rings : page_indexes'[k] = IF k = RingOf(get_index) THEN NULL
                                             ELSE page_indexes[k]
  BY DEF PopUnlink, prodVars, TypeOK
<1>2. /\ cpage = page_indexes[RingOf(get_index)] /\ LastSlot(get_index)
      /\ RingOf(get_index) \in Rings /\ cpage \notin DOMAIN heap /\ cpage # NULL
      /\ get_index \in Nat
  BY <1>1, IndexFacts DEF MemoryInv, ConsumerOK, TypeOK
<1>3. \A q \in Producers : InFlight(q)' <=> InFlight(q)
  BY <1>1 DEF InFlight
<1>4. ASSUME NEW i \in Nat
      PROVE  /\ Linked(i)' => Linked(i) /\ CellOf(i)' = CellOf(i)
             /\ Linked(i) => Linked(i)' /\ CellOf(i)' = CellOf(i)
                             /\ page_indexes'[RingOf(i)] = page_indexes[RingOf(i)]
  <2>1. RingOf(i) \in Rings
    BY IndexFacts
  <2>2. CASE RingOf(i) = RingOf(get_index)
    <3>1. page_indexes'[RingOf(i)] = NULL /\ page_indexes[RingOf(i)] = cpage
      BY <1>1, <1>2, <2>1, <2>2
    <3> QED BY <1>1, <1>2, <3>1 DEF Linked, RingOf, Ring, PageNo
  <2>3. CASE RingOf(i) # RingOf(get_index)
    <3>1. page_indexes'[RingOf(i)] = page_indexes[RingOf(i)]
      BY <1>1, <2>1, <2>3
    <3> QED BY <1>1, <3>1 DEF Linked, CellOf, RingOf, Ring, PageNo, Slot
  <2> QED BY <2>2, <2>3
<1>6. ClaimsOK' /\ DeliveredInClaimOrder'
  BY <1>1, <1>3 DEF MemoryInv, ClaimsOK, DeliveredInClaimOrder
<1>7. TableOK' /\ FreshOK'
  BY <1>1 DEF MemoryInv, TableOK, FreshOK, RingOf, Ring, PageNo, Rings
<1>9. HoldersOK'
  <2> SUFFICES ASSUME NEW q \in Producers
               PROVE  /\ pc[q] = "return" => Linked(idx[q])'
                      /\ pc[q] \in {"msg", "flag"} =>
                            Linked(idx[q])' /\ page[q] = page_indexes'[RingOf(idx[q])]
                      /\ pc[q] = "flag" => CellOf(idx[q])'.msg = <<q, sent[q]>>
    BY <1>1 DEF HoldersOK, RingOf, Ring, PageNo
  <2>1. idx[q] \in Nat /\ idx' = idx
    BY <1>1 DEF TypeOK
  <2> QED BY <1>4, <2>1 DEF MemoryInv, HoldersOK
<1>10. CellsOK'
  BY <1>1, <1>3, <1>4 DEF MemoryInv, CellsOK
<1>11. ConsumerOK'
  BY <1>1, <1>2, <1>3 DEF MemoryInv, ConsumerOK, RingOf, Ring, PageNo, LastSlot, Slot
<1>12. PagesAccounted'
  <2> DEFINE linked == {page_indexes[k] : k \in Rings} \ {NULL}
  <2>1. DOMAIN heap = linked \ {cpage}
    BY <1>1 DEF MemoryInv, PagesAccounted
  <2>2. \A k \in Rings : k # RingOf(get_index) => page_indexes[k] # cpage
    BY <1>1, <1>2 DEF MemoryInv, TableOK
  <2>3. {page_indexes'[k] : k \in Rings} \ {NULL} = linked \ {cpage}
    <3>1. \A x \in linked \ {cpage} : \E k \in Rings : x = page_indexes'[k]
      BY <1>1, <1>2
    <3>2. \A k \in Rings : page_indexes'[k] \in (linked \ {cpage}) \cup {NULL}
      BY <1>1, <2>2
    <3> QED BY <3>1, <3>2
  <2> QED BY <1>1, <2>1, <2>3 DEF PagesAccounted, Rings
<1> QED BY <1>6, <1>7, <1>9, <1>10, <1>11, <1>12 DEF MemoryInv

\* get_index_++ leaves the page behind only after it was unlinked.
LEMMA AdvanceStep ==
    ASSUME TypeOK, Window, MemoryInv, PopAdvance
    PROVE  MemoryInv'
<1>1. /\ cpc = "advance" /\ cpc' = "idle" /\ get_index' = get_index + 1
      /\ UNCHANGED <<post_index, heap, page_indexes, allocs, pc, idx, sent, page, tickets>>
      /\ delivered' = Append(delivered, cmsg)
  BY DEF PopAdvance, prodVars
<1>2. /\ cmsg = tickets[get_index + 1] /\ get_index \in Nat /\ get_index < post_index
      /\ post_index \in Nat
      /\ \A q \in Producers : ~(InFlight(q) /\ idx[q] = get_index)
      /\ LastSlot(get_index) => page_indexes[RingOf(get_index)] = NULL
  BY <1>1 DEF MemoryInv, ConsumerOK, TypeOK
<1>3. \A q \in Producers : InFlight(q)' <=> InFlight(q)
  BY <1>1 DEF InFlight
<1>4. \A i : (Linked(i)' <=> Linked(i)) /\ CellOf(i)' = CellOf(i)
  BY <1>1, LinkedUnchanged
<1>6. ClaimsOK'
  BY <1>1, <1>2, <1>3 DEF MemoryInv, ClaimsOK, TypeOK
<1>7. TableOK'
  <2> SUFFICES ASSUME NEW k \in Rings, page_indexes[k] # NULL
               PROVE  /\ page_indexes[k] \in DOMAIN heap
                      /\ Ring(heap[page_indexes[k]].home) = k
                      /\ heap[page_indexes[k]].home >= PageNo(get_index + 1)
                      /\ heap[page_indexes[k]].home < PageNo(get_index + 1) + PageIndexCount
    BY <1>1 DEF TableOK, RingOf, Ring, PageNo, Rings
  <2> DEFINE h == heap[page_indexes[k]].home
  <2>1. /\ page_indexes[k] \in DOMAIN heap /\ Ring(h) = k
        /\ h >= PageNo(get_index) /\ h < PageNo(get_index) + PageIndexCount
    BY <1>1 DEF MemoryInv, TableOK
  <2>2. h \in Nat /\ PageNo(get_index) \in Nat
    BY <1>2, <2>1, IndexFacts DEF TypeOK, Pages
  <2>3. CASE LastSlot(get_index)
    <3>1. PageNo(get_index + 1) = PageNo(get_index) + 1
      BY <1>2, <2>3, PageStep
    <3>2. h # PageNo(get_index)
      BY <1>2, <2>1, <2>3 DEF RingOf
    <3> QED BY <2>1, <2>2, <3>1, <3>2, SizeAssumption DEF SizeAssumption
  <2>4. CASE ~LastSlot(get_index)
    BY <1>2, <2>1, <2>4, PageStep
  <2> QED BY <2>3, <2>4
<1>8. FreshOK'
  BY <1>1 DEF MemoryInv, FreshOK, Rings
<1>9. HoldersOK'
  BY <1>1, <1>4 DEF MemoryInv, HoldersOK, RingOf, Ring, PageNo
<1>10. CellsOK'
  BY <1>1, <1>2, <1>3, <1>4 DEF MemoryInv, CellsOK
<1>11. ConsumerOK'
  BY <1>1 DEF ConsumerOK
<1>12. DeliveredInClaimOrder'
  <2>1. tickets \in Seq(Msgs) /\ get_index < Len(tickets)
    BY <1>2 DEF MemoryInv, ClaimsOK, TypeOK
  <2> QED BY <1>1, <1>2, <2>1, PrefixExtend DEF MemoryInv, DeliveredInClaimOrder
<1>13. PagesAccounted'
  BY <1>1 DEF MemoryInv, PagesAccounted, Rings
<1> QED BY <1>6, <1>7, <1>8, <1>9, <1>10, <1>11, <1>12, <1>13 DEF MemoryInv

-----------------------------------------------------------------------------
LEMMA MemoryNext ==
    ASSUME TypeOK, Window, MemoryInv, [Next]_vars
    PROVE  MemoryInv'
<1>1. CASE UNCHANGED vars
  <2>1. UNCHANGED <<post_index, get_index, page_indexes, heap, allocs, pc, idx, page,
                    sent, cpc, cpage, cmsg, tickets, delivered>>
    BY <1>1 DEF vars
  <2>2. \A i : (Linked(i)' <=> Linked(i)) /\ CellOf(i)' = CellOf(i)
    BY <2>1, LinkedUnchanged
  <2>3. \A q \in Producers : InFlight(q)' <=> InFlight(q)
    BY <2>1 DEF InFlight
  <2>4. ClaimsOK' /\ DeliveredInClaimOrder'
    BY <2>1, <2>3 DEF MemoryInv, ClaimsOK, DeliveredInClaimOrder
  <2>5. TableOK' /\ FreshOK' /\ PagesAccounted'
    BY <2>1 DEF MemoryInv, TableOK, FreshOK, PagesAccounted, RingOf, Ring, PageNo, Rings
  <2>6. HoldersOK'
    BY <2>1, <2>2 DEF MemoryInv, HoldersOK, RingOf, Ring, PageNo
  <2>7. CellsOK'
    BY <2>1, <2>2, <2>3 DEF MemoryInv, CellsOK
  <2>8. ConsumerOK'
    BY <2>1, <2>2, <2>3 DEF MemoryInv, ConsumerOK, RingOf, Ring, PageNo, LastSlot, Slot
  <2> QED BY <2>4, <2>5, <2>6, <2>7, <2>8 DEF MemoryInv
<1> QED BY <1>1, BeforeClaim, Claim, Lookup, AllocStep, ReturnPage, WriteMsg, WriteFlag,
           PopReads, PopAllocStep, DeleteStep, UnlinkStep, AdvanceStep
        DEF Next, PushStep, PopStep

LEMMA MemoryInvariant == ASSUME AtMostTwo PROVE Spec => [](TypeOK /\ Window /\ MemoryInv)
<1>1. Spec => []TypeOK
  BY TypeCorrect
<1>2. Spec => []IndexInv
  BY <1>1, IndexInit, IndexNext, PTL DEF Spec
<1>3. TypeOK /\ IndexInv => Window
  BY IndexWindow
<1>4. TypeOK /\ Window /\ MemoryInv /\ [Next]_vars => MemoryInv'
  BY MemoryNext
<1> QED BY <1>1, <1>2, <1>3, <1>4, MemoryInit, PTL DEF Spec

\* With at most two producers no claim ever wraps onto a page still being read.
THEOREM NoWrap == ASSUME AtMostTwo PROVE Spec => []NoWrapAround
BY MemoryInvariant, WindowNoWrap, PTL

\* With at most two producers pop() returns every claimed message exactly once,
\* unaltered and in claim order, for every page size, ring size and call count.
THEOREM FifoOrder == ASSUME AtMostTwo PROVE Spec => []DeliveredInClaimOrder
<1>1. MemoryInv => DeliveredInClaimOrder
  BY DEF MemoryInv
<1> QED BY <1>1, MemoryInvariant, PTL

\* With at most two producers neither push() nor pop() touches a freed page.
THEOREM MemorySafe == ASSUME AtMostTwo PROVE Spec => []NoDanglingAccess
<1>1. TypeOK /\ MemoryInv => NoDanglingAccess
  BY DEF MemoryInv, HoldersOK, ConsumerOK, Linked, NoDanglingAccess
<1> QED BY <1>1, MemoryInvariant, PTL

\* With at most two producers the live pages are exactly the linked ones.
THEOREM NoPageLeak == ASSUME AtMostTwo PROVE Spec => []PagesAccounted
<1>1. MemoryInv => PagesAccounted
  BY DEF MemoryInv
<1> QED BY <1>1, MemoryInvariant, PTL
-----------------------------------------------------------------------------
(* SrtQueue implements MpscFifo, for at most two producers.  The claim is   *)
(* the abstract Reserve, the store of the flag is Fill and the increment of *)
(* get_index is Deliver; every other step leaves the abstract queue alone. *)

\* the claimed indices as places of the abstract queue
Ready(i) == \A p \in Producers : ~(InFlight(p) /\ idx[p] = i)
Places == [i \in Nat |-> [msg |-> tickets[i + 1], ready |-> Ready(i)]]
Span == post_index - get_index

\* a push() call has a number between 1 and MaxPush
CountsOK == \A p \in Producers : sent[p] <= MaxPush /\ (pc[p] # "idle" => 1 <= sent[p])

LEMMA CountsInit == Init => CountsOK
BY SizeAssumption DEF SizeAssumption, Init, CountsOK

LEMMA CountsNext ==
    ASSUME TypeOK, CountsOK, [Next]_vars
    PROVE  CountsOK'
<1>1. ASSUME NEW p \in Producers, PushReadPost(p) PROVE CountsOK'
  BY <1>1, SizeAssumption DEF SizeAssumption, PushReadPost, CountsOK, TypeOK
<1>2. ASSUME NEW p \in Producers, PushStep(p) PROVE CountsOK'
  BY <1>2 DEF PushStep, PushRefuse, PushAdmit, PushClaim, PushLookup, PushAlloc,
              PushReturnPage, PushWriteMsg, PushWriteFlag, CountsOK, TypeOK
<1>3. ASSUME PopStep PROVE CountsOK'
  BY <1>3 DEF PopStep, PopBegin, PopLookup, PopAlloc, PopReturnPage, PopNotReady, PopReady,
              PopCopy, PopDelete, PopUnlink, PopAdvance, prodVars, CountsOK
<1>4. ASSUME UNCHANGED vars PROVE CountsOK'
  BY <1>4 DEF vars, CountsOK
<1> QED BY <1>1, <1>2, <1>3, <1>4 DEF Next

\* the abstract queue is the sequence of the claimed places
WaitingIsPlaces ==
    /\ Span \in Nat
    /\ Waiting = [j \in 1..Span |-> Places[get_index + j - 1]]

LEMMA WaitingPlaces == TypeOK /\ ClaimsOK => WaitingIsPlaces
<1> SUFFICES ASSUME TypeOK, ClaimsOK PROVE WaitingIsPlaces
  OBVIOUS
<1>1. Span \in Nat
  BY DEF TypeOK, ClaimsOK, Span
<1>2. \A j \in 1..Span : get_index + j - 1 \in Nat /\ get_index + j - 1 + 1 = get_index + j
  BY DEF TypeOK, Span
<1> QED BY <1>1, <1>2 DEF WaitingIsPlaces, Waiting, Places, Ready, InFlight, Span

\* a step that leaves the claimed places alone is no step of the abstract queue
LEMMA PlacesKept ==
    ASSUME WaitingIsPlaces, WaitingIsPlaces',
           UNCHANGED <<post_index, get_index, tickets, delivered>>,
           \A q \in Producers : /\ InFlight(q)' <=> InFlight(q)
                                /\ InFlight(q) => idx'[q] = idx[q]
    PROVE  UNCHANGED F!fifoVars
<1>1. \A i : Ready(i)' = Ready(i)
  BY DEF Ready
<1>2. Places' = Places
  BY <1>1 DEF Places
<1>3. Waiting' = Waiting
  BY <1>2 DEF WaitingIsPlaces, Span
<1> QED BY <1>3 DEF F!fifoVars

\* the fetch-and-increment of push() reserves the next place
LEMMA ClaimReserves ==
    ASSUME TypeOK, ClaimsOK, CountsOK, WaitingIsPlaces, WaitingIsPlaces',
           OvershootBounded', AtMostTwo, NEW p \in Producers, PushClaim(p)
    PROVE  F!Reserve(<<p, sent[p]>>) /\ <<p, sent[p]>> \in Producers \X (1..MaxPush)
<1> DEFINE m == [msg |-> <<p, sent[p]>>, ready |-> FALSE]
<1>1. /\ get_index' = get_index /\ post_index' = post_index + 1 /\ delivered' = delivered
      /\ get_index \in Nat /\ post_index \in Nat /\ get_index <= post_index
      /\ tickets' = Append(tickets, <<p, sent[p]>>) /\ Len(tickets) = post_index
      /\ tickets \in Seq(Msgs)
      /\ idx'[p] = post_index /\ InFlight(p)' /\ ~InFlight(p)
      /\ \A q \in Producers : q # p => (InFlight(q)' <=> InFlight(q)) /\ idx'[q] = idx[q]
  BY DEF PushClaim, TypeOK, ClaimsOK, InFlight, InFlightAt
<1>2. ASSUME NEW i \in Nat, i < post_index PROVE Places'[i] = Places[i]
  <2>1. Ready(i)' = Ready(i)
    BY <1>1, <1>2 DEF Ready
  <2>2. tickets'[i + 1] = tickets[i + 1]
    BY <1>1, <1>2
  <2> QED BY <2>1, <2>2 DEF Places
<1>3. Places'[post_index] = m
  <2> SUFFICES ASSUME NEW i \in Nat, i = post_index PROVE Places'[i] = m
    BY <1>1
  <2>1. Ready(i)' = FALSE
    BY <1>1 DEF Ready
  <2>2. tickets'[i + 1] = <<p, sent[p]>>
    BY <1>1
  <2> QED BY <2>1, <2>2 DEF Places
<1>4. /\ Waiting = [j \in 1..Span |-> Places[get_index + j - 1]]
      /\ Waiting' = [j \in 1..(Span + 1) |-> Places'[get_index + j - 1]]
      /\ Span \in Nat /\ get_index + Span = post_index
  BY <1>1 DEF WaitingIsPlaces, Span
<1>5. Waiting' = Append(Waiting, m)
  <2> HIDE DEF m
  <2>1. \A j \in 1..Span : get_index + j - 1 \in Nat /\ get_index + j - 1 < post_index
    BY <1>1, <1>4
  <2> QED BY <1>1, <1>2, <1>3, <1>4, <2>1
<1>6. Len(Waiting) < PageIndexCount * PageMsgCount
  <2>1. Len(Waiting) = post_index - get_index
    BY <1>1, <1>4 DEF Span
  <2>2. Cardinality(Producers) \in Nat /\ Cardinality(Producers) <= 2
    BY PendingFinite DEF AtMostTwo
  <2>3. Cap \in Nat
    BY CapFacts
  <2>4. post_index + 1 <= get_index + Cap + 1
    BY <1>1, <2>2, <2>3 DEF OvershootBounded
  <2>5. PageIndexCount * PageMsgCount = Cap + PageMsgCount
    BY SizeAssumption DEF SizeAssumption, Cap
  <2> DEFINE room == PageIndexCount * PageMsgCount
  <2>6. room = Cap + PageMsgCount
    BY <2>5
  <2> HIDE DEF room
  <2>7. Len(Waiting) < room
    BY <1>1, <2>1, <2>3, <2>4, <2>6, SizeAssumption DEF SizeAssumption
  <2> QED BY <2>7 DEF room
<1>7. sent[p] \in 1..MaxPush
  BY SizeAssumption DEF SizeAssumption, PushClaim, CountsOK, TypeOK
<1> QED BY <1>1, <1>5, <1>6, <1>7 DEF F!Reserve

\* the store of the flag fills the place of the push()
LEMMA FlagFills ==
    ASSUME TypeOK, ClaimsOK, WaitingIsPlaces, WaitingIsPlaces',
           NEW p \in Producers, PushWriteFlag(p)
    PROVE  \E j \in DOMAIN Waiting : F!Fill(j)
<1> DEFINE j == idx[p] - get_index + 1
<1>1. /\ UNCHANGED <<get_index, post_index, delivered, tickets, idx>>
      /\ get_index \in Nat /\ post_index \in Nat /\ idx[p] \in Nat
      /\ InFlight(p) /\ ~InFlight(p)'
      /\ \A q \in Producers : q # p => (InFlight(q)' <=> InFlight(q))
  BY DEF PushWriteFlag, TypeOK, InFlight, InFlightAt
<1>2. /\ get_index <= idx[p] /\ idx[p] < post_index
      /\ \A q \in Producers : InFlight(q) /\ idx[q] = idx[p] => q = p
  BY <1>1 DEF ClaimsOK
<1>3. ASSUME NEW i \in Nat, i # idx[p] PROVE Places'[i] = Places[i]
  <2>1. Ready(i)' = Ready(i)
    BY <1>1, <1>3 DEF Ready
  <2> QED BY <1>1, <2>1 DEF Places
<1>4. Places[idx[p]].ready = FALSE /\ Places'[idx[p]] = [Places[idx[p]] EXCEPT !.ready = TRUE]
  <2> SUFFICES ASSUME NEW i \in Nat, i = idx[p]
               PROVE  Places[i].ready = FALSE /\ Places'[i] = [Places[i] EXCEPT !.ready = TRUE]
    BY <1>1
  <2>1. Ready(i) = FALSE
    BY <1>1 DEF Ready
  <2>2. Ready(i)' = TRUE
    BY <1>1, <1>2 DEF Ready
  <2>3. Places[i] = [msg |-> tickets[i + 1], ready |-> FALSE]
    BY <2>1 DEF Places
  <2>4. Places'[i] = [msg |-> tickets[i + 1], ready |-> TRUE]
    BY <1>1, <2>2 DEF Places
  <2>5. \A c : [Places[i] EXCEPT !.ready = c] = [msg |-> tickets[i + 1], ready |-> c]
    <3> SUFFICES ASSUME NEW c, NEW no, Places[i] = [msg |-> tickets[i + 1], ready |-> no]
                 PROVE  [Places[i] EXCEPT !.ready = c] = [msg |-> tickets[i + 1], ready |-> c]
      BY <2>3
    <3> QED OBVIOUS
  <2>6. [Places[i] EXCEPT !.ready = TRUE] = [msg |-> tickets[i + 1], ready |-> TRUE]
    BY <2>5, Zenon
  <2>7. Places[i].ready = FALSE
    BY <2>3
  <2> QED BY <2>4, <2>6, <2>7, Zenon
<1>5. /\ Waiting = [k \in 1..Span |-> Places[get_index + k - 1]]
      /\ Waiting' = [k \in 1..Span |-> Places'[get_index + k - 1]]
      /\ Span \in Nat /\ get_index + Span = post_index
  BY <1>1 DEF WaitingIsPlaces, Span
<1>6. j \in 1..Span /\ get_index + j - 1 = idx[p] /\ DOMAIN Waiting = 1..Span
  BY <1>1, <1>2, <1>5
<1>7. Waiting' = [Waiting EXCEPT ![j].ready = TRUE]
  <2>1. \A k \in 1..Span : /\ get_index + k - 1 \in Nat
                           /\ get_index + k - 1 = idx[p] => k = j
    BY <1>1, <1>6
  <2>2. \A k \in 1..Span : k # j => Waiting'[k] = Waiting[k]
    BY <1>3, <1>5, <2>1
  <2>3. Waiting'[j] = [Waiting[j] EXCEPT !.ready = TRUE]
    BY <1>4, <1>5, <1>6
  <2> HIDE DEF j
  <2> QED BY <1>5, <1>6, <2>2, <2>3
<1>8. ~Waiting[j].ready
  BY <1>4, <1>5, <1>6
<1> HIDE DEF j
<1> QED BY <1>1, <1>6, <1>7, <1>8 DEF F!Fill

\* the increment of get_index delivers the oldest place, which is filled
LEMMA AdvanceDelivers ==
    ASSUME TypeOK, MemoryInv, WaitingIsPlaces, WaitingIsPlaces', PopAdvance
    PROVE  F!Deliver
<1>1. /\ UNCHANGED <<post_index, tickets, idx, pc>> /\ cpc = "advance"
      /\ get_index' = get_index + 1 /\ delivered' = Append(delivered, cmsg)
      /\ get_index \in Nat /\ post_index \in Nat
  BY DEF PopAdvance, prodVars, TypeOK
<1>2. /\ get_index < post_index /\ cmsg = tickets[get_index + 1]
      /\ Ready(get_index)
  BY <1>1 DEF MemoryInv, ConsumerOK, Ready
<1>3. Places' = Places
  <2>1. \A i : Ready(i)' = Ready(i)
    BY <1>1 DEF Ready, InFlight
  <2> QED BY <1>1, <2>1 DEF Places
<1>4. /\ Waiting = [k \in 1..Span |-> Places[get_index + k - 1]]
      /\ Waiting' = [k \in 1..(Span - 1) |-> Places[get_index + 1 + k - 1]]
      /\ Span \in Nat \ {0}
  BY <1>1, <1>2, <1>3 DEF WaitingIsPlaces, Span
<1>5. Waiting # <<>> /\ Head(Waiting) = Places[get_index] /\ Len(Waiting) = Span
  BY <1>1, <1>4
<1>6. Places[get_index].ready /\ Places[get_index].msg = cmsg
  BY <1>1, <1>2 DEF Places
<1>7. Waiting' = Tail(Waiting)
  <2>1. \A k \in 1..(Span - 1) : get_index + 1 + k - 1 = get_index + (k + 1) - 1
    BY <1>1, <1>4
  <2> QED BY <1>1, <1>4, <1>5, <2>1
<1> QED BY <1>1, <1>5, <1>6, <1>7 DEF F!Deliver

\* every step of the paged ring is a step of the abstract queue or none
LEMMA FifoStep ==
    ASSUME AtMostTwo, TypeOK, MemoryInv, CountsOK, WaitingIsPlaces, WaitingIsPlaces',
           OvershootBounded', [Next]_vars
    PROVE  [F!FifoNext]_(F!fifoVars)
<1>0. ClaimsOK
  BY DEF MemoryInv
<1>1. ASSUME NEW p \in Producers,
             \/ PushReadPost(p) \/ PushRefuse(p) \/ PushAdmit(p) \/ PushLookup(p)
             \/ PushAlloc(p) \/ PushReturnPage(p) \/ PushWriteMsg(p)
      PROVE  UNCHANGED F!fifoVars
  <2>1. /\ UNCHANGED <<post_index, get_index, tickets, delivered, idx>>
        /\ \A q \in Producers : InFlight(q)' <=> InFlight(q)
    BY <1>1 DEF PushReadPost, PushRefuse, PushAdmit, PushLookup, LookupTarget, PushAlloc,
                PushReturnPage, PushWriteMsg, InFlight, InFlightAt, TypeOK
  <2> QED BY <2>1, PlacesKept
<1>2. ASSUME NEW p \in Producers, PushClaim(p) PROVE F!FifoNext
  BY <1>0, <1>2, ClaimReserves DEF F!FifoNext
<1>3. ASSUME NEW p \in Producers, PushWriteFlag(p) PROVE F!FifoNext
  BY <1>0, <1>3, FlagFills DEF F!FifoNext
<1>4. CASE PopAdvance
  BY <1>4, AdvanceDelivers DEF F!FifoNext
<1>5. CASE PopStep /\ ~PopAdvance
  <2>1. /\ UNCHANGED <<post_index, get_index, tickets, delivered, idx>>
        /\ \A q \in Producers : InFlight(q)' <=> InFlight(q)
    BY <1>5 DEF PopStep, PopBegin, PopLookup, PopAlloc, PopReturnPage, PopNotReady,
                PopReady, PopCopy, PopDelete, PopUnlink, prodVars, InFlight
  <2> QED BY <2>1, PlacesKept
<1>6. CASE UNCHANGED vars
  <2>1. /\ UNCHANGED <<post_index, get_index, tickets, delivered, idx>>
        /\ \A q \in Producers : InFlight(q)' <=> InFlight(q)
    BY <1>6 DEF vars, InFlight
  <2> QED BY <2>1, PlacesKept
<1> QED BY <1>1, <1>2, <1>3, <1>4, <1>5, <1>6 DEF Next, PushStep

\* With at most two producers the pages, the flags and the two indices behave as
\* the bounded FIFO of MpscFifo, for every page size, ring size and call count.
THEOREM RingImplementsFifo == ASSUME AtMostTwo PROVE Spec => ImplementsFifo
<1>1. Init => F!FifoInit
  BY DEF Init, Waiting, F!FifoInit
<1>2. Spec => []CountsOK
  BY TypeCorrect, CountsInit, CountsNext, PTL DEF Spec
<1>3. MemoryInv => ClaimsOK
  BY DEF MemoryInv
<1>4. /\ TypeOK /\ MemoryInv /\ CountsOK /\ WaitingIsPlaces /\ WaitingIsPlaces'
      /\ OvershootBounded' /\ [Next]_vars
      => [F!FifoNext]_(F!fifoVars)
  BY FifoStep
<1>5. Spec => ImplementsFifo
  BY <1>1, <1>2, <1>3, <1>4, MemoryInvariant, Overshoot, WaitingPlaces, PTL
     DEF Spec, ImplementsFifo, F!FifoSpec
<1> QED BY <1>5
=============================================================================
