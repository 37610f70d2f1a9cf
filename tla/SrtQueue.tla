------------------------------ MODULE SrtQueue ------------------------------
(***************************************************************************)
(* base::srt_queue<T> (library/base/src/mqueue.h): the paged, lock-free    *)
(* multi-producer / single-consumer queue behind every processor thread of *)
(* ctp_trade and alpha.  Messages live in pages of PageMsgCount cells; a   *)
(* ring of PageIndexCount page pointers (page_indexes_) maps the logical   *)
(* page of an index to a heap page.  push() claims an index with an atomic *)
(* fetch-and-increment and fills the cell later; pop() follows get_index_, *)
(* stops at a cell whose flag is not set, and frees a page with its last   *)
(* cell.  One action is one access to shared memory (the build targets x86,*)
(* where base_memory_fence() is mfence, so accesses are taken in program   *)
(* order).                                                                 *)
(***************************************************************************)
EXTENDS Integers, Sequences, FiniteSets

CONSTANTS Producers,        \* threads that call push()
          PageMsgCount,     \* page_msg_count_   = 2^page_msg_bits
          PageIndexCount,   \* page_index_count_ = 2^page_index_bits
          MaxPush,          \* bound: push() calls per producer
          NULL              \* the null pointer; also "no message"

ASSUME SizeAssumption ==
    /\ PageMsgCount \in Nat \ {0}
    /\ PageIndexCount \in Nat \ {0, 1}
    /\ MaxPush \in Nat
ASSUME ProducersAssumption == IsFiniteSet(Producers)
ASSUME NullAssumption == NULL \notin Int /\ NULL \notin Producers \X Int

VARIABLES
    post_index,     \* post_index_: next index to claim
    get_index,      \* get_index_: next index to pop
    page_indexes,   \* page_indexes_: ring position -> page pointer or NULL
    heap,           \* live pages: pointer -> [home, cell]; freed pages leave it
    allocs,         \* number of pages ever allocated: the next fresh pointer
    pc, seen, idx, page, sent,      \* per producer: control point and locals
    cpc, cpage, cmsg,               \* the consumer: control point and locals
    tickets,        \* history: tickets[i+1] is the message that claimed index i
    delivered       \* history: what pop() has returned, in order

prodVars == <<pc, seen, idx, page, sent>>
consVars == <<cpc, cpage, cmsg>>
vars == <<post_index, get_index, page_indexes, heap, allocs,
          pc, seen, idx, page, sent, cpc, cpage, cmsg, tickets, delivered>>

-----------------------------------------------------------------------------
\* index >> page_msg_bits_, index & page_msg_mask_ and pageNo & page_index_mask_
PageNo(i) == i \div PageMsgCount
Slot(i) == i % PageMsgCount
Ring(n) == n % PageIndexCount
RingOf(i) == Ring(PageNo(i))

Slots == 0..(PageMsgCount - 1)
Rings == 0..(PageIndexCount - 1)
Msgs == Producers \X Nat

Cells == [msg : Msgs \cup {NULL}, flag : {0, 1}]
Pages == [home : Nat, cell : [Slots -> Cells]]

EmptyCell == [msg |-> NULL, flag |-> 0]

\* new srt_message[page_msg_count_] followed by memset(page, 0, ...); home is
\* auxiliary: the logical page the allocating thread wanted it for.
NewPage(n) == [home |-> n, cell |-> [s \in Slots |-> EmptyCell]]

\* mutant: the page kept free for racing producers is given away
IsFullNoSparePage(post, get) == (post - get) \div PageMsgCount >= PageIndexCount

\* mutant: one page more than intended
IsFullStrict(post, get) == (post - get) \div PageMsgCount > PageIndexCount - 1

\* push()'s test "(post - get) >> page_msg_bits_ >= page_index_count_ - 1"
IsFull(post, get) == (post - get) \div PageMsgCount >= PageIndexCount - 1

Init ==
    /\ post_index = 0
    /\ get_index = 0
    /\ page_indexes = [k \in Rings |-> IF k = 0 THEN 0 ELSE NULL]
    /\ heap = [id \in {0} |-> NewPage(0)]
    /\ allocs = 1
    /\ pc = [p \in Producers |-> "idle"]
    /\ seen = [p \in Producers |-> 0]
    /\ idx = [p \in Producers |-> 0]
    /\ page = [p \in Producers |-> NULL]
    /\ sent = [p \in Producers |-> 0]
    /\ cpc = "idle"
    /\ cpage = NULL
    /\ cmsg = NULL
    /\ tickets = <<>>
    /\ delivered = <<>>

-----------------------------------------------------------------------------
(* push(): the full test reads post_index_ and then get_index_.            *)

PushReadPost(p) ==
    /\ pc[p] = "idle"
    /\ sent[p] < MaxPush
    /\ sent' = [sent EXCEPT ![p] = @ + 1]
    /\ seen' = [seen EXCEPT ![p] = post_index]
    /\ pc' = [pc EXCEPT ![p] = "check"]
    /\ UNCHANGED <<post_index, get_index, page_indexes, heap, allocs, idx, page,
                   consVars, tickets, delivered>>

\* the queue is full: the message is dropped and push() returns false
PushRefuse(p) ==
    /\ pc[p] = "check"
    /\ IsFull(seen[p], get_index)
    /\ pc' = [pc EXCEPT ![p] = "idle"]
    /\ UNCHANGED <<post_index, get_index, page_indexes, heap, allocs, seen, idx,
                   page, sent, consVars, tickets, delivered>>

PushAdmit(p) ==
    /\ pc[p] = "check"
    /\ ~IsFull(seen[p], get_index)
    /\ pc' = [pc EXCEPT ![p] = "claim"]
    /\ UNCHANGED <<post_index, get_index, page_indexes, heap, allocs, seen, idx,
                   page, sent, consVars, tickets, delivered>>

\* base_fetch_and_inc(&post_index_)
PushClaim(p) ==
    /\ pc[p] = "claim"
    /\ idx' = [idx EXCEPT ![p] = post_index]
    /\ post_index' = post_index + 1
    /\ tickets' = Append(tickets, <<p, sent[p]>>)
    /\ pc' = [pc EXCEPT ![p] = "lookup"]
    /\ UNCHANGED <<get_index, page_indexes, heap, allocs, seen, page, sent,
                   consVars, delivered>>

(* get_msg_page(): an unlocked null test, the slow path under mutex_ (whose *)
(* only shared accesses are the second test and the publishing store, hence*)
(* one step), and the read of the pointer that is returned.                *)

LookupTarget(i) == IF page_indexes[RingOf(i)] = NULL THEN "alloc" ELSE "return"

\* mutant: no second null test after the lock is taken
AllocPageNoRecheck(i) ==
    /\ page_indexes' = [page_indexes EXCEPT ![RingOf(i)] = allocs]
    /\ heap' = [id \in DOMAIN heap \cup {allocs} |->
                   IF id = allocs THEN NewPage(PageNo(i)) ELSE heap[id]]
    /\ allocs' = allocs + 1

\* the locked region of get_msg_page for the page of index i
AllocPage(i) ==
    IF page_indexes[RingOf(i)] = NULL
    THEN /\ page_indexes' = [page_indexes EXCEPT ![RingOf(i)] = allocs]
         /\ heap' = [id \in DOMAIN heap \cup {allocs} |->
                        IF id = allocs THEN NewPage(PageNo(i)) ELSE heap[id]]
         /\ allocs' = allocs + 1
    ELSE UNCHANGED <<page_indexes, heap, allocs>>

PushLookup(p) ==
    /\ pc[p] = "lookup"
    /\ pc' = [pc EXCEPT ![p] = LookupTarget(idx[p])]
    /\ UNCHANGED <<post_index, get_index, page_indexes, heap, allocs, seen, idx,
                   page, sent, consVars, tickets, delivered>>

PushAlloc(p) ==
    /\ pc[p] = "alloc"
    /\ AllocPage(idx[p])
    /\ pc' = [pc EXCEPT ![p] = "return"]
    /\ UNCHANGED <<post_index, get_index, seen, idx, page, sent, consVars,
                   tickets, delivered>>

PushReturnPage(p) ==
    /\ pc[p] = "return"
    /\ page' = [page EXCEPT ![p] = page_indexes[RingOf(idx[p])]]
    /\ pc' = [pc EXCEPT ![p] = "msg"]
    /\ UNCHANGED <<post_index, get_index, page_indexes, heap, allocs, seen, idx,
                   sent, consVars, tickets, delivered>>

\* page[post_index & page_msg_mask_].msg = msg.  A store through a pointer to a
\* freed page reaches no live cell (EXCEPT outside the domain changes nothing).
PushWriteMsg(p) ==
    /\ pc[p] = "msg"
    /\ heap' = [heap EXCEPT ![page[p]].cell[Slot(idx[p])].msg = <<p, sent[p]>>]
    /\ pc' = [pc EXCEPT ![p] = "flag"]
    /\ UNCHANGED <<post_index, get_index, page_indexes, allocs, seen, idx, page,
                   sent, consVars, tickets, delivered>>

\* page[post_index & page_msg_mask_].flag = 1, after base_memory_fence()
PushWriteFlag(p) ==
    /\ pc[p] = "flag"
    /\ heap' = [heap EXCEPT ![page[p]].cell[Slot(idx[p])].flag = 1]
    /\ pc' = [pc EXCEPT ![p] = "idle"]
    /\ page' = [page EXCEPT ![p] = NULL]
    /\ UNCHANGED <<post_index, get_index, page_indexes, allocs, seen, idx, sent,
                   consVars, tickets, delivered>>

-----------------------------------------------------------------------------
(* pop(), called over and over by the one reading thread.                  *)

\* get_index_ < post_index_: go on; otherwise pop() returns false
PopBegin ==
    /\ cpc = "idle"
    /\ get_index < post_index
    /\ cpc' = "lookup"
    /\ UNCHANGED <<post_index, get_index, page_indexes, heap, allocs, prodVars,
                   cpage, cmsg, tickets, delivered>>

PopLookup ==
    /\ cpc = "lookup"
    /\ cpc' = LookupTarget(get_index)
    /\ UNCHANGED <<post_index, get_index, page_indexes, heap, allocs, prodVars,
                   cpage, cmsg, tickets, delivered>>

PopAlloc ==
    /\ cpc = "alloc"
    /\ AllocPage(get_index)
    /\ cpc' = "return"
    /\ UNCHANGED <<post_index, get_index, prodVars, cpage, cmsg, tickets, delivered>>

PopReturnPage ==
    /\ cpc = "return"
    /\ cpage' = page_indexes[RingOf(get_index)]
    /\ cpc' = "flag"
    /\ UNCHANGED <<post_index, get_index, page_indexes, heap, allocs, prodVars,
                   cmsg, tickets, delivered>>

\* the flag is not 1: pop() returns false although an index was claimed
PopNotReady ==
    /\ cpc = "flag"
    /\ cpage \in DOMAIN heap => heap[cpage].cell[Slot(get_index)].flag # 1
    /\ cpc' = "idle"
    /\ cpage' = NULL
    /\ UNCHANGED <<post_index, get_index, page_indexes, heap, allocs, prodVars,
                   cmsg, tickets, delivered>>

\* mutant: the cell is taken without looking at its flag
PopReadyIgnoringFlag ==
    /\ cpc = "flag"
    /\ cpage \in DOMAIN heap
    /\ cpc' = "copy"
    /\ UNCHANGED <<post_index, get_index, page_indexes, heap, allocs, prodVars,
                   cpage, cmsg, tickets, delivered>>

PopReady ==
    /\ cpc = "flag"
    /\ cpage \in DOMAIN heap
    /\ heap[cpage].cell[Slot(get_index)].flag = 1
    /\ cpc' = "copy"
    /\ UNCHANGED <<post_index, get_index, page_indexes, heap, allocs, prodVars,
                   cpage, cmsg, tickets, delivered>>

\* msg = page[...].msg, then the test for the last cell of the page
PopCopy ==
    /\ cpc = "copy"
    /\ cmsg' = heap[cpage].cell[Slot(get_index)].msg
    /\ cpc' = IF Slot(get_index) = PageMsgCount - 1 THEN "delete" ELSE "advance"
    /\ UNCHANGED <<post_index, get_index, page_indexes, heap, allocs, prodVars,
                   cpage, tickets, delivered>>

\* delete[] page
PopDelete ==
    /\ cpc = "delete"
    /\ heap' = [id \in DOMAIN heap \ {cpage} |-> heap[id]]
    /\ cpc' = "unlink"
    /\ UNCHANGED <<post_index, get_index, page_indexes, allocs, prodVars, cpage,
                   cmsg, tickets, delivered>>

\* page_indexes_[page_index] = NULL
PopUnlink ==
    /\ cpc = "unlink"
    /\ page_indexes' = [page_indexes EXCEPT ![RingOf(get_index)] = NULL]
    /\ cpc' = "advance"
    /\ UNCHANGED <<post_index, get_index, heap, allocs, prodVars, cpage, cmsg,
                   tickets, delivered>>

\* get_index_++ and pop() returns true
PopAdvance ==
    /\ cpc = "advance"
    /\ get_index' = get_index + 1
    /\ delivered' = Append(delivered, cmsg)
    /\ cpc' = "idle"
    /\ cpage' = NULL
    /\ cmsg' = NULL
    /\ UNCHANGED <<post_index, page_indexes, heap, allocs, prodVars, tickets>>

-----------------------------------------------------------------------------
\* the rest of a push() that has begun
PushStep(p) ==
    \/ PushRefuse(p) \/ PushAdmit(p) \/ PushClaim(p)
    \/ PushLookup(p) \/ PushAlloc(p) \/ PushReturnPage(p)
    \/ PushWriteMsg(p) \/ PushWriteFlag(p)

PopStep ==
    \/ PopBegin \/ PopLookup \/ PopAlloc \/ PopReturnPage
    \/ PopNotReady \/ PopReady \/ PopCopy
    \/ PopDelete \/ PopUnlink \/ PopAdvance

Next ==
    \/ \E p \in Producers : PushReadPost(p) \/ PushStep(p)
    \/ PopStep

Spec == Init /\ [][Next]_vars

\* A thread inside push() keeps running, and the reading thread keeps polling:
\* every run() loop calls pop() again after at most one timed wait.
Fairness == /\ \A p \in Producers : WF_vars(PushStep(p))
            /\ WF_vars(PopStep)

FairSpec == Spec /\ Fairness

-----------------------------------------------------------------------------
InFlightAt == {"lookup", "alloc", "return", "msg", "flag"}

TypeOK ==
    /\ post_index \in Nat /\ get_index \in Nat /\ allocs \in Nat
    /\ page_indexes \in [Rings -> Nat \cup {NULL}]
    /\ DOMAIN heap \subseteq Nat
    /\ \A id \in DOMAIN heap : heap[id] \in Pages
    /\ pc \in [Producers -> {"idle", "check", "claim"} \cup InFlightAt]
    /\ seen \in [Producers -> Nat]
    /\ idx \in [Producers -> Nat]
    /\ page \in [Producers -> Nat \cup {NULL}]
    /\ sent \in [Producers -> Nat]
    /\ cpc \in {"idle", "lookup", "alloc", "return", "flag", "copy", "delete",
                "unlink", "advance"}
    /\ cpage \in Nat \cup {NULL}
    /\ cmsg \in Msgs \cup {NULL}
    /\ tickets \in Seq(Msgs)
    /\ delivered \in Seq(Msgs \cup {NULL})

\* No push() or pop() dereferences NULL or a page that was freed: the pointer
\* get_msg_page returned stays valid up to the last access made through it.
NoDanglingAccess ==
    /\ \A p \in Producers : pc[p] \in {"msg", "flag"} => page[p] \in DOMAIN heap
    /\ cpc \in {"flag", "copy", "delete"} => cpage \in DOMAIN heap

\* pop() returns exactly the messages whose push() claimed an index, each once
\* and unaltered, in the order of the claims: nothing is lost, duplicated,
\* overwritten before it is read, or reordered between the producers.
DeliveredInClaimOrder == delivered = SubSeq(tickets, 1, get_index)

\* Two pages of one ring position are never in use at once: the newest claimed
\* index lies less than PageIndexCount pages ahead of the one being read.
NoWrapAround ==
    post_index > 0 => PageNo(post_index - 1) < PageNo(get_index) + PageIndexCount

\* Freed pages are never reachable, and no live page is unreachable: pages are
\* neither leaked nor freed twice.
PagesAccounted ==
    LET linked == {page_indexes[k] : k \in Rings} \ {NULL}
        dying == IF cpc = "unlink" THEN {cpage} ELSE {}
    IN DOMAIN heap = linked \ dying

\* Every claimed index is eventually popped: a claimed cell that is filled late
\* delays the messages behind it but never wedges the queue.
EventuallyPopped ==
    \A i \in 0..(Cardinality(Producers) * MaxPush - 1) : (post_index > i) ~> (get_index > i)

\* The cells between get_index and post_index as the FIFO a caller sees: a cell
\* is ready once its push() has stored the flag.
Waiting ==
    [j \in 1..(post_index - get_index) |->
        [msg |-> tickets[get_index + j],
         ready |-> \A p \in Producers :
                      ~(pc[p] \in InFlightAt /\ idx[p] = get_index + j - 1)]]

F == INSTANCE MpscFifo WITH Message <- Producers \X (1..MaxPush),
                            Capacity <- PageIndexCount * PageMsgCount,
                            queue <- Waiting, out <- delivered

\* The paged ring implements the bounded FIFO of MpscFifo: a claim reserves the
\* next place, the store of the flag fills it, and pop() delivers only the
\* oldest place and only when it is filled.
ImplementsFifo == F!FifoSpec
=============================================================================
