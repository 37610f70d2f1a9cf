--------------------------- MODULE MessageServer ---------------------------
(***************************************************************************)
(* eco's MessageServer over its bounded MessageQueue: producers post, a    *)
(* pool of worker threads pops and handles, stop closes the queue and      *)
(* joins the pool.  One mutex guards the deque; m_empty_cond_var and       *)
(* m_full_cond_var are waited on under it.  An action is one stretch that  *)
(* a thread runs while it has the mutex, up to its release or its wait.    *)
(* (libeco/src has a second copy of these classes.)                        *)
(*                                                                         *)
(* A message is the number of its post; KeyOf is what a UniqueChecker      *)
(* compares.                                                               *)
(***************************************************************************)
EXTENDS Integers, Sequences, FiniteSets

CONSTANTS Producers, Workers,
          Keys,        \* what post_unique's checkers tell apart
          Capacity,    \* m_capacity, set before the server runs
          ReleaseOpen, \* assume: release is called on an open queue only
          MaxPosts,    \* bound: messages posted
          MaxRuns      \* bound: calls of run()

ASSUME ServerAssumption ==
    /\ IsFiniteSet(Producers) /\ IsFiniteSet(Workers)
    /\ Keys # {} /\ Capacity \in Nat \ {0}
    /\ {MaxPosts, MaxRuns} \subseteq Nat
    /\ ReleaseOpen \in BOOLEAN

NoMsg == 0
Msgs == 1..MaxPosts

VARIABLES
    m_deque,   \* messages waiting
    open,      \* m_state is _ok
    ppc, pmsg, \* a producer: "idle", "asleep" or "woken" in post, with its message
    wpc, wmsg, \* a worker: "gone", "ready" to pop, "asleep", "woken", "busy"
    posted,    \* ghost: number of posts
    post,      \* ghost: how each message was posted, and with which key
    ended,     \* ghost: messages "handled", "replaced" or "dropped" by release
    stage,     \* the owner: "new", "running", "joining", "stopped"
    runs

prodVars == <<ppc, pmsg, posted, post>>
workVars == <<wpc, wmsg>>
ownerVars == <<open, stage, runs>>
vars == <<m_deque, prodVars, workVars, ended, ownerVars>>

Init ==
    /\ m_deque = <<>> /\ open = TRUE
    /\ ppc = [p \in Producers |-> "idle"] /\ pmsg = [p \in Producers |-> NoMsg]
    /\ wpc = [w \in Workers |-> "gone"] /\ wmsg = [w \in Workers |-> NoMsg]
    /\ posted = 0
    /\ post = [m \in Msgs |-> [unique |-> FALSE, key |-> CHOOSE k \in Keys : TRUE]]
    /\ ended = [m \in Msgs |-> "no"]
    /\ stage = "new" /\ runs = 0

Asleep(pc) == {t \in DOMAIN pc : pc[t] = "asleep"}
Woken(pc) == {t \in DOMAIN pc : pc[t] = "woken"}

\* where message m is
InDeque(m) == \E i \in DOMAIN m_deque : m_deque[i] = m
Blocked(m) == \E p \in Producers : pmsg[p] = m
InHand(m) == \E w \in Workers : wmsg[w] = m

IsFull == Len(m_deque) = Capacity

\* pc' after notify_one: some sleeper, if there is one, is woken
NotifyOne(pc, pcNext) ==
    IF Asleep(pc) = {} THEN pcNext = pc
    ELSE \E t \in Asleep(pc) : pcNext = [pc EXCEPT ![t] = "woken"]

NotifyAll(pc) == [t \in DOMAIN pc |-> IF pc[t] = "asleep" THEN "woken" ELSE pc[t]]

-----------------------------------------------------------------------------
(* post and post_unique                                                    *)

\* a message with the key of m, if the deque has one
SameKey(k) == {i \in DOMAIN m_deque : post[m_deque[i]].key = k}

\* push_back, then m_empty_cond_var.notify_one
Push(p, m) ==
    /\ m_deque' = Append(m_deque, m)
    /\ NotifyOne(wpc, wpc')
    /\ ppc' = [ppc EXCEPT ![p] = "idle"]
    /\ pmsg' = [pmsg EXCEPT ![p] = NoMsg]
    /\ UNCHANGED <<wmsg, ended, ownerVars>>

\* while (is_full()) m_full_cond_var.wait()
Block(p, m) ==
    /\ ppc' = [ppc EXCEPT ![p] = "asleep"]
    /\ pmsg' = [pmsg EXCEPT ![p] = m]
    /\ UNCHANGED <<m_deque, workVars, ended, ownerVars>>

NewPost(p, u, k) ==
    /\ ppc[p] = "idle" /\ posted < MaxPosts
    /\ posted' = posted + 1
    /\ post' = [post EXCEPT ![posted + 1] = [unique |-> u, key |-> k]]
    /\ u => SameKey(k) = {}

PostAtOnce(p, u, k) ==
    /\ NewPost(p, u, k) /\ ~IsFull
    /\ Push(p, posted + 1)

PostBlocks(p, u, k) ==
    /\ NewPost(p, u, k) /\ IsFull
    /\ Block(p, posted + 1)

\* post_unique finds the key: the first such message is overwritten in place
PostReplaces(p, k) ==
    /\ ppc[p] = "idle" /\ posted < MaxPosts
    /\ \E i \in SameKey(k) :
        /\ \A j \in SameKey(k) : i <= j
        /\ m_deque' = [m_deque EXCEPT ![i] = posted + 1]
        /\ ended' = [ended EXCEPT ![m_deque[i]] = "replaced"]
    /\ posted' = posted + 1
    /\ post' = [post EXCEPT ![posted + 1] = [unique |-> TRUE, key |-> k]]
    /\ UNCHANGED <<ppc, pmsg, workVars, ownerVars>>

\* mutant: if (is_full()) instead of while
PostResumesUnchecked(p) ==
    /\ ppc[p] = "woken"
    /\ Push(p, pmsg[p])
    /\ UNCHANGED <<posted, post>>

\* back from wait(): the condition is tested again, the key is not
PostResumes(p) ==
    /\ ppc[p] = "woken"
    /\ IF IsFull THEN Block(p, pmsg[p]) ELSE Push(p, pmsg[p])
    /\ UNCHANGED <<posted, post>>

\* either condition variable may wake a waiter for no reason
Spurious ==
    /\ \/ \E p \in Asleep(ppc) : ppc' = [ppc EXCEPT ![p] = "woken"] /\ wpc' = wpc
       \/ \E w \in Asleep(wpc) : wpc' = [wpc EXCEPT ![w] = "woken"] /\ ppc' = ppc
    /\ UNCHANGED <<m_deque, pmsg, posted, post, wmsg, ended, ownerVars>>

-----------------------------------------------------------------------------
(* work: pop and the handler                                               *)

\* mutant: pop does not notify m_full_cond_var
PopSilently(w) ==
    /\ wpc[w] \in {"ready", "woken"} /\ m_deque # <<>>
    /\ m_deque' = Tail(m_deque)
    /\ wpc' = [wpc EXCEPT ![w] = "busy"]
    /\ wmsg' = [wmsg EXCEPT ![w] = Head(m_deque)]
    /\ UNCHANGED <<prodVars, ended, ownerVars>>

Pop(w) ==
    /\ wpc[w] \in {"ready", "woken"} /\ m_deque # <<>>
    /\ m_deque' = Tail(m_deque)
    /\ wpc' = [wpc EXCEPT ![w] = "busy"]
    /\ wmsg' = [wmsg EXCEPT ![w] = Head(m_deque)]
    /\ NotifyOne(ppc, ppc')
    /\ UNCHANGED <<pmsg, posted, post, ended, ownerVars>>

\* mutant: a closed queue is noticed only on the way in
PopEmptySleeps(w) ==
    /\ wpc[w] \in {"ready", "woken"} /\ m_deque = <<>>
    /\ wpc' = [wpc EXCEPT ![w] = IF open \/ wpc[w] = "woken" THEN "asleep" ELSE "gone"]
    /\ UNCHANGED <<m_deque, prodVars, wmsg, ended, ownerVars>>

\* an empty queue: wait, or leave when it is closed
PopEmpty(w) ==
    /\ wpc[w] \in {"ready", "woken"} /\ m_deque = <<>>
    /\ wpc' = [wpc EXCEPT ![w] = IF open THEN "asleep" ELSE "gone"]
    /\ UNCHANGED <<m_deque, prodVars, wmsg, ended, ownerVars>>

\* the handler returns or throws: it is over for this message
Handled(w) ==
    /\ wpc[w] = "busy"
    /\ ended' = [ended EXCEPT ![wmsg[w]] = "handled"]
    /\ wmsg' = [wmsg EXCEPT ![w] = NoMsg]
    /\ wpc' = [wpc EXCEPT ![w] = "ready"]
    /\ UNCHANGED <<m_deque, prodVars, ownerVars>>

-----------------------------------------------------------------------------
(* run, stop and release: "not thread safe", so called by one owner        *)

Run ==
    /\ stage \in {"new", "stopped"} /\ runs < MaxRuns
    /\ open' = TRUE
    /\ wpc' = [w \in Workers |-> "ready"]
    /\ stage' = "running" /\ runs' = runs + 1
    /\ UNCHANGED <<m_deque, prodVars, wmsg, ended>>

\* close, under the mutex: a queue that is closed already notifies nobody
CloseQueue ==
    /\ stage # "joining"
    /\ open' = FALSE
    /\ wpc' = IF open THEN NotifyAll(wpc) ELSE wpc
    /\ ppc' = IF open THEN NotifyAll(ppc) ELSE ppc
    /\ stage' = "joining"
    /\ UNCHANGED <<pmsg, posted, post, wmsg, runs>>

Stop ==
    /\ CloseQueue
    /\ UNCHANGED <<m_deque, ended>>

\* mutant: the deque is cleared after its messages were handed to the workers
ReleaseForgets ==
    /\ CloseQueue
    /\ ReleaseOpen => open
    /\ m_deque' = <<>>
    /\ UNCHANGED ended

\* the messages that wait are dropped, then the queue is closed
Release ==
    /\ CloseQueue
    /\ ReleaseOpen => open
    /\ m_deque' = <<>>
    /\ ended' = [m \in Msgs |-> IF InDeque(m) THEN "dropped" ELSE ended[m]]

\* join returns when every worker has
Joined ==
    /\ stage = "joining"
    /\ \A w \in Workers : wpc[w] = "gone"
    /\ stage' = "stopped"
    /\ UNCHANGED <<m_deque, prodVars, workVars, ended, open, runs>>

WorkerStep(w) == Pop(w) \/ PopEmpty(w) \/ Handled(w)

Next ==
    \/ \E p \in Producers :
        \/ \E u \in BOOLEAN, k \in Keys : PostAtOnce(p, u, k) \/ PostBlocks(p, u, k)
        \/ \E k \in Keys : PostReplaces(p, k)
        \/ PostResumes(p)
    \/ Spurious
    \/ \E w \in Workers : WorkerStep(w)
    \/ Run \/ Stop \/ Release \/ Joined

Spec == Init /\ [][Next]_vars

\* Threads that can run do, handlers return, join sees its threads end.
\* Nobody has to post, to run or to stop the server.
FairSpec ==
    /\ Spec
    /\ \A p \in Producers : WF_vars(PostResumes(p))
    /\ \A w \in Workers : WF_vars(WorkerStep(w))
    /\ WF_vars(Joined)

-----------------------------------------------------------------------------
ProducerStates == {"idle", "asleep", "woken"}
WorkerStates == {"gone", "ready", "asleep", "woken", "busy"}

\* Every variable of the queue, its threads and its owner keeps its type.
TypeOK ==
    /\ m_deque \in Seq(Msgs)
    /\ ppc \in [Producers -> ProducerStates] /\ pmsg \in [Producers -> Msgs \cup {NoMsg}]
    /\ wpc \in [Workers -> WorkerStates] /\ wmsg \in [Workers -> Msgs \cup {NoMsg}]
    /\ posted \in 0..MaxPosts
    /\ post \in [Msgs -> [unique : BOOLEAN, key : Keys]]
    /\ ended \in [Msgs -> {"no", "handled", "replaced", "dropped"}]
    /\ open \in BOOLEAN /\ stage \in {"new", "running", "joining", "stopped"}
    /\ runs \in Nat

\* Every message posted is in one place: with its blocked producer, in the
\* deque, with one worker, or at its end (handled, replaced by a later unique
\* post, dropped by release).  No message is lost or handled twice, whatever
\* producers, workers, stop and release do at the same time.
Accounted ==
    /\ \A m \in Msgs :
          /\ m <= posted <=> InDeque(m) \/ Blocked(m) \/ InHand(m) \/ ended[m] # "no"
          /\ InDeque(m) => ~Blocked(m) /\ ~InHand(m) /\ ended[m] = "no"
          /\ Blocked(m) => ~InHand(m) /\ ended[m] = "no"
          /\ InHand(m) => ended[m] = "no"
    /\ \A i, j \in DOMAIN m_deque : m_deque[i] = m_deque[j] => i = j
    /\ \A p, q \in Producers : pmsg[p] = pmsg[q] => p = q \/ pmsg[p] = NoMsg
    /\ \A w, v \in Workers : wmsg[w] = wmsg[v] => w = v \/ wmsg[w] = NoMsg

\* No wake-up is lost, and the deque keeps to its capacity: while a worker
\* sleeps, every message in the deque has a worker that was woken for it; while
\* a producer sleeps, so has every free place.
WakeUpsSuffice ==
    /\ Len(m_deque) <= Capacity
    /\ Asleep(wpc) # {} => Len(m_deque) <= Cardinality(Woken(wpc))
    /\ Asleep(ppc) # {} => Capacity - Len(m_deque) <= Cardinality(Woken(ppc))

\* While the server runs or is being stopped, a message in the deque comes out
\* of it and a blocked producer gets on; only a server whose workers have left
\* keeps them.
EventuallyServed ==
    /\ \A m \in Msgs : InDeque(m) ~> (~InDeque(m) \/ stage \in {"new", "stopped"})
    /\ \A p \in Producers : (ppc[p] # "idle") ~> (ppc[p] = "idle" \/ stage \in {"new", "stopped"})

\* stop and release return: the workers see the closed queue, also those that
\* sleep or are busy when it is closed.
StopReturns == stage = "joining" ~> stage = "stopped"

\* post_unique "ensure[s] that this message is unique": no two of its messages
\* with the same key are in the deque.  Does not hold: raw_post may wait after
\* the search.
UniqueStaysUnique ==
    \A i, j \in DOMAIN m_deque :
        (/\ post[m_deque[i]].unique /\ post[m_deque[j]].unique
         /\ post[m_deque[i]].key = post[m_deque[j]].key) => i = j
=============================================================================
