------------------------ MODULE MessageServerProofs ------------------------
(***************************************************************************)
(* For any producers, workers, capacity and number of messages: a          *)
(* MessageServer loses and repeats no message, and loses no wake-up, if    *)
(* release is called on an open queue only.                                *)
(*                                                                         *)
(* WakeUpsSuffice is inductive with the types of the queue and of the      *)
(* program counters; Accounted needs HandsOK, which says when a thread has *)
(* a message in its hands.                                                 *)
(***************************************************************************)
EXTENDS MessageServer, TLAPS, FiniteSetTheorems, SequenceTheorems

\* A producer has a message exactly while it is in post, a worker exactly
\* while it handles one; no worker is there before run and after join.
HandsOK ==
    /\ \A p \in Producers : pmsg[p] = NoMsg <=> ppc[p] = "idle"
    /\ \A w \in Workers : wmsg[w] = NoMsg <=> wpc[w] # "busy"
    /\ stage \in {"new", "stopped"} => \A w \in Workers : wpc[w] = "gone"

-----------------------------------------------------------------------------
(* Waking threads                                                          *)

\* What notify_one does, as a change of one entry or none.
LEMMA NotifyOneFacts ==
    ASSUME NEW T, NEW S, "woken" \in S, NEW pc \in [T -> S], NEW next, NotifyOne(pc, next)
    PROVE  /\ next \in [T -> S]
           /\ \A t \in T : next[t] = pc[t] \/ (pc[t] = "asleep" /\ next[t] = "woken")
BY DEF NotifyOne, Asleep

LEMMA NotifyAllFacts ==
    ASSUME NEW T, NEW S, "woken" \in S, NEW pc \in [T -> S]
    PROVE  /\ NotifyAll(pc) \in [T -> S]
           /\ \A t \in T : NotifyAll(pc)[t] = (IF pc[t] = "asleep" THEN "woken" ELSE pc[t])
           /\ Asleep(NotifyAll(pc)) = {}
BY DEF NotifyAll, Asleep

LEMMA WokenFinite ==
    ASSUME NEW T, IsFiniteSet(T), NEW S, NEW pc \in [T -> S]
    PROVE  IsFiniteSet(Woken(pc)) /\ Cardinality(Woken(pc)) \in Nat
<1>1. Woken(pc) \in SUBSET T
    BY DEF Woken
<1>2. IsFiniteSet(Woken(pc))
    BY <1>1, FS_Subset
<1>. QED
    BY <1>2, FS_CardinalityType

\* notify_one with a sleeper there makes one more thread woken.
LEMMA NotifyOneWakes ==
    ASSUME NEW T, IsFiniteSet(T), NEW S, NEW pc \in [T -> S], NEW next,
           NotifyOne(pc, next), Asleep(pc) # {}
    PROVE  Cardinality(Woken(next)) = Cardinality(Woken(pc)) + 1
<1>1. PICK t \in Asleep(pc) : next = [pc EXCEPT ![t] = "woken"]
    BY DEF NotifyOne
<1>2. t \in T /\ t \notin Woken(pc)
    BY <1>1 DEF Asleep, Woken
<1>3. Woken(next) = Woken(pc) \cup {t}
    BY <1>1, <1>2 DEF Woken
<1>. QED
    BY <1>2, <1>3, WokenFinite, FS_AddElement

\* notify_one without a sleeper changes nothing.
LEMMA NotifyOneIdle ==
    ASSUME NEW pc, NEW next, NotifyOne(pc, next), Asleep(pc) = {}
    PROVE  next = pc
BY DEF NotifyOne

\* A thread that goes to a state other than "woken" takes at most one from
\* the woken ones, and none if it was not among them.
LEMMA OneLessWoken ==
    ASSUME NEW T, IsFiniteSet(T), NEW S, NEW pc \in [T -> S], NEW t \in T, NEW x, x # "woken"
    PROVE  LET next == [pc EXCEPT ![t] = x] IN
           /\ Cardinality(Woken(next)) >= Cardinality(Woken(pc)) - 1
           /\ pc[t] # "woken" => Woken(next) = Woken(pc)
           /\ x # "asleep" => Asleep(next) \subseteq Asleep(pc)
<1>. DEFINE next == [pc EXCEPT ![t] = x]
<1>1. Woken(next) = Woken(pc) \ {t}
    BY DEF Woken
<1>2. Cardinality(Woken(next)) >= Cardinality(Woken(pc)) - 1
  <2>1. IsFiniteSet(Woken(pc)) /\ Cardinality(Woken(pc)) \in Nat
    BY WokenFinite
  <2>2. Cardinality(Woken(pc) \ {t}) = IF t \in Woken(pc) THEN Cardinality(Woken(pc)) - 1
                                      ELSE Cardinality(Woken(pc))
    BY <2>1, FS_RemoveElement
  <2>. HIDE DEF next
  <2>. QED
    BY <1>1, <2>1, <2>2
<1>3. pc[t] # "woken" => Woken(next) = Woken(pc)
    BY DEF Woken
<1>4. x # "asleep" => Asleep(next) \subseteq Asleep(pc)
    BY DEF Asleep
<1>. QED
    BY <1>2, <1>3, <1>4

-----------------------------------------------------------------------------
(* Wake-ups                                                                *)

PcOK ==
    /\ m_deque \in Seq(Msgs)
    /\ ppc \in [Producers -> ProducerStates]
    /\ wpc \in [Workers -> WorkerStates]

LEMMA TypeGivesPcOK == TypeOK => PcOK
BY DEF TypeOK, PcOK

\* push_back with its notify_one, by a producer that had not blocked or that
\* was woken
LEMMA PushWakes ==
    ASSUME ServerAssumption, PcOK, WakeUpsSuffice, NEW p \in Producers, NEW m,
           ppc[p] \in {"idle", "woken"}, ~IsFull, Push(p, m)
    PROVE  WakeUpsSuffice'
<1>1. Len(m_deque) \in Nat /\ Capacity \in Nat /\ Len(m_deque') = Len(m_deque) + 1
    BY DEF PcOK, Push, ServerAssumption
<1>2. Len(m_deque') <= Capacity
    BY <1>1 DEF WakeUpsSuffice, IsFull
<1>3. Asleep(wpc') # {} => Len(m_deque') <= Cardinality(Woken(wpc'))
  <2>1. NotifyOne(wpc, wpc')
    BY DEF Push
  <2>2. CASE Asleep(wpc) = {}
    BY <2>1, <2>2, NotifyOneIdle
  <2>3. CASE Asleep(wpc) # {}
    <3>1. Cardinality(Woken(wpc')) = Cardinality(Woken(wpc)) + 1
        BY <2>1, <2>3, NotifyOneWakes DEF PcOK, ServerAssumption
    <3>2. Cardinality(Woken(wpc)) \in Nat
        BY WokenFinite DEF PcOK, ServerAssumption
    <3>. QED
        BY <1>1, <2>3, <3>1, <3>2 DEF WakeUpsSuffice
  <2>. QED
    BY <2>2, <2>3
<1>4. Asleep(ppc') # {} => Capacity - Len(m_deque') <= Cardinality(Woken(ppc'))
  <2>1. ppc' = [ppc EXCEPT ![p] = "idle"]
    BY DEF Push
  <2>2. /\ Cardinality(Woken(ppc')) >= Cardinality(Woken(ppc)) - 1
        /\ Asleep(ppc') \subseteq Asleep(ppc)
    BY <2>1, OneLessWoken DEF PcOK, ServerAssumption
  <2>3. Cardinality(Woken(ppc)) \in Nat
    BY WokenFinite DEF PcOK, ServerAssumption
  <2>4. Cardinality(Woken(ppc')) \in Nat
    BY <2>1, WokenFinite DEF PcOK, ServerAssumption, ProducerStates
  <2>. QED
    BY <1>1, <2>2, <2>3, <2>4 DEF WakeUpsSuffice
<1>. QED
    BY <1>2, <1>3, <1>4 DEF WakeUpsSuffice

\* a producer that finds the queue full, again or for the first time
LEMMA BlockWakes ==
    ASSUME ServerAssumption, PcOK, WakeUpsSuffice, NEW p \in Producers, NEW m,
           IsFull, Block(p, m)
    PROVE  WakeUpsSuffice'
<1>1. m_deque' = m_deque /\ wpc' = wpc /\ ppc' = [ppc EXCEPT ![p] = "asleep"]
    BY DEF Block, workVars
<1>2. Cardinality(Woken(ppc')) \in Nat
    BY <1>1, WokenFinite DEF PcOK, ServerAssumption, ProducerStates
<1>. QED
    BY <1>1, <1>2 DEF WakeUpsSuffice, IsFull, PcOK, ServerAssumption

\* pop with its notify_one
LEMMA PopWakes ==
    ASSUME ServerAssumption, PcOK, WakeUpsSuffice, NEW w \in Workers, Pop(w)
    PROVE  WakeUpsSuffice'
<1>1. Len(m_deque) \in Nat /\ Capacity \in Nat /\ Len(m_deque') = Len(m_deque) - 1
    BY DEF PcOK, Pop, ServerAssumption
<1>2. Len(m_deque') <= Capacity
    BY <1>1 DEF WakeUpsSuffice
<1>3. Asleep(wpc') # {} => Len(m_deque') <= Cardinality(Woken(wpc'))
  <2>1. wpc' = [wpc EXCEPT ![w] = "busy"]
    BY DEF Pop
  <2>2. /\ Cardinality(Woken(wpc')) >= Cardinality(Woken(wpc)) - 1
        /\ Asleep(wpc') \subseteq Asleep(wpc)
    BY <2>1, OneLessWoken DEF PcOK, ServerAssumption
  <2>3. Cardinality(Woken(wpc)) \in Nat
    BY WokenFinite DEF PcOK, ServerAssumption
  <2>4. Cardinality(Woken(wpc')) \in Nat
    BY <2>1, WokenFinite DEF PcOK, ServerAssumption, WorkerStates
  <2>. QED
    BY <1>1, <2>2, <2>3, <2>4 DEF WakeUpsSuffice
<1>4. Asleep(ppc') # {} => Capacity - Len(m_deque') <= Cardinality(Woken(ppc'))
  <2>1. NotifyOne(ppc, ppc')
    BY DEF Pop
  <2>2. CASE Asleep(ppc) = {}
    BY <2>1, <2>2, NotifyOneIdle
  <2>3. CASE Asleep(ppc) # {}
    <3>1. Cardinality(Woken(ppc')) = Cardinality(Woken(ppc)) + 1
        BY <2>1, <2>3, NotifyOneWakes DEF PcOK, ServerAssumption
    <3>2. Cardinality(Woken(ppc)) \in Nat
        BY WokenFinite DEF PcOK, ServerAssumption
    <3>. QED
        BY <1>1, <2>3, <3>1, <3>2 DEF WakeUpsSuffice
  <2>. QED
    BY <2>2, <2>3
<1>. QED
    BY <1>2, <1>3, <1>4 DEF WakeUpsSuffice

\* a wake-up without a notification only helps
LEMMA SpuriousWakes ==
    ASSUME ServerAssumption, PcOK, WakeUpsSuffice, Spurious
    PROVE  WakeUpsSuffice'
<1>1. ASSUME NEW T, IsFiniteSet(T), NEW S, NEW pc \in [T -> S], NEW t \in Asleep(pc),
             NEW next, next = [pc EXCEPT ![t] = "woken"]
      PROVE  /\ Cardinality(Woken(next)) = Cardinality(Woken(pc)) + 1
             /\ Cardinality(Woken(pc)) \in Nat
             /\ Asleep(pc) # {}
    BY <1>1, NotifyOneWakes, WokenFinite DEF NotifyOne
<1>2. Len(m_deque) \in Nat /\ Capacity \in Nat /\ m_deque' = m_deque
    BY DEF PcOK, ServerAssumption, Spurious
<1>3. ASSUME NEW p \in Asleep(ppc), ppc' = [ppc EXCEPT ![p] = "woken"], wpc' = wpc
      PROVE  WakeUpsSuffice'
  <2>1. /\ Cardinality(Woken(ppc')) = Cardinality(Woken(ppc)) + 1
        /\ Cardinality(Woken(ppc)) \in Nat /\ Asleep(ppc) # {}
    BY <1>1, <1>3 DEF PcOK, ServerAssumption
  <2>. QED
    BY <1>2, <1>3, <2>1 DEF WakeUpsSuffice
<1>4. ASSUME NEW w \in Asleep(wpc), wpc' = [wpc EXCEPT ![w] = "woken"], ppc' = ppc
      PROVE  WakeUpsSuffice'
  <2>1. /\ Cardinality(Woken(wpc')) = Cardinality(Woken(wpc)) + 1
        /\ Cardinality(Woken(wpc)) \in Nat /\ Asleep(wpc) # {}
    BY <1>1, <1>4 DEF PcOK, ServerAssumption
  <2>. QED
    BY <1>2, <1>4, <2>1 DEF WakeUpsSuffice
<1>. QED
    BY <1>3, <1>4 DEF Spurious

\* the other steps of a worker
LEMMA WorkerWakes ==
    ASSUME ServerAssumption, PcOK, WakeUpsSuffice, NEW w \in Workers, PopEmpty(w) \/ Handled(w)
    PROVE  WakeUpsSuffice'
<1>1. CASE PopEmpty(w)
  <2>1. m_deque' = <<>> /\ m_deque = <<>> /\ ppc' = ppc
    BY <1>1 DEF PopEmpty, prodVars
  <2>2. PICK x \in WorkerStates : wpc' = [wpc EXCEPT ![w] = x]
    BY <1>1 DEF PopEmpty, WorkerStates
  <2>3. Cardinality(Woken(wpc')) \in Nat
    BY <2>2, WokenFinite DEF PcOK, ServerAssumption
  <2>. QED
    BY <2>1, <2>3 DEF WakeUpsSuffice, ServerAssumption
<1>2. CASE Handled(w)
  <2>1. m_deque' = m_deque /\ ppc' = ppc /\ wpc[w] = "busy" /\ wpc' = [wpc EXCEPT ![w] = "ready"]
    BY <1>2 DEF Handled, prodVars
  <2>2. Woken(wpc') = Woken(wpc) /\ Asleep(wpc') \subseteq Asleep(wpc)
    BY <2>1 DEF Woken, Asleep, PcOK
  <2>. QED
    BY <2>1, <2>2 DEF WakeUpsSuffice
<1>. QED
    BY <1>1, <1>2

\* run starts workers that are awake; close and release wake everybody
LEMMA OwnerWakes ==
    ASSUME ServerAssumption, ReleaseOpen, PcOK, WakeUpsSuffice, Run \/ Stop \/ Release \/ Joined
    PROVE  WakeUpsSuffice'
<1>1. CASE Run
  <2>1. Asleep(wpc') = {} /\ m_deque' = m_deque /\ ppc' = ppc
    BY <1>1 DEF Run, Asleep, prodVars
  <2>. QED
    BY <2>1 DEF WakeUpsSuffice
<1>2. CASE CloseQueue /\ open
  <2>1. Asleep(wpc') = {} /\ Asleep(ppc') = {}
    <3>1. wpc' = NotifyAll(wpc) /\ ppc' = NotifyAll(ppc)
        BY <1>2 DEF CloseQueue
    <3>2. Asleep(NotifyAll(wpc)) = {}
        BY DEF NotifyAll, Asleep
    <3>3. Asleep(NotifyAll(ppc)) = {}
        BY DEF NotifyAll, Asleep
    <3>. QED
        BY <3>1, <3>2, <3>3
  <2>2. CASE m_deque' = m_deque
    BY <2>1, <2>2 DEF WakeUpsSuffice
  <2>3. CASE m_deque' = <<>>
    BY <2>1, <2>3 DEF WakeUpsSuffice, ServerAssumption
  <2>4. (Stop \/ Release) => (m_deque' = m_deque \/ m_deque' = <<>>)
    BY DEF Stop, Release
  <2>5. Stop \/ Release
    BY <1>2 DEF Run, Joined, CloseQueue
  <2>. QED
    BY <2>2, <2>3, <2>4, <2>5
<1>3. CASE Stop /\ ~open
    BY <1>3 DEF Stop, CloseQueue, WakeUpsSuffice
<1>4. CASE Joined
    BY <1>4 DEF Joined, WakeUpsSuffice, prodVars, workVars
<1>. QED
    BY <1>1, <1>2, <1>3, <1>4 DEF Stop, Release

LEMMA StepWakes ==
    ASSUME ServerAssumption, ReleaseOpen, TypeOK, WakeUpsSuffice, [Next]_vars
    PROVE  WakeUpsSuffice'
<1>. USE TypeGivesPcOK
<1>0. posted < MaxPosts => posted + 1 \in Msgs
    BY DEF TypeOK, Msgs, ServerAssumption
<1>1. ASSUME NEW p \in Producers, NEW u \in BOOLEAN, NEW k \in Keys,
             PostAtOnce(p, u, k) \/ PostBlocks(p, u, k)
      PROVE  WakeUpsSuffice'
    BY <1>0, <1>1, PushWakes, BlockWakes DEF PostAtOnce, PostBlocks, NewPost
<1>2. ASSUME NEW p \in Producers, NEW k \in Keys, PostReplaces(p, k)
      PROVE  WakeUpsSuffice'
  <2>1. Len(m_deque') = Len(m_deque) /\ ppc' = ppc /\ wpc' = wpc
    BY <1>2 DEF PostReplaces, PcOK, workVars
  <2>. QED
    BY <2>1 DEF WakeUpsSuffice
<1>3. ASSUME NEW p \in Producers, PostResumes(p)
      PROVE  WakeUpsSuffice'
  <2>1. CASE IsFull
    <3>1. Block(p, pmsg[p])
        BY <1>3, <2>1 DEF PostResumes
    <3>. QED
        BY <3>1, <2>1, BlockWakes
  <2>2. CASE ~IsFull
    <3>1. Push(p, pmsg[p]) /\ ppc[p] \in {"idle", "woken"}
        BY <1>3, <2>2 DEF PostResumes
    <3>. QED
        BY <3>1, <2>2, PushWakes
  <2>. QED
    BY <2>1, <2>2
<1>4. CASE Spurious
    BY <1>4, SpuriousWakes
<1>5. ASSUME NEW w \in Workers, WorkerStep(w)
      PROVE  WakeUpsSuffice'
    BY <1>5, PopWakes, WorkerWakes DEF WorkerStep
<1>6. CASE Run \/ Stop \/ Release \/ Joined
    BY <1>6, OwnerWakes
<1>7. CASE UNCHANGED vars
    BY <1>7 DEF vars, prodVars, workVars, WakeUpsSuffice
<1>. QED
    BY <1>1, <1>2, <1>3, <1>4, <1>5, <1>6, <1>7 DEF Next

-----------------------------------------------------------------------------
(* Types                                                                   *)

LEMMA InitType == ServerAssumption /\ Init => TypeOK
<1>. SUFFICES ASSUME ServerAssumption, Init PROVE TypeOK
    OBVIOUS
<1>1. (CHOOSE k \in Keys : TRUE) \in Keys
    BY DEF ServerAssumption
<1>2. post \in [Msgs -> [unique : BOOLEAN, key : Keys]]
    BY <1>1 DEF Init
<1>3. open \in BOOLEAN
    BY DEF Init
<1>. QED
    BY <1>2, <1>3 DEF Init, TypeOK, ServerAssumption, ProducerStates, WorkerStates, Msgs, NoMsg

\* Types are kept; that a woken producer has a message is part of HandsOK.
LEMMA StepType ==
    ASSUME ServerAssumption, TypeOK, HandsOK, [Next]_vars
    PROVE  TypeOK'
<1>. USE DEF TypeOK, NoMsg
<1>a. "woken" \in ProducerStates /\ "woken" \in WorkerStates
    BY DEF ProducerStates, WorkerStates
<1>b. NotifyOne(wpc, wpc') => wpc' \in [Workers -> WorkerStates]
    BY <1>a, NotifyOneFacts
<1>c. NotifyOne(ppc, ppc') => ppc' \in [Producers -> ProducerStates]
    BY <1>a, NotifyOneFacts
<1>d. NotifyAll(wpc) \in [Workers -> WorkerStates] /\ NotifyAll(ppc) \in [Producers -> ProducerStates]
    BY <1>a, NotifyAllFacts
<1>0. posted < MaxPosts => posted + 1 \in Msgs /\ posted + 1 \in 0..MaxPosts
    BY DEF Msgs, ServerAssumption
<1>1. ASSUME NEW p \in Producers, NEW m \in Msgs, Push(p, m)
      PROVE  /\ m_deque' \in Seq(Msgs)
             /\ ppc' \in [Producers -> ProducerStates] /\ pmsg' \in [Producers -> Msgs \cup {NoMsg}]
             /\ wpc' \in [Workers -> WorkerStates] /\ UNCHANGED <<wmsg, ended, ownerVars>>
    BY <1>1, <1>b DEF Push, ProducerStates
<1>2. ASSUME NEW p \in Producers, NEW m \in Msgs, Block(p, m)
      PROVE  /\ ppc' \in [Producers -> ProducerStates] /\ pmsg' \in [Producers -> Msgs \cup {NoMsg}]
             /\ UNCHANGED <<m_deque, workVars, ended, ownerVars>>
    BY <1>2 DEF Block, ProducerStates
<1>3. ASSUME NEW p \in Producers, NEW u \in BOOLEAN, NEW k \in Keys, NewPost(p, u, k)
      PROVE  /\ posted + 1 \in Msgs /\ posted' \in 0..MaxPosts
             /\ post' \in [Msgs -> [unique : BOOLEAN, key : Keys]]
  <2>1. posted + 1 \in Msgs /\ posted' \in 0..MaxPosts
    BY <1>0, <1>3 DEF NewPost
  <2>2. [unique |-> u, key |-> k] \in [unique : BOOLEAN, key : Keys]
    OBVIOUS
  <2>. QED
    BY <1>3, <2>1, <2>2 DEF NewPost
<1>4. ASSUME NEW p \in Producers, NEW u \in BOOLEAN, NEW k \in Keys, PostAtOnce(p, u, k)
      PROVE  TypeOK'
    BY <1>1, <1>3, <1>4 DEF PostAtOnce, ownerVars
<1>5. ASSUME NEW p \in Producers, NEW u \in BOOLEAN, NEW k \in Keys, PostBlocks(p, u, k)
      PROVE  TypeOK'
    BY <1>2, <1>3, <1>5 DEF PostBlocks, ownerVars, workVars
<1>6. ASSUME NEW p \in Producers, NEW k \in Keys, PostReplaces(p, k)
      PROVE  TypeOK'
  <2>1. posted + 1 \in Msgs /\ posted' \in 0..MaxPosts
    BY <1>0, <1>6 DEF PostReplaces
  <2>2. [unique |-> TRUE, key |-> k] \in [unique : BOOLEAN, key : Keys]
    OBVIOUS
  <2>3. post' \in [Msgs -> [unique : BOOLEAN, key : Keys]]
    BY <1>6, <2>1, <2>2 DEF PostReplaces
  <2>4. m_deque' \in Seq(Msgs) /\ ended' \in [Msgs -> {"no", "handled", "replaced", "dropped"}]
    BY <1>6, <2>1 DEF PostReplaces, SameKey
  <2>. QED
    BY <1>6, <2>1, <2>3, <2>4 DEF PostReplaces, workVars, ownerVars
<1>7. ASSUME NEW p \in Producers, PostResumes(p)
      PROVE  TypeOK'
  <2>1. pmsg[p] \in Msgs
    BY <1>7 DEF PostResumes, HandsOK
  <2>2. CASE IsFull
    <3>1. Block(p, pmsg[p]) /\ UNCHANGED <<posted, post>>
        BY <1>7, <2>2 DEF PostResumes
    <3>. QED
        BY <1>2, <2>1, <3>1 DEF workVars, ownerVars
  <2>3. CASE ~IsFull
    <3>1. Push(p, pmsg[p]) /\ UNCHANGED <<posted, post>>
        BY <1>7, <2>3 DEF PostResumes
    <3>. QED
        BY <1>1, <2>1, <3>1 DEF ownerVars
  <2>. QED
    BY <2>2, <2>3
<1>8. CASE Spurious
    BY <1>8 DEF Spurious, Asleep, ownerVars, ProducerStates, WorkerStates
<1>9. ASSUME NEW w \in Workers, Pop(w)
      PROVE  TypeOK'
  <2>1. ppc' \in [Producers -> ProducerStates]
    BY <1>9, <1>c DEF Pop
  <2>2. m_deque' \in Seq(Msgs) /\ Head(m_deque) \in Msgs
    BY <1>9 DEF Pop
  <2>. QED
    BY <1>9, <2>1, <2>2 DEF Pop, ownerVars, WorkerStates
<1>10. ASSUME NEW w \in Workers, PopEmpty(w)
       PROVE  TypeOK'
    BY <1>10 DEF PopEmpty, prodVars, ownerVars, WorkerStates
<1>11. ASSUME NEW w \in Workers, Handled(w)
       PROVE  TypeOK'
    BY <1>11 DEF Handled, prodVars, ownerVars, WorkerStates
<1>12. CASE Run
    BY <1>12 DEF Run, prodVars, WorkerStates
<1>13. ASSUME CloseQueue
       PROVE  /\ wpc' \in [Workers -> WorkerStates] /\ ppc' \in [Producers -> ProducerStates]
              /\ open' \in BOOLEAN /\ stage' = "joining"
              /\ UNCHANGED <<pmsg, posted, post, wmsg, runs>>
    BY <1>13, <1>d DEF CloseQueue
<1>14. CASE Stop
    BY <1>13, <1>14 DEF Stop
<1>15. CASE Release
    BY <1>13, <1>15 DEF Release
<1>16. CASE Joined
    BY <1>16 DEF Joined, prodVars, workVars
<1>17. CASE UNCHANGED vars
    BY <1>17 DEF vars, prodVars, workVars, ownerVars
<1>. QED
    BY <1>4, <1>5, <1>6, <1>7, <1>8, <1>9, <1>10, <1>11, <1>12, <1>14, <1>15, <1>16, <1>17
    DEF Next, WorkerStep

-----------------------------------------------------------------------------
(* Who has a message                                                       *)

LEMMA InitHands == Init => HandsOK
BY DEF Init, HandsOK, NoMsg

LEMMA StepHands ==
    ASSUME ServerAssumption, TypeOK, HandsOK, [Next]_vars
    PROVE  HandsOK'
<1>a. /\ "woken" \in ProducerStates /\ "woken" \in WorkerStates
      /\ ppc \in [Producers -> ProducerStates] /\ wpc \in [Workers -> WorkerStates]
    BY DEF ProducerStates, WorkerStates, TypeOK
<1>b. NotifyOne(wpc, wpc') =>
        \A w \in Workers : wpc'[w] = wpc[w] \/ (wpc[w] = "asleep" /\ wpc'[w] = "woken")
    BY <1>a, NotifyOneFacts
<1>c. NotifyOne(ppc, ppc') =>
        \A p \in Producers : ppc'[p] = ppc[p] \/ (ppc[p] = "asleep" /\ ppc'[p] = "woken")
    BY <1>a, NotifyOneFacts
<1>. USE DEF HandsOK, NoMsg, ownerVars, prodVars, workVars
<1>0. posted < MaxPosts => posted + 1 \in Msgs
    BY DEF Msgs, ServerAssumption, TypeOK
<1>1. ASSUME NEW p \in Producers, NEW m \in Msgs, Push(p, m)
      PROVE  HandsOK'
    BY <1>1, <1>b DEF Push, TypeOK
<1>2. ASSUME NEW p \in Producers, NEW m \in Msgs, Block(p, m)
      PROVE  HandsOK'
    BY <1>2 DEF Block, TypeOK, Msgs
<1>3. ASSUME NEW p \in Producers, NEW u \in BOOLEAN, NEW k \in Keys,
             PostAtOnce(p, u, k) \/ PostBlocks(p, u, k)
      PROVE  HandsOK'
    BY <1>0, <1>1, <1>2, <1>3 DEF PostAtOnce, PostBlocks, NewPost
<1>4. ASSUME NEW p \in Producers, NEW k \in Keys, PostReplaces(p, k)
      PROVE  HandsOK'
    BY <1>4 DEF PostReplaces
<1>5. ASSUME NEW p \in Producers, PostResumes(p)
      PROVE  HandsOK'
  <2>1. pmsg[p] \in Msgs
    BY <1>5 DEF PostResumes, TypeOK
  <2>. QED
    BY <1>1, <1>2, <1>5, <2>1 DEF PostResumes
<1>6. CASE Spurious
    BY <1>6 DEF Spurious, Asleep, TypeOK
<1>7. ASSUME NEW w \in Workers, Pop(w)
      PROVE  HandsOK'
  <2>1. Head(m_deque) \in Msgs
    BY <1>7 DEF Pop, TypeOK
  <2>2. Head(m_deque) # 0
    BY <2>1 DEF Msgs
  <2>. QED
    BY <1>7, <1>c, <2>2 DEF Pop, TypeOK
<1>8. ASSUME NEW w \in Workers, PopEmpty(w) \/ Handled(w)
      PROVE  HandsOK'
    BY <1>8 DEF PopEmpty, Handled, TypeOK
<1>9. CASE Run
    BY <1>9 DEF Run
<1>10. CASE CloseQueue
  <2>1. ASSUME NEW w \in Workers PROVE wpc'[w] = wpc[w] \/ (wpc[w] = "asleep" /\ wpc'[w] = "woken")
    BY <1>10 DEF CloseQueue, NotifyAll, TypeOK
  <2>2. ASSUME NEW p \in Producers PROVE ppc'[p] = ppc[p] \/ (ppc[p] = "asleep" /\ ppc'[p] = "woken")
    BY <1>10 DEF CloseQueue, NotifyAll, TypeOK
  <2>. QED
    BY <1>10, <2>1, <2>2 DEF CloseQueue
<1>11. CASE Joined
    BY <1>11 DEF Joined
<1>12. CASE UNCHANGED vars
    BY <1>12 DEF vars
<1>. QED
    BY <1>3, <1>4, <1>5, <1>6, <1>7, <1>8, <1>9, <1>10, <1>11, <1>12
    DEF Next, WorkerStep, Stop, Release

-----------------------------------------------------------------------------
(* No message is lost or handled twice                                     *)

\* A step that moves no message keeps Accounted.
LEMMA UnmovedAccounted ==
    ASSUME Accounted, UNCHANGED <<m_deque, pmsg, wmsg, posted, ended>>
    PROVE  Accounted'
BY DEF Accounted, InDeque, Blocked, InHand

\* The message of a new post is nowhere yet.
LEMMA NewMessage ==
    ASSUME ServerAssumption, TypeOK, Accounted, posted < MaxPosts
    PROVE  /\ posted + 1 \in Msgs /\ ended[posted + 1] = "no"
           /\ ~InDeque(posted + 1) /\ ~Blocked(posted + 1) /\ ~InHand(posted + 1)
<1>1. posted + 1 \in Msgs /\ ~(posted + 1 <= posted)
    BY DEF ServerAssumption, TypeOK, Msgs
<1>. QED
    BY <1>1 DEF Accounted

\* push_back: the message goes from the producer, which has it or has just
\* made it, to the deque.
LEMMA PushAccounted ==
    ASSUME TypeOK, Accounted, NEW p \in Producers, NEW m \in Msgs, Push(p, m),
           pmsg[p] \in {m, NoMsg}, ~InDeque(m), ~InHand(m), ended[m] = "no",
           \A q \in Producers : pmsg[q] = m => q = p,
           posted' \in Int, \A n \in Msgs : n <= posted' <=> n <= posted \/ n = m
    PROVE  Accounted'
<1>1. m_deque' = Append(m_deque, m) /\ m_deque \in Seq(Msgs) /\ Len(m_deque) \in Nat
    BY DEF Push, TypeOK
<1>2. DOMAIN m_deque = 1..Len(m_deque) /\ DOMAIN m_deque' = 1..(Len(m_deque) + 1)
    BY <1>1
<1>3. /\ \A i \in DOMAIN m_deque : i \in DOMAIN m_deque' /\ m_deque'[i] = m_deque[i]
      /\ m_deque'[Len(m_deque) + 1] = m /\ Len(m_deque) + 1 \in DOMAIN m_deque'
      /\ \A i \in DOMAIN m_deque' : i \in DOMAIN m_deque \/ i = Len(m_deque) + 1
    BY <1>1, <1>2
<1>4. ASSUME NEW n \in Msgs PROVE InDeque(n)' <=> InDeque(n) \/ n = m
    BY <1>3 DEF InDeque
<1>5. \A q \in Producers : pmsg'[q] = (IF q = p THEN NoMsg ELSE pmsg[q])
    BY DEF Push, TypeOK
<1>6. ASSUME NEW n \in Msgs PROVE Blocked(n)' <=> Blocked(n) /\ n # m
    BY <1>5 DEF Blocked, NoMsg, Msgs
<1>7. ASSUME NEW n \in Msgs PROVE (InHand(n)' <=> InHand(n)) /\ ended'[n] = ended[n]
    BY DEF InHand, Push
<1>8. \A i, j \in DOMAIN m_deque' : m_deque'[i] = m_deque'[j] => i = j
    BY <1>3 DEF InDeque, Accounted
<1>9. ASSUME NEW n \in Msgs
      PROVE  /\ n <= posted' <=> InDeque(n)' \/ Blocked(n)' \/ InHand(n)' \/ ended'[n] # "no"
             /\ InDeque(n)' => ~Blocked(n)' /\ ~InHand(n)' /\ ended'[n] = "no"
             /\ Blocked(n)' => ~InHand(n)' /\ ended'[n] = "no"
             /\ InHand(n)' => ended'[n] = "no"
    BY <1>4, <1>6, <1>7 DEF Accounted
<1>10. \A q, r \in Producers : pmsg'[q] = pmsg'[r] => q = r \/ pmsg'[q] = NoMsg
    BY <1>5 DEF Accounted
<1>11. \A w, v \in Workers : wmsg'[w] = wmsg'[v] => w = v \/ wmsg'[w] = NoMsg
    BY DEF Accounted, Push
<1>. QED
    BY <1>8, <1>9, <1>10, <1>11 DEF Accounted

\* a producer blocks with the message of its new post
LEMMA BlockAccounted ==
    ASSUME TypeOK, Accounted, NEW p \in Producers, NEW m \in Msgs, Block(p, m), pmsg[p] = NoMsg,
           ~InDeque(m), ~Blocked(m), ~InHand(m), ended[m] = "no",
           posted' \in Int, \A n \in Msgs : n <= posted' <=> n <= posted \/ n = m
    PROVE  Accounted'
<1>1. \A q \in Producers : pmsg'[q] = (IF q = p THEN m ELSE pmsg[q])
    BY DEF Block, TypeOK
<1>2. ASSUME NEW n \in Msgs PROVE Blocked(n)' <=> Blocked(n) \/ n = m
    BY <1>1 DEF Blocked, NoMsg, Msgs
<1>3. ASSUME NEW n \in Msgs
      PROVE  (InDeque(n)' <=> InDeque(n)) /\ (InHand(n)' <=> InHand(n)) /\ ended'[n] = ended[n]
    BY DEF InDeque, InHand, Block, workVars
<1>4. \A q, r \in Producers : pmsg'[q] = pmsg'[r] => q = r \/ pmsg'[q] = NoMsg
    BY <1>1 DEF Accounted, Blocked
<1>5. m_deque' = m_deque /\ wmsg' = wmsg
    BY DEF Block, workVars
<1>. QED
    BY <1>2, <1>3, <1>4, <1>5 DEF Accounted

\* post_unique: the new message takes the place of the one with its key
LEMMA ReplaceAccounted ==
    ASSUME ServerAssumption, TypeOK, Accounted, NEW p \in Producers, NEW k \in Keys, PostReplaces(p, k)
    PROVE  Accounted'
<1>1. PICK i \in DOMAIN m_deque :
        /\ m_deque' = [m_deque EXCEPT ![i] = posted + 1]
        /\ ended' = [ended EXCEPT ![m_deque[i]] = "replaced"]
    BY DEF PostReplaces, SameKey
<1>. DEFINE new == posted + 1
            old == m_deque[i]
<1>2. /\ new \in Msgs /\ ended[new] = "no"
      /\ ~InDeque(new) /\ ~Blocked(new) /\ ~InHand(new)
    BY NewMessage DEF PostReplaces
<1>3. old \in Msgs /\ InDeque(old)
    BY DEF TypeOK, InDeque
<1>4. /\ DOMAIN m_deque' = DOMAIN m_deque
      /\ \A j \in DOMAIN m_deque : m_deque'[j] = (IF j = i THEN new ELSE m_deque[j])
    BY <1>1 DEF TypeOK
<1>5. \A n \in Msgs : ended'[n] = (IF n = old THEN "replaced" ELSE ended[n])
    BY <1>1 DEF TypeOK
<1>6. pmsg' = pmsg /\ wmsg' = wmsg /\ posted' = new /\ posted \in Int
    BY DEF PostReplaces, workVars, TypeOK
<1>. HIDE DEF new, old
<1>7. \A x, y \in DOMAIN m_deque : m_deque[x] = m_deque[y] => x = y
    BY DEF Accounted
<1>8. ASSUME NEW n \in Msgs PROVE InDeque(n)' <=> (InDeque(n) /\ n # old) \/ n = new
    BY <1>2, <1>4, <1>7 DEF InDeque, old
<1>9. ASSUME NEW n \in Msgs PROVE (Blocked(n)' <=> Blocked(n)) /\ (InHand(n)' <=> InHand(n))
    BY <1>6 DEF Blocked, InHand
<1>10. \A x, y \in DOMAIN m_deque' : m_deque'[x] = m_deque'[y] => x = y
    BY <1>2, <1>4, <1>7 DEF InDeque
<1>11. ASSUME NEW n \in Msgs PROVE n <= posted' <=> n <= posted \/ n = new
    BY <1>6 DEF new, Msgs
<1>12. ASSUME NEW n \in Msgs
       PROVE  /\ n <= posted' <=> InDeque(n)' \/ Blocked(n)' \/ InHand(n)' \/ ended'[n] # "no"
              /\ InDeque(n)' => ~Blocked(n)' /\ ~InHand(n)' /\ ended'[n] = "no"
              /\ Blocked(n)' => ~InHand(n)' /\ ended'[n] = "no"
              /\ InHand(n)' => ended'[n] = "no"
    BY <1>2, <1>3, <1>5, <1>8, <1>9, <1>11 DEF Accounted
<1>. QED
    BY <1>6, <1>10, <1>12 DEF Accounted

\* pop: the first message goes to the worker
LEMMA PopAccounted ==
    ASSUME TypeOK, HandsOK, Accounted, NEW w \in Workers, Pop(w)
    PROVE  Accounted'
<1>. DEFINE m == Head(m_deque)
<1>1. m_deque \in Seq(Msgs) /\ Len(m_deque) \in Nat /\ m_deque # <<>> /\ m_deque' = Tail(m_deque)
    BY DEF Pop, TypeOK
<1>2. /\ DOMAIN m_deque = 1..Len(m_deque) /\ DOMAIN m_deque' = 1..(Len(m_deque) - 1)
      /\ 1 \in DOMAIN m_deque /\ m = m_deque[1] /\ m \in Msgs
      /\ \A i \in DOMAIN m_deque' : i + 1 \in DOMAIN m_deque /\ m_deque'[i] = m_deque[i + 1]
    BY <1>1
<1>3. \A v \in Workers : wmsg'[v] = (IF v = w THEN m ELSE wmsg[v])
    BY DEF Pop, TypeOK
<1>4. wmsg[w] = NoMsg /\ UNCHANGED <<pmsg, posted, ended>>
    BY DEF Pop, HandsOK
<1>. HIDE DEF m
<1>5. InDeque(m)
    BY <1>2 DEF InDeque
<1>6. ASSUME NEW n \in Msgs PROVE InDeque(n)' <=> InDeque(n) /\ n # m
  <2>1. ASSUME NEW i \in DOMAIN m_deque', m_deque'[i] = n PROVE InDeque(n) /\ n # m
    <3>1. i + 1 \in DOMAIN m_deque /\ m_deque[i + 1] = n /\ i + 1 # 1
        BY <1>2, <2>1
    <3>. QED
        BY <1>2, <3>1 DEF InDeque, Accounted
  <2>2. ASSUME NEW i \in DOMAIN m_deque, m_deque[i] = n, n # m PROVE InDeque(n)'
    <3>1. i # 1 /\ i - 1 \in DOMAIN m_deque' /\ m_deque'[i - 1] = n
        BY <1>2, <1>1, <2>2
    <3>. QED
        BY <3>1 DEF InDeque
  <2>. QED
    BY <2>1, <2>2 DEF InDeque
<1>7. ASSUME NEW n \in Msgs PROVE InHand(n)' <=> InHand(n) \/ n = m
    BY <1>3, <1>4 DEF InHand, NoMsg, Msgs
<1>8. ASSUME NEW n \in Msgs PROVE Blocked(n)' <=> Blocked(n)
    BY <1>4 DEF Blocked
<1>9. \A i, j \in DOMAIN m_deque' : m_deque'[i] = m_deque'[j] => i = j
  <2>. SUFFICES ASSUME NEW i \in DOMAIN m_deque', NEW j \in DOMAIN m_deque', m_deque'[i] = m_deque'[j]
                PROVE  i = j
    OBVIOUS
  <2>1. i + 1 = j + 1
    BY <1>2 DEF Accounted
  <2>. QED
    BY <1>2, <2>1
<1>10. \A x, v \in Workers : wmsg'[x] = wmsg'[v] => x = v \/ wmsg'[x] = NoMsg
    BY <1>2, <1>3, <1>5 DEF Accounted, InHand
<1>11. ASSUME NEW n \in Msgs
       PROVE  /\ n <= posted' <=> InDeque(n)' \/ Blocked(n)' \/ InHand(n)' \/ ended'[n] # "no"
              /\ InDeque(n)' => ~Blocked(n)' /\ ~InHand(n)' /\ ended'[n] = "no"
              /\ Blocked(n)' => ~InHand(n)' /\ ended'[n] = "no"
              /\ InHand(n)' => ended'[n] = "no"
    BY <1>2, <1>4, <1>5, <1>6, <1>7, <1>8 DEF Accounted
<1>. QED
    BY <1>4, <1>9, <1>10, <1>11 DEF Accounted

\* the handler ends
LEMMA HandledAccounted ==
    ASSUME TypeOK, HandsOK, Accounted, NEW w \in Workers, Handled(w)
    PROVE  Accounted'
<1>. DEFINE m == wmsg[w]
<1>1. m \in Msgs /\ InHand(m)
    BY DEF TypeOK, HandsOK, Handled, InHand, NoMsg
<1>2. \A v \in Workers : wmsg'[v] = (IF v = w THEN NoMsg ELSE wmsg[v])
    BY DEF Handled, TypeOK
<1>3. \A n \in Msgs : ended'[n] = (IF n = m THEN "handled" ELSE ended[n])
    BY DEF Handled, TypeOK
<1>4. UNCHANGED <<m_deque, pmsg, posted>>
    BY DEF Handled, prodVars
<1>5. ASSUME NEW n \in Msgs PROVE InHand(n)' <=> InHand(n) /\ n # m
    BY <1>1, <1>2 DEF InHand, Accounted, NoMsg, Msgs
<1>6. ASSUME NEW n \in Msgs PROVE (Blocked(n)' <=> Blocked(n)) /\ (InDeque(n)' <=> InDeque(n))
    BY <1>4 DEF Blocked, InDeque
<1>7. \A x, v \in Workers : wmsg'[x] = wmsg'[v] => x = v \/ wmsg'[x] = NoMsg
    BY <1>2 DEF Accounted
<1>. HIDE DEF m
<1>8. ASSUME NEW n \in Msgs
      PROVE  /\ n <= posted' <=> InDeque(n)' \/ Blocked(n)' \/ InHand(n)' \/ ended'[n] # "no"
             /\ InDeque(n)' => ~Blocked(n)' /\ ~InHand(n)' /\ ended'[n] = "no"
             /\ Blocked(n)' => ~InHand(n)' /\ ended'[n] = "no"
             /\ InHand(n)' => ended'[n] = "no"
    BY <1>1, <1>3, <1>4, <1>5, <1>6 DEF Accounted
<1>. QED
    BY <1>4, <1>7, <1>8 DEF Accounted

\* release: the messages of the deque are dropped
LEMMA ReleaseAccounted ==
    ASSUME TypeOK, Accounted, Release
    PROVE  Accounted'
<1>1. m_deque' = <<>> /\ UNCHANGED <<pmsg, posted, wmsg>>
    BY DEF Release, CloseQueue
<1>2. \A n \in Msgs : ended'[n] = (IF InDeque(n) THEN "dropped" ELSE ended[n])
    BY DEF Release
<1>3. DOMAIN m_deque' = {}
    BY <1>1
<1>4. ASSUME NEW n \in Msgs
      PROVE  ~InDeque(n)' /\ (Blocked(n)' <=> Blocked(n)) /\ (InHand(n)' <=> InHand(n))
    BY <1>1, <1>3 DEF InDeque, Blocked, InHand
<1>. QED
    BY <1>1, <1>2, <1>3, <1>4 DEF Accounted

LEMMA StepAccounted ==
    ASSUME ServerAssumption, TypeOK, HandsOK, Accounted, [Next]_vars
    PROVE  Accounted'
<1>1. ASSUME NEW p \in Producers, NEW u \in BOOLEAN, NEW k \in Keys,
             PostAtOnce(p, u, k) \/ PostBlocks(p, u, k)
      PROVE  Accounted'
  <2>1. ppc[p] = "idle" /\ posted < MaxPosts /\ posted' = posted + 1
    BY <1>1 DEF PostAtOnce, PostBlocks, NewPost
  <2>2. /\ posted + 1 \in Msgs /\ ended[posted + 1] = "no"
        /\ ~InDeque(posted + 1) /\ ~Blocked(posted + 1) /\ ~InHand(posted + 1)
    BY <2>1, NewMessage
  <2>3. pmsg[p] = NoMsg /\ \A q \in Producers : pmsg[q] # posted + 1
    BY <2>1, <2>2 DEF HandsOK, Blocked
  <2>4. posted' \in Int /\ \A n \in Msgs : n <= posted' <=> n <= posted \/ n = posted + 1
    BY <2>1 DEF TypeOK, Msgs
  <2>5. CASE PostAtOnce(p, u, k)
    BY <2>2, <2>3, <2>4, <2>5, PushAccounted DEF PostAtOnce
  <2>6. CASE PostBlocks(p, u, k)
    BY <2>2, <2>3, <2>4, <2>6, BlockAccounted DEF PostBlocks
  <2>. QED
    BY <1>1, <2>5, <2>6
<1>2. ASSUME NEW p \in Producers, NEW k \in Keys, PostReplaces(p, k)
      PROVE  Accounted'
    BY <1>2, ReplaceAccounted
<1>3. ASSUME NEW p \in Producers, PostResumes(p)
      PROVE  Accounted'
  <2>1. pmsg[p] \in Msgs /\ posted' = posted /\ posted \in Int
    BY <1>3 DEF PostResumes, HandsOK, TypeOK
  <2>2. Blocked(pmsg[p])
    BY DEF Blocked
  <2>3. ~InDeque(pmsg[p]) /\ ~InHand(pmsg[p]) /\ ended[pmsg[p]] = "no" /\ pmsg[p] <= posted
    BY <2>1, <2>2 DEF Accounted
  <2>4. \A q \in Producers : pmsg[q] = pmsg[p] => q = p
    BY <2>1 DEF Accounted, NoMsg, Msgs
  <2>5. CASE IsFull
    <3>1. Block(p, pmsg[p])
        BY <1>3, <2>5 DEF PostResumes
    <3>2. UNCHANGED <<m_deque, pmsg, wmsg, posted, ended>>
        BY <2>1, <3>1 DEF Block, workVars, TypeOK
    <3>. QED
        BY <3>2, UnmovedAccounted
  <2>6. CASE ~IsFull
    <3>1. Push(p, pmsg[p])
        BY <1>3, <2>6 DEF PostResumes
    <3>2. posted' \in Int /\ \A n \in Msgs : n <= posted' <=> n <= posted \/ n = pmsg[p]
        BY <2>1, <2>3
    <3>. QED
        BY <2>1, <2>3, <2>4, <3>1, <3>2, PushAccounted
  <2>. QED
    BY <2>5, <2>6
<1>4. ASSUME NEW w \in Workers, WorkerStep(w)
      PROVE  Accounted'
  <2>1. CASE PopEmpty(w)
    BY <2>1, UnmovedAccounted DEF PopEmpty, prodVars
  <2>. QED
    BY <1>4, <2>1, PopAccounted, HandledAccounted DEF WorkerStep
<1>5. CASE Release
    BY <1>5, ReleaseAccounted
<1>6. CASE Spurious \/ Run \/ Stop \/ Joined \/ UNCHANGED vars
    BY <1>6, UnmovedAccounted
    DEF Spurious, Run, Stop, CloseQueue, Joined, vars, prodVars, workVars
<1>. QED
    BY <1>1, <1>2, <1>3, <1>4, <1>5, <1>6 DEF Next

-----------------------------------------------------------------------------
(* The theorems                                                            *)

LEMMA InitAccounted == ServerAssumption /\ Init => Accounted
BY DEF Init, Accounted, ServerAssumption, InDeque, Blocked, InHand, NoMsg, Msgs

LEMMA InitWakes == ServerAssumption /\ Init => WakeUpsSuffice
BY DEF Init, WakeUpsSuffice, Asleep, ServerAssumption

\* What a producer has, what the deque has and what a worker has are apart
\* and are, with the messages that ended, all that were posted: post,
\* post_unique, pop, the handlers, stop and release lose and repeat none.
THEOREM ServerAccountsForMessages == Spec => []Accounted
<1>1. Init => TypeOK /\ HandsOK /\ Accounted
    BY ServerAssumption, InitType, InitHands, InitAccounted
<1>2. TypeOK /\ HandsOK /\ Accounted /\ [Next]_vars => (TypeOK /\ HandsOK /\ Accounted)'
    BY ServerAssumption, StepType, StepHands, StepAccounted
<1>. QED
    BY <1>1, <1>2, PTL DEF Spec

\* If release finds the queue open, the notify_one of a push and of a pop are
\* enough: no worker sleeps beside a message and no producer beside a free
\* place that nobody was woken for.
THEOREM ServerLosesNoWakeUp == ReleaseOpen => (Spec => []WakeUpsSuffice)
<1>. SUFFICES ASSUME ReleaseOpen PROVE Spec => []WakeUpsSuffice
    OBVIOUS
<1>1. Init => TypeOK /\ HandsOK /\ WakeUpsSuffice
    BY ServerAssumption, InitType, InitHands, InitWakes
<1>2. TypeOK /\ HandsOK /\ WakeUpsSuffice /\ [Next]_vars => (TypeOK /\ HandsOK /\ WakeUpsSuffice)'
    BY ServerAssumption, StepType, StepHands, StepWakes
<1>. QED
    BY <1>1, <1>2, PTL DEF Spec
=============================================================================
