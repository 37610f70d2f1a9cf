---------------------------- MODULE LogQueueProofs ----------------------------
(***************************************************************************)
(* Proofs about LogQueue, for any posters, pack sizes and capacities: the  *)
(* packs are accounted for, only a text whose poster waited is cut, and    *)
(* the texts reach the sinks in the order they were written.               *)
(*                                                                         *)
(* All rest on the shape of the two lists.  Every pack but the last of     *)
(* m_avail is empty, so that moving that one away always leaves room for a *)
(* whole text and keeps the texts in order; posters that wait are past     *)
(* that check.                                                             *)
(***************************************************************************)
EXTENDS LogQueue, SequenceTheorems, WellFoundedInduction, TLAPS

\* the shape of the lists of available packs a and of packs to log l
Sound(a, l) ==
    /\ a \in Seq(Packs) /\ l \in Seq(Packs)
    /\ \A i \in 1..Len(a) - 1 : a[i] = EmptyPack
    /\ \A i \in DOMAIN l : l[i].size > 0

Larger == IF DefaultPacks > ConfiguredPacks THEN DefaultPacks ELSE ConfiguredPacks

ValuesOK ==
    /\ allocated \in Nat /\ m_capacity \in {DefaultPacks, ConfiguredPacks}
    /\ posted \in 0..MaxPosts
    /\ ppc \in [Posters -> {"idle", "asleep", "woken"}]
    /\ ptext \in [Posters -> 0..MaxPosts] /\ psize \in [Posters -> 0..PackCapacity]
    /\ wpc \in {"gone", "ready", "drowsy", "asleep", "woken", "timed out", "busy"}
    /\ hand \in Seq(Packs) /\ Len(hand) <= 1

\* only a thread that has a pack to log, to give back, or to die with, has one
HandOK == wpc \in {"drowsy", "asleep", "woken", "timed out"} => hand = <<>>

PostersOK ==
    \A p \in Posters : ppc[p] # "idle" => /\ ptext[p] \in waited /\ ptext[p] \in Texts
                                          /\ psize[p] \in 1..PackCapacity

Inv ==
    /\ ValuesOK /\ HandOK /\ PostersOK
    /\ Sound(m_avail, m_logging)
    /\ allocated = Len(m_avail) + Len(m_logging) + Len(hand)
    /\ allocated <= Larger
    /\ OnlyWaitersAreCut

LEMMA Constants ==
    /\ PackCapacity \in Nat \ {0} /\ DefaultPacks \in Nat /\ ConfiguredPacks \in Nat
    /\ MaxPosts \in Nat /\ Larger \in Nat
    /\ DefaultPacks <= Larger /\ ConfiguredPacks <= Larger
<1>1. /\ PackCapacity \in Nat \ {0} /\ DefaultPacks \in Nat /\ ConfiguredPacks \in Nat
      /\ MaxPosts \in Nat
    BY LogAssumption DEF LogAssumption
<1>. QED
    BY <1>1 DEF Larger

-----------------------------------------------------------------------------
(* Packs and lists                                                         *)

LEMMA FrontFacts ==
    ASSUME NEW s \in Seq(Packs), s # <<>>
    PROVE  /\ Front(s) \in Seq(Packs) /\ Len(Front(s)) = Len(s) - 1 /\ Len(s) \in Nat \ {0}
           /\ \A i \in 1..Len(s) - 1 : Front(s)[i] = s[i]
           /\ Last(s) \in Packs /\ Last(s) = s[Len(s)]
<1>1. Len(s) \in Nat \ {0} /\ \A i \in 1..Len(s) : s[i] \in Packs
    OBVIOUS
<1>2. 1 \in Int /\ Len(s) - 1 \in Int /\ \A i \in 1..Len(s) - 1 : s[i] \in Packs
    BY <1>1
<1>3. /\ SubSeq(s, 1, Len(s) - 1) \in Seq(Packs)
      /\ Len(SubSeq(s, 1, Len(s) - 1)) = IF 1 <= Len(s) - 1 THEN Len(s) - 1 - 1 + 1 ELSE 0
      /\ \A i \in 1..Len(s) - 1 - 1 + 1 : SubSeq(s, 1, Len(s) - 1)[i] = s[1 + i - 1]
    BY <1>2, SubSeqProperties
<1>4. \A i \in 1..Len(s) - 1 : SubSeq(s, 1, Len(s) - 1)[i] = s[i]
    BY <1>1, <1>3
<1>5. Len(SubSeq(s, 1, Len(s) - 1)) = Len(s) - 1
  <2>1. PICK n \in Nat \ {0} : n = Len(s)
    BY <1>1
  <2>2. PICK x : x = Len(SubSeq(s, 1, Len(s) - 1))
    OBVIOUS
  <2>3. x = IF 1 <= n - 1 THEN n - 1 - 1 + 1 ELSE 0
    BY ONLY <1>3, <2>1, <2>2
  <2>4. x = n - 1
    BY ONLY n \in Nat \ {0}, <2>3
  <2>. QED
    BY ONLY <2>1, <2>2, <2>4
<1>6. s[Len(s)] \in Packs
    BY <1>1
<1>. HIDE DEF Packs
<1>7. Front(s) = SubSeq(s, 1, Len(s) - 1) /\ Last(s) = s[Len(s)]
    BY DEF Front, Last
<1>. QED
    BY <1>1, <1>3, <1>4, <1>5, <1>6, <1>7

LEMMA AppendFacts ==
    ASSUME NEW s \in Seq(Packs), NEW k \in Packs
    PROVE  /\ Append(s, k) \in Seq(Packs) /\ Len(Append(s, k)) = Len(s) + 1
           /\ Append(s, k) # <<>> /\ Len(s) \in Nat
           /\ \A i \in 1..Len(s) : Append(s, k)[i] = s[i]
           /\ Append(s, k)[Len(s) + 1] = k
           /\ Front(Append(s, k)) = s /\ Last(Append(s, k)) = k
<1>1. /\ Append(s, k) \in Seq(Packs) /\ Len(Append(s, k)) = Len(s) + 1
      /\ Append(s, k) # <<>> /\ Len(s) \in Nat
      /\ \A i \in 1..Len(s) : Append(s, k)[i] = s[i]
      /\ Append(s, k)[Len(s) + 1] = k
    OBVIOUS
<1>2. Last(Append(s, k)) = k
    BY <1>1 DEF Last
<1>3. Front(Append(s, k)) = s
  <2>1. /\ Front(Append(s, k)) \in Seq(Packs) /\ Len(Front(Append(s, k))) = Len(s)
        /\ \A i \in 1..Len(s) : Front(Append(s, k))[i] = Append(s, k)[i]
    <3>1. PICK x \in Seq(Packs) : x = Append(s, k) /\ x # <<>> /\ Len(x) = Len(s) + 1
        BY <1>1
    <3>2. /\ Front(x) \in Seq(Packs) /\ Len(Front(x)) = Len(x) - 1
          /\ \A i \in 1..Len(x) - 1 : Front(x)[i] = x[i]
        BY <3>1, FrontFacts
    <3>3. Len(x) - 1 = Len(s)
        BY <1>1, <3>1
    <3>. QED
        BY <3>1, <3>2, <3>3
  <2>. QED
    BY <1>1, <2>1
<1>. QED
    BY <1>1, <1>2, <1>3

LEMMA PackFacts ==
    /\ EmptyPack \in Packs /\ EmptyPack.size = 0 /\ Room(EmptyPack) = PackCapacity
    /\ \A k \in Packs : Room(k) \in 0..PackCapacity /\ k.size \in Nat /\ k.size = PackCapacity - Room(k)
    /\ \A k \in Packs, t \in Texts, n \in 1..PackCapacity :
          /\ Filled(k, t, n) \in Packs /\ Filled(k, t, n).size >= k.size
<1>. USE Constants
<1>1. EmptyPack \in Packs /\ EmptyPack.size = 0 /\ Room(EmptyPack) = PackCapacity
    BY DEF EmptyPack, Packs, Room
<1>2. ASSUME NEW k \in Packs
      PROVE  Room(k) \in 0..PackCapacity /\ k.size \in Nat /\ k.size = PackCapacity - Room(k)
    BY DEF Packs, Room
<1>3. ASSUME NEW k \in Packs, NEW t \in Texts, NEW n \in 1..PackCapacity
      PROVE  Filled(k, t, n) \in Packs /\ Filled(k, t, n).size >= k.size
  <2>1. Append(k.texts, t) \in Seq(Texts)
    BY DEF Packs
  <2>2. k.size + (IF n <= Room(k) THEN n ELSE Room(k)) \in 0..PackCapacity
    BY <1>2
  <2>. QED
    BY <1>2, <2>1, <2>2 DEF Filled, Packs
<1>. QED
    BY <1>1, <1>2, <1>3

\* moving the pack in use
LEMMA MoveFacts ==
    ASSUME NEW a, NEW l, Sound(a, l), NEW q, q = [avail |-> a, logging |-> l],
           NEW m, m = move_avail(q)
    PROVE  \E ma, ml :
              /\ m = [avail |-> ma, logging |-> ml]
              /\ Sound(ma, ml) /\ Len(ma) + Len(ml) = Len(a) + Len(l)
              /\ (a # <<>> /\ Last(a).size > 0) => ma = <<>> \/ Last(ma) = EmptyPack
<1>1. CASE a # <<>> /\ Last(a).size > 0
  <2>1. m = [avail |-> Front(a), logging |-> Append(l, Last(a))]
    BY <1>1 DEF move_avail
  <2>2. /\ a \in Seq(Packs) /\ l \in Seq(Packs) /\ Len(l) \in Nat /\ Len(a) \in Nat \ {0}
        /\ DOMAIN l = 1..Len(l)
        /\ \A i \in 1..Len(a) - 1 : a[i] = EmptyPack
        /\ \A i \in DOMAIN l : l[i].size > 0
    BY <1>1, FrontFacts DEF Sound
  <2>3. /\ Front(a) \in Seq(Packs) /\ Len(Front(a)) = Len(a) - 1
        /\ \A i \in 1..Len(a) - 1 : Front(a)[i] = EmptyPack
        /\ Last(a) \in Packs
    BY <1>1, <2>2, FrontFacts
  <2>4. /\ Append(l, Last(a)) \in Seq(Packs) /\ Len(Append(l, Last(a))) = Len(l) + 1
        /\ DOMAIN Append(l, Last(a)) = 1..Len(l) + 1
        /\ \A i \in 1..Len(l) + 1 : Append(l, Last(a))[i].size > 0
    BY <1>1, <2>2, <2>3, AppendFacts
  <2>5. Sound(Front(a), Append(l, Last(a)))
    <3>1. \A i \in 1..Len(Front(a)) - 1 : Front(a)[i] = EmptyPack
        BY <2>2, <2>3
    <3>. QED
        BY <2>3, <2>4, <3>1 DEF Sound
  <2>6. Front(a) = <<>> \/ Last(Front(a)) = EmptyPack
    BY <2>2, <2>3 DEF Last
  <2>7. Len(Front(a)) + Len(Append(l, Last(a))) = Len(a) + Len(l)
    BY <2>2, <2>3, <2>4
  <2>. QED
    BY <2>1, <2>5, <2>6, <2>7
<1>2. CASE ~(a # <<>> /\ Last(a).size > 0)
  <2>1. m = [avail |-> a, logging |-> l]
    BY <1>2 DEF move_avail
  <2>. QED
    BY <1>2, <2>1
<1>. QED
    BY <1>1, <1>2

\* a pack comes back
LEMMA RecycleFacts ==
    ASSUME NEW a, NEW l, Sound(a, l), NEW q, q = [avail |-> a, logging |-> l],
           NEW r, r = recycle_avail(q)
    PROVE  \E ra : /\ r = [avail |-> ra, logging |-> l]
                   /\ Sound(ra, l) /\ Len(ra) = Len(a) + 1
<1>1. r = [avail |-> IF a = <<>> THEN <<EmptyPack>> ELSE Append(Front(a), EmptyPack) \o <<Last(a)>>,
           logging |-> l]
    BY DEF recycle_avail
<1>2. /\ a \in Seq(Packs) /\ l \in Seq(Packs) /\ Len(a) \in Nat
      /\ \A i \in 1..Len(a) - 1 : a[i] = EmptyPack
    BY DEF Sound
<1>3. CASE a = <<>>
  <2>1. r = [avail |-> <<EmptyPack>>, logging |-> l]
    BY <1>1, <1>3
  <2>2. <<EmptyPack>> \in Seq(Packs) /\ Len(<<EmptyPack>>) = 1
    BY PackFacts
  <2>3. Sound(<<EmptyPack>>, l)
    BY <2>2 DEF Sound
  <2>4. Len(a) = 0
    BY <1>3
  <2>. QED
    BY <2>1, <2>2, <2>3, <2>4
<1>4. CASE a # <<>>
  <2>. DEFINE f == Append(Front(a), EmptyPack)
  <2>1. r = [avail |-> f \o <<Last(a)>>, logging |-> l]
    BY <1>1, <1>4
  <2>2. /\ Len(a) >= 1 /\ Last(a) \in Packs
        /\ Front(a) \in Seq(Packs) /\ Len(Front(a)) = Len(a) - 1
        /\ \A i \in 1..Len(a) - 1 : Front(a)[i] = EmptyPack
    BY <1>2, <1>4, FrontFacts
  <2>3. f \in Seq(Packs) /\ Len(f) = Len(a) /\ \A i \in 1..Len(a) : f[i] = EmptyPack
    BY <1>2, <2>2, AppendFacts, PackFacts
  <2>4. <<Last(a)>> \in Seq(Packs) /\ Len(<<Last(a)>>) = 1
    BY <2>2
  <2>. HIDE DEF f
  <2>5. /\ f \o <<Last(a)>> \in Seq(Packs) /\ Len(f \o <<Last(a)>>) = Len(a) + 1
        /\ \A i \in 1..Len(a) : (f \o <<Last(a)>>)[i] = EmptyPack
    BY <1>2, <2>3, <2>4, ConcatProperties
  <2>6. Sound(f \o <<Last(a)>>, l)
    BY <1>2, <2>5 DEF Sound
  <2>. QED
    BY <2>1, <2>5, <2>6
<1>. QED
    BY <1>3, <1>4

-----------------------------------------------------------------------------
(* post                                                                    *)

\* What a poster that goes on with lists a and l may assume: they hold the packs
\* of the queue, and there is room for its text unless it has waited.
Given(t, n, a, l) ==
    /\ t \in Texts /\ n \in 1..PackCapacity
    /\ Sound(a, l) /\ Len(a) + Len(l) = Len(m_avail) + Len(m_logging)
    /\ t \in waited \/ a = <<>> \/ Room(Last(a)) >= n

LEMMA NotifyFacts ==
    ASSUME Inv, NEW w, w = NotifyLogging \/ w = wpc
    PROVE  /\ w \in {"gone", "ready", "drowsy", "asleep", "woken", "timed out", "busy"}
           /\ w \in {"drowsy", "asleep", "woken", "timed out"} => hand = <<>>
BY DEF Inv, ValuesOK, HandOK, NotifyLogging

LEMMA WriteInv ==
    ASSUME Inv, NEW p \in Posters, NEW t, NEW n, NEW qa, NEW ql, Given(t, n, qa, ql),
           NEW q, q = [avail |-> qa, logging |-> ql], Write(p, t, n, q),
           posted' \in 0..MaxPosts, UNCHANGED <<m_capacity, hand>>
    PROVE  Inv'
<1>1. /\ t \in Texts /\ n \in 1..PackCapacity
      /\ Sound(qa, ql)
      /\ Len(qa) + Len(ql) = Len(m_avail) + Len(m_logging)
      /\ t \in waited \/ qa = <<>> \/ Room(Last(qa)) >= n
    BY DEF Given
<1>2. qa \in Seq(Packs) /\ ql \in Seq(Packs) /\ Len(qa) \in Nat /\ Len(ql) \in Nat
    BY <1>1 DEF Sound
<1>3. PICK pack, rest, grown :
        /\ pack = IF qa = <<>> THEN EmptyPack ELSE Last(qa)
        /\ rest = IF qa = <<>> THEN <<>> ELSE Front(qa)
        /\ grown = IF qa = <<>> THEN 1 ELSE 0
    OBVIOUS
<1>4. /\ pack \in Packs /\ rest \in Seq(Packs) /\ grown \in Nat
      /\ Len(rest) + 1 = Len(qa) + grown
      /\ \A i \in 1..Len(rest) : rest[i] = EmptyPack
  <2>1. CASE qa = <<>>
    BY <1>3, <2>1, PackFacts
  <2>2. CASE qa # <<>>
    <3>1. pack = Last(qa) /\ rest = Front(qa) /\ grown = 0
        BY <1>3, <2>2
    <3>2. /\ Last(qa) \in Packs /\ Front(qa) \in Seq(Packs)
          /\ Len(Front(qa)) = Len(qa) - 1
          /\ \A i \in 1..Len(qa) - 1 : Front(qa)[i] = qa[i]
        BY <1>2, <2>2, FrontFacts
    <3>3. \A i \in 1..Len(qa) - 1 : qa[i] = EmptyPack
        BY <1>1 DEF Sound
    <3>4. Len(rest) = Len(qa) - 1 /\ \A i \in 1..Len(qa) - 1 : rest[i] = EmptyPack
        BY ONLY <3>1, <3>2, <3>3
    <3>5. Len(rest) + 1 = Len(qa) + grown /\ 1..Len(rest) = 1..Len(qa) - 1
        BY ONLY <1>2, <3>1, <3>4
    <3>. QED
        BY ONLY <3>1, <3>2, <3>4, <3>5
  <2>. QED
    BY <2>1, <2>2
<1>5. PICK full \in Packs : full = Filled(pack, t, n)
    BY <1>1, <1>4, PackFacts
<1>6. PICK a, put : a = Append(rest, full) /\ put = [avail |-> a, logging |-> ql]
    OBVIOUS
<1>7. Sound(a, ql) /\ Len(a) = Len(qa) + grown
  <2>1. /\ a \in Seq(Packs) /\ Len(a) = Len(rest) + 1 /\ Len(rest) \in Nat
        /\ \A i \in 1..Len(rest) : a[i] = rest[i]
    BY <1>4, <1>5, <1>6, AppendFacts
  <2>2. \A i \in 1..Len(a) - 1 : a[i] = EmptyPack
    BY <1>4, <2>1
  <2>. QED
    BY <1>1, <1>4, <2>1, <2>2 DEF Sound
<1>8. PICK end : end = IF Room(full) = 0 THEN move_avail(put) ELSE put
    OBVIOUS
<1>9. /\ Sound(end.avail, end.logging)
      /\ Len(end.avail) + Len(end.logging) = Len(a) + Len(ql)
  <2>1. CASE end = put
    BY <1>6, <1>7, <2>1
  <2>2. CASE end = move_avail(put)
    <3>1. PICK ma, ml : /\ end = [avail |-> ma, logging |-> ml]
                        /\ Sound(ma, ml) /\ Len(ma) + Len(ml) = Len(a) + Len(ql)
      <4>1. Sound(a, ql) /\ put = [avail |-> a, logging |-> ql]
        BY <1>6, <1>7
      <4>. QED
        BY ONLY <2>2, <4>1, MoveFacts
    <3>. QED
        BY <3>1
  <2>. QED
    BY <1>8, <2>1, <2>2
<1>10. /\ m_avail' = end.avail /\ m_logging' = end.logging
       /\ wpc' = NotifyLogging \/ wpc' = wpc
       /\ cut' = IF n > Room(pack) THEN cut \cup {t} ELSE cut
  <2>1. put = [q EXCEPT !.avail = Append(rest, full)]
    <3>1. q = [avail |-> qa, logging |-> ql]
        OBVIOUS
    <3>. QED
        BY ONLY <1>6, <3>1
  <2>2. qa = q.avail /\ ql = q.logging
    OBVIOUS
  <2>. QED
    BY <1>3, <1>5, <1>8, <2>1, <2>2 DEF Write
<1>11. /\ ~NoneAvail(q) /\ allocated' = allocated + grown
       /\ ppc' = [ppc EXCEPT ![p] = "idle"]
       /\ ptext' = [ptext EXCEPT ![p] = NoText] /\ psize' = [psize EXCEPT ![p] = 0]
       /\ waited' = waited
  <2>1. allocated \in Nat
    BY DEF Inv, ValuesOK
  <2>. QED
    BY <1>3, <2>1 DEF Write
<1>12. ValuesOK' /\ HandOK'
  <2>1. /\ wpc' \in {"gone", "ready", "drowsy", "asleep", "woken", "timed out", "busy"}
        /\ wpc' \in {"drowsy", "asleep", "woken", "timed out"} => hand = <<>>
    BY <1>10, NotifyFacts
  <2>2. allocated' \in Nat
    <3>1. allocated \in Nat
        BY DEF Inv, ValuesOK
    <3>. QED
        BY <1>4, <1>11, <3>1
  <2>3. /\ ppc' \in [Posters -> {"idle", "asleep", "woken"}]
        /\ ptext' \in [Posters -> 0..MaxPosts] /\ psize' \in [Posters -> 0..PackCapacity]
    <3>1. /\ ppc \in [Posters -> {"idle", "asleep", "woken"}]
          /\ ptext \in [Posters -> 0..MaxPosts] /\ psize \in [Posters -> 0..PackCapacity]
        BY DEF Inv, ValuesOK
    <3>2. NoText \in 0..MaxPosts /\ 0 \in 0..PackCapacity
        BY Constants DEF NoText
    <3>. QED
        BY <1>11, <3>1, <3>2
  <2>. QED
    BY <2>1, <2>2, <2>3 DEF Inv, ValuesOK, HandOK
<1>13. PostersOK'
    BY <1>11 DEF Inv, PostersOK, ValuesOK
<1>14. Sound(m_avail', m_logging')
    BY <1>9, <1>10
<1>15. allocated' = Len(m_avail') + Len(m_logging') + Len(hand')
  <2>1. allocated = Len(m_avail) + Len(m_logging) + Len(hand)
    BY DEF Inv
  <2>2. /\ Len(m_avail) \in Nat /\ Len(m_logging) \in Nat /\ Len(hand) \in Nat
        /\ Len(m_avail') \in Nat /\ Len(m_logging') \in Nat /\ Len(a) \in Nat
    <3>1. m_avail \in Seq(Packs) /\ m_logging \in Seq(Packs) /\ hand \in Seq(Packs)
        BY DEF Inv, ValuesOK, Sound
    <3>2. m_avail' \in Seq(Packs) /\ m_logging' \in Seq(Packs) /\ a \in Seq(Packs)
        BY <1>7, <1>14 DEF Sound
    <3>. QED
        BY <3>1, <3>2
  <2>3. Len(m_avail') + Len(m_logging') = Len(a) + Len(ql)
    BY <1>9, <1>10
  <2>4. Len(m_avail') + Len(m_logging') = Len(m_avail) + Len(m_logging) + grown
    <3>1. /\ Len(qa) + Len(ql) = Len(m_avail) + Len(m_logging)
          /\ Len(a) = Len(qa) + grown
          /\ Len(qa) \in Nat /\ Len(ql) \in Nat /\ grown \in Nat
        BY <1>1, <1>2, <1>4, <1>7
    <3>. QED
        BY ONLY <2>2, <2>3, <3>1
  <2>5. hand' = hand
    OBVIOUS
  <2>. QED
    <3>1. allocated' = allocated + grown /\ grown \in Nat
        BY <1>4, <1>11
    <3>2. allocated' = Len(m_avail') + Len(m_logging') + Len(hand)
        BY ONLY <2>1, <2>2, <2>4, <3>1
    <3>. QED
        BY ONLY <2>5, <3>2
<1>16. allocated' <= Larger
  <2>1. CASE qa = <<>>
    <3>1. ~(allocated >= m_capacity) /\ grown = 1
        BY <1>3, <1>11, <2>1 DEF NoneAvail
    <3>2. allocated \in Nat /\ m_capacity \in Nat /\ m_capacity <= Larger /\ Larger \in Nat
        BY Constants DEF Inv, ValuesOK
    <3>. QED
        BY <1>11, <3>1, <3>2
  <2>2. CASE qa # <<>>
    <3>1. grown = 0 /\ allocated \in Nat /\ allocated <= Larger
        BY <1>3, <2>2 DEF Inv, ValuesOK
    <3>. QED
        BY <1>11, <3>1
  <2>. QED
    BY <2>1, <2>2
<1>17. OnlyWaitersAreCut'
  <2>1. n > Room(pack) => t \in waited
    <3>1. qa = <<>> => Room(pack) = PackCapacity
        BY <1>3, PackFacts
    <3>2. n <= PackCapacity /\ n \in Nat /\ Room(pack) \in Nat
        BY <1>1, <1>4, PackFacts, Constants
    <3>3. qa # <<>> => pack = Last(qa)
        BY <1>3
    <3>. QED
        BY <1>1, <3>1, <3>2, <3>3, Constants
  <2>. QED
    BY <1>10, <1>11, <2>1 DEF Inv, OnlyWaitersAreCut
<1>. QED
    BY <1>12, <1>13, <1>14, <1>15, <1>16, <1>17 DEF Inv, Larger

LEMMA BlockInv ==
    ASSUME Inv, NEW p \in Posters, NEW t, NEW n, NEW qa, NEW ql, Given(t, n, qa, ql),
           NEW q, q = [avail |-> qa, logging |-> ql], Block(p, t, n, q),
           posted' \in 0..MaxPosts, UNCHANGED <<m_capacity, hand>>
    PROVE  Inv'
<1>1. /\ t \in Texts /\ n \in 1..PackCapacity
      /\ Sound(qa, ql)
      /\ Len(qa) + Len(ql) = Len(m_avail) + Len(m_logging)
    BY DEF Given
<1>2. /\ m_avail' = qa /\ m_logging' = ql
      /\ wpc' = NotifyLogging \/ wpc' = wpc
      /\ ppc' = [ppc EXCEPT ![p] = "asleep"]
      /\ ptext' = [ptext EXCEPT ![p] = t] /\ psize' = [psize EXCEPT ![p] = n]
      /\ waited' = waited \cup {t} /\ allocated' = allocated /\ cut' = cut
    BY DEF Block
<1>3. ValuesOK' /\ HandOK'
  <2>1. /\ wpc' \in {"gone", "ready", "drowsy", "asleep", "woken", "timed out", "busy"}
        /\ wpc' \in {"drowsy", "asleep", "woken", "timed out"} => hand = <<>>
    BY <1>2, NotifyFacts
  <2>2. n \in 0..PackCapacity /\ t \in 0..MaxPosts
    BY <1>1, Constants DEF Texts
  <2>3. /\ ppc' \in [Posters -> {"idle", "asleep", "woken"}]
        /\ ptext' \in [Posters -> 0..MaxPosts] /\ psize' \in [Posters -> 0..PackCapacity]
    BY <1>2, <2>2 DEF Inv, ValuesOK
  <2>. QED
    BY <1>2, <2>1, <2>3 DEF Inv, ValuesOK, HandOK
<1>4. PostersOK'
    BY <1>1, <1>2 DEF Inv, PostersOK, ValuesOK
<1>5. Sound(m_avail', m_logging')
    BY <1>1, <1>2
<1>6. allocated' = Len(m_avail') + Len(m_logging') + Len(hand')
    BY <1>1, <1>2 DEF Inv
<1>7. OnlyWaitersAreCut'
    BY <1>2 DEF Inv, OnlyWaitersAreCut
<1>. QED
    BY <1>2, <1>3, <1>4, <1>5, <1>6, <1>7 DEF Inv, Larger

\* A pack that is too full is moved before a new text is written.
LEMMA PostInv ==
    ASSUME Inv, NEW p \in Posters, NEW n \in 1..PackCapacity, PostAtOnce(p, n) \/ PostBlocks(p, n)
    PROVE  Inv'
<1>1. /\ posted < MaxPosts /\ posted' = posted + 1 /\ UNCHANGED <<m_capacity, hand>>
      /\ \/ Write(p, posted + 1, n, MadeRoom(n))
         \/ Block(p, posted + 1, n, MadeRoom(n))
    BY DEF PostAtOnce, PostBlocks, NewPost, ownerVars
<1>2. PICK q, t : q = MadeRoom(n) /\ t = posted + 1
    OBVIOUS
<1>3. posted \in 0..MaxPosts /\ t \in Texts /\ posted' \in 0..MaxPosts
  <2>1. posted \in 0..MaxPosts
    BY DEF Inv, ValuesOK
  <2>2. posted + 1 \in 1..MaxPosts
    BY <1>1, <2>1, Constants
  <2>. QED
    BY <1>1, <1>2, <2>1, <2>2 DEF Texts
<1>4. PICK a, l : a = m_avail /\ l = m_logging /\ Sound(a, l) /\ a \in Seq(Packs)
    BY DEF Inv, Sound
<1>5. PICK qa, ql : q = [avail |-> qa, logging |-> ql] /\ Given(t, n, qa, ql)
  <2>1. CASE a # <<>> /\ Room(Last(a)) < n
    <3>1. PICK w : w = [avail |-> a, logging |-> l] /\ q = move_avail(w)
        BY <1>2, <1>4, <2>1 DEF MadeRoom, Lists
    <3>2. Last(a).size > 0
      <4>1. Last(a) \in Packs
        BY <1>4, <2>1, FrontFacts
      <4>2. Room(Last(a)) \in Nat /\ Last(a).size = PackCapacity - Room(Last(a))
        BY <4>1, PackFacts, Constants
      <4>. QED
        BY <2>1, <4>2, Constants
    <3>3. PICK ma, ml : /\ q = [avail |-> ma, logging |-> ml]
                        /\ Sound(ma, ml) /\ Len(ma) + Len(ml) = Len(a) + Len(l)
                        /\ (a # <<>> /\ Last(a).size > 0) => ma = <<>> \/ Last(ma) = EmptyPack
        BY <1>4, <3>1, MoveFacts
    <3>4. Room(EmptyPack) >= n
        BY PackFacts, Constants
    <3>5. ma = <<>> \/ Room(Last(ma)) >= n
        BY <2>1, <3>2, <3>3, <3>4
    <3>6. Given(t, n, ma, ml)
        BY <1>3, <1>4, <3>3, <3>5 DEF Given
    <3>. QED
        BY <3>3, <3>6
  <2>2. CASE ~(a # <<>> /\ Room(Last(a)) < n)
    <3>1. q = [avail |-> a, logging |-> l]
        BY <1>2, <1>4, <2>2 DEF MadeRoom, Lists
    <3>2. a # <<>> => Room(Last(a)) >= n
      <4>1. a # <<>> => Room(Last(a)) \in Nat
        BY <1>4, FrontFacts, PackFacts, Constants
      <4>. QED
        BY <2>2, <4>1
    <3>3. Given(t, n, a, l)
        BY <1>3, <1>4, <3>2 DEF Given
    <3>. QED
        BY <3>1, <3>3
  <2>. QED
    BY <2>1, <2>2
<1>6. CASE Write(p, posted + 1, n, MadeRoom(n))
  <2>1. Write(p, t, n, q)
    BY <1>2, <1>6
  <2>. QED
    BY <1>1, <1>3, <1>5, <2>1, WriteInv
<1>7. CASE Block(p, posted + 1, n, MadeRoom(n))
  <2>1. Block(p, t, n, q)
    BY <1>2, <1>7
  <2>. QED
    BY <1>1, <1>3, <1>5, <2>1, BlockInv
<1>. QED
    BY <1>1, <1>6, <1>7

\* A poster that has waited takes any pack.
LEMMA ResumeInv ==
    ASSUME Inv, NEW p \in Posters, PostResumes(p)
    PROVE  Inv'
<1>1. PICK t, n, a, l, q :
        /\ t = ptext[p] /\ n = psize[p] /\ a = m_avail /\ l = m_logging
        /\ q = [avail |-> a, logging |-> l] /\ q = Lists
    BY DEF Lists
<1>2. /\ ppc[p] = "woken" /\ posted' = posted /\ UNCHANGED <<m_capacity, hand>>
      /\ Write(p, t, n, q) \/ Block(p, t, n, q)
    BY <1>1 DEF PostResumes, ownerVars
<1>3. t \in waited /\ t \in Texts /\ n \in 1..PackCapacity
    BY <1>1, <1>2 DEF Inv, PostersOK
<1>4. Sound(a, l) /\ posted' \in 0..MaxPosts
    BY <1>1, <1>2 DEF Inv, ValuesOK
<1>5. Given(t, n, a, l)
    BY <1>1, <1>3, <1>4 DEF Given
<1>6. q = [avail |-> a, logging |-> l] /\ UNCHANGED <<m_capacity, hand>>
    BY <1>1, <1>2
<1>7. CASE Write(p, t, n, q)
    BY <1>4, <1>5, <1>6, <1>7, WriteInv
<1>8. CASE Block(p, t, n, q)
    BY <1>4, <1>5, <1>6, <1>8, BlockInv
<1>. QED
    BY <1>2, <1>7, <1>8

-----------------------------------------------------------------------------
(* The log thread and its owner                                            *)

\* the lists and the hand change, the posters' texts do not
LEMMA ThreadInv ==
    ASSUME Inv, Sound(m_avail', m_logging'), hand' \in Seq(Packs), Len(hand') <= 1,
           Len(m_avail') + Len(m_logging') + Len(hand') = Len(m_avail) + Len(m_logging) + Len(hand),
           wpc' \in {"gone", "ready", "drowsy", "asleep", "woken", "timed out", "busy"},
           HandOK', m_capacity' \in {DefaultPacks, ConfiguredPacks},
           ppc' \in [Posters -> {"idle", "asleep", "woken"}],
           \A p \in Posters : ppc'[p] # "idle" => ppc[p] # "idle",
           UNCHANGED <<allocated, ptext, psize, posted, waited, cut>>
    PROVE  Inv'
<1>1. ValuesOK'
    BY DEF Inv, ValuesOK
<1>2. PostersOK'
    BY DEF Inv, PostersOK
<1>3. OnlyWaitersAreCut'
    BY DEF Inv, OnlyWaitersAreCut
<1>4. allocated' = Len(m_avail') + Len(m_logging') + Len(hand') /\ allocated' <= Larger'
    BY DEF Inv, Larger
<1>. QED
    BY <1>1, <1>2, <1>3, <1>4 DEF Inv

\* nothing but the thread's place, the posters' and the capacity change
LEMMA PlaceInv ==
    ASSUME Inv, UNCHANGED <<m_avail, m_logging, hand>>,
           wpc' \in {"gone", "ready", "drowsy", "asleep", "woken", "timed out", "busy"},
           HandOK', m_capacity' \in {DefaultPacks, ConfiguredPacks},
           ppc' \in [Posters -> {"idle", "asleep", "woken"}],
           \A p \in Posters : ppc'[p] # "idle" => ppc[p] # "idle",
           UNCHANGED <<allocated, ptext, psize, posted, waited, cut>>
    PROVE  Inv'
<1>1. Sound(m_avail', m_logging') /\ hand' \in Seq(Packs) /\ Len(hand') <= 1
    BY DEF Inv, ValuesOK
<1>2. Len(m_avail') + Len(m_logging') + Len(hand') = Len(m_avail) + Len(m_logging) + Len(hand)
    OBVIOUS
<1>. QED
    BY <1>1, <1>2, ThreadInv

\* pop goes round with lists that hold every pack but the ones in use
LEMMA LoopInv ==
    ASSUME Inv, NEW a, NEW l, Sound(a, l),
           Len(a) + Len(l) = Len(m_avail) + Len(m_logging) + Len(hand),
           NEW q, q = [avail |-> a, logging |-> l], PopLoop(q), m_capacity' = m_capacity,
           ppc' \in [Posters -> {"idle", "asleep", "woken"}],
           \A p \in Posters : ppc'[p] # "idle" => ppc[p] # "idle",
           UNCHANGED <<allocated, ptext, psize, posted, waited, cut>>
    PROVE  Inv'
<1>1. /\ a \in Seq(Packs) /\ l \in Seq(Packs) /\ Len(a) \in Nat /\ Len(l) \in Nat
      /\ DOMAIN l = 1..Len(l)
      /\ \A i \in 1..Len(a) - 1 : a[i] = EmptyPack
      /\ \A i \in DOMAIN l : l[i].size > 0
    BY DEF Sound
<1>2. m_avail' = a
    BY DEF PopLoop
<1>3. m_capacity' \in {DefaultPacks, ConfiguredPacks}
    BY DEF Inv, ValuesOK
<1>4. CASE l # <<>>
  <2>1. hand' = <<Head(l)>> /\ m_logging' = Tail(l) /\ wpc' = "busy"
    BY <1>4 DEF PopLoop
  <2>2. /\ Head(l) \in Packs /\ Tail(l) \in Seq(Packs) /\ Len(Tail(l)) = Len(l) - 1
        /\ \A i \in 1..Len(Tail(l)) : Tail(l)[i] = l[i + 1]
    BY <1>1, <1>4, HeadTailProperties
  <2>3. <<Head(l)>> \in Seq(Packs) /\ Len(<<Head(l)>>) = 1 /\ DOMAIN Tail(l) = 1..Len(Tail(l))
    BY <2>2
  <2>4. \A i \in DOMAIN Tail(l) : Tail(l)[i].size > 0
    <3>1. ASSUME NEW i \in 1..Len(Tail(l)) PROVE i + 1 \in 1..Len(l)
        BY <1>1, <2>2
    <3>. QED
        BY <1>1, <2>2, <2>3, <3>1
  <2>5. Sound(m_avail', m_logging')
    BY <1>1, <1>2, <2>1, <2>2, <2>4 DEF Sound
  <2>6. hand' \in Seq(Packs) /\ Len(hand') = 1
    BY <2>1, <2>3
  <2>7. Len(m_avail') + Len(m_logging') + Len(hand') = Len(a) + Len(l)
    <3>1. Len(m_avail') = Len(a) /\ Len(m_logging') = Len(l) - 1 /\ Len(hand') = 1
        BY <1>2, <2>1, <2>2, <2>6
    <3>. QED
        BY ONLY <1>1, <3>1
  <2>8. HandOK' /\ wpc' \in {"gone", "ready", "drowsy", "asleep", "woken", "timed out", "busy"}
    BY <2>1 DEF HandOK
  <2>9. Len(hand') <= 1
    BY <2>6
  <2>. QED
    BY <1>3, <2>5, <2>6, <2>7, <2>8, <2>9, ThreadInv
<1>5. CASE l = <<>>
  <2>1. hand' = <<>> /\ m_logging' = <<>> /\ wpc' \in {"drowsy", "gone"}
    BY <1>5 DEF PopLoop
  <2>2. Sound(m_avail', m_logging')
    BY <1>2, <1>5, <2>1
  <2>3. hand' \in Seq(Packs) /\ Len(hand') = 0 /\ Len(l) = 0 /\ Len(m_logging') = 0
    BY <1>5, <2>1
  <2>4. Len(m_avail') + Len(m_logging') + Len(hand') = Len(a) + Len(l)
    BY ONLY <1>1, <1>2, <2>3
  <2>5. HandOK' /\ wpc' \in {"gone", "ready", "drowsy", "asleep", "woken", "timed out", "busy"}
    BY <2>1 DEF HandOK
  <2>6. Len(hand') <= 1
    BY <2>3
  <2>. QED
    BY <1>3, <2>2, <2>3, <2>4, <2>5, <2>6, ThreadInv
<1>. QED
    BY <1>4, <1>5

LEMMA WorkInv ==
    ASSUME Inv, WorkStep
    PROVE  Inv'
<1>1. /\ UNCHANGED <<allocated, ptext, psize, posted, waited, cut>> /\ m_capacity' = m_capacity
      /\ m_capacity' \in {DefaultPacks, ConfiguredPacks}
    BY DEF WorkStep, PopEnter, PopSleep, PopNotified, TimeOut, PopTimedOut, Handled, HandlerThrows,
           workFrame, ownerVars, ghostVars, Inv, ValuesOK
<1>2. ppc \in [Posters -> {"idle", "asleep", "woken"}]
    BY DEF Inv, ValuesOK
<1>3. PICK a, l, h :
        /\ a = m_avail /\ l = m_logging /\ h = hand /\ Sound(a, l) /\ h \in Seq(Packs) /\ Len(h) <= 1
        /\ a \in Seq(Packs) /\ l \in Seq(Packs)
    BY DEF Inv, ValuesOK, Sound
<1>4. PICK w : w = [avail |-> a, logging |-> l] /\ w = Lists
    BY <1>3 DEF Lists
<1>5. Len(a) \in Nat /\ Len(l) \in Nat /\ (h = <<>> => Len(h) = 0) /\ (h # <<>> => Len(h) = 1)
  <2>1. Len(a) \in Nat /\ Len(l) \in Nat
    BY <1>3
  <2>2. h \in Seq(Packs) /\ Len(h) <= 1
    BY <1>3
  <2>3. (h = <<>> => Len(h) = 0) /\ (h # <<>> => Len(h) = 1)
    <3>1. Len(h) \in Nat /\ (Len(h) = 0 <=> h = <<>>)
        BY ONLY <2>2, EmptySeq
    <3>2. PICK k : k = Len(h)
        OBVIOUS
    <3>3. k \in Nat /\ k <= 1
        BY <2>2, <3>1, <3>2
    <3>4. k = 0 \/ k = 1
        BY ONLY <3>3
    <3>. QED
        BY <3>1, <3>2, <3>4, Zenon
  <2>. QED
    BY <2>1, <2>3
<1>6. CASE PopEnter
  <2>1. /\ ppc' \in [Posters -> {"idle", "asleep", "woken"}]
        /\ \A p \in Posters : ppc'[p] # "idle" => ppc[p] # "idle"
    BY <1>2, <1>6 DEF PopEnter
  <2>2. CASE h = <<>>
    <3>1. PopLoop(w) /\ Len(a) + Len(l) = Len(a) + Len(l) + Len(h)
        BY <1>3, <1>4, <1>5, <1>6, <2>2 DEF PopEnter
    <3>2. Len(a) + Len(l) = Len(m_avail) + Len(m_logging) + Len(hand)
        BY <1>3, <3>1
    <3>. QED
        BY <1>1, <1>3, <1>4, <2>1, <3>1, <3>2, LoopInv
  <2>3. CASE h # <<>>
    <3>1. PICK r : r = recycle_avail(w) /\ PopLoop(r)
        BY <1>3, <1>4, <1>6, <2>3 DEF PopEnter
    <3>2. PICK ra : /\ r = [avail |-> ra, logging |-> l]
                    /\ Sound(ra, l) /\ Len(ra) = Len(a) + 1
      <4>1. Sound(a, l) /\ w = [avail |-> a, logging |-> l] /\ r = recycle_avail(w)
        BY <1>3, <1>4, <3>1
      <4>. QED
        BY ONLY <4>1, RecycleFacts
    <3>3. Len(ra) + Len(l) = Len(a) + Len(l) + Len(h)
      <4>1. Len(a) \in Nat /\ Len(l) \in Nat /\ Len(h) = 1 /\ Len(ra) = Len(a) + 1
        BY <1>5, <2>3, <3>2
      <4>. QED
        BY ONLY <4>1
    <3>4. Len(ra) + Len(l) = Len(m_avail) + Len(m_logging) + Len(hand)
        BY <1>3, <3>3
    <3>. QED
        BY <1>1, <2>1, <3>1, <3>2, <3>4, LoopInv
  <2>. QED
    BY <2>2, <2>3
<1>7. CASE PopNotified
  <2>1. h = <<>> /\ PopLoop(w) /\ ppc' = ppc
    BY <1>3, <1>4, <1>7 DEF PopNotified, Inv, HandOK
  <2>2. Len(a) + Len(l) = Len(a) + Len(l) + Len(h)
    BY <1>5, <2>1
  <2>3. Len(a) + Len(l) = Len(m_avail) + Len(m_logging) + Len(hand)
    BY <1>3, <2>2
  <2>. QED
    BY <1>1, <1>2, <1>3, <1>4, <2>1, <2>3, LoopInv
<1>8. CASE PopTimedOut
  <2>1. PICK m : h = <<>> /\ m = move_avail(w) /\ PopLoop(m) /\ ppc' = ppc
    BY <1>3, <1>4, <1>8 DEF PopTimedOut, Inv, HandOK
  <2>2. PICK ma, ml : /\ m = [avail |-> ma, logging |-> ml]
                      /\ Sound(ma, ml) /\ Len(ma) + Len(ml) = Len(a) + Len(l)
    <3>1. Sound(a, l) /\ w = [avail |-> a, logging |-> l] /\ m = move_avail(w)
        BY <1>3, <1>4, <2>1
    <3>. QED
        BY ONLY <3>1, MoveFacts
  <2>3. Len(ma) + Len(ml) = Len(a) + Len(l) + Len(h)
    BY <1>5, <2>1, <2>2
  <2>4. Len(ma) + Len(ml) = Len(m_avail) + Len(m_logging) + Len(hand)
    BY <1>3, <2>3
  <2>. QED
    BY <1>1, <1>2, <2>1, <2>2, <2>4, LoopInv
<1>9. CASE PopSleep \/ TimeOut \/ Handled \/ HandlerThrows
  <2>1. UNCHANGED <<m_avail, m_logging, hand, ppc>>
    BY <1>9 DEF PopSleep, TimeOut, Handled, HandlerThrows
  <2>2. HandOK' /\ wpc' \in {"gone", "ready", "drowsy", "asleep", "woken", "timed out", "busy"}
    BY <1>9 DEF PopSleep, TimeOut, Handled, HandlerThrows, HandOK, Inv
  <2>. QED
    BY <1>1, <1>2, <2>1, <2>2, PlaceInv
<1>. QED
    BY <1>6, <1>7, <1>8, <1>9 DEF WorkStep

LEMMA OwnerInv ==
    ASSUME Inv, Run \/ SetCapacity \/ CloseState \/ CloseNotify \/ Joined \/ UNCHANGED vars
    PROVE  Inv'
<1>1. /\ UNCHANGED <<m_avail, m_logging, hand>>
      /\ UNCHANGED <<allocated, ptext, psize, posted, waited, cut>>
    BY DEF Run, SetCapacity, CloseState, CloseNotify, Joined, vars, ownerFrame, packVars, postVars, ghostVars
<1>2. m_capacity' \in {DefaultPacks, ConfiguredPacks}
    BY DEF Run, SetCapacity, CloseState, CloseNotify, Joined, vars, ownerVars, Inv, ValuesOK
<1>3. HandOK' /\ wpc' \in {"gone", "ready", "drowsy", "asleep", "woken", "timed out", "busy"}
  <2>1. wpc' = "ready" \/ wpc' = NotifyLogging \/ wpc' = wpc
    BY DEF Run, SetCapacity, CloseState, CloseNotify, Joined, vars
  <2>. QED
    BY <1>1, <2>1, NotifyFacts DEF HandOK
<1>4. /\ ppc' \in [Posters -> {"idle", "asleep", "woken"}]
      /\ \A p \in Posters : ppc'[p] # "idle" => ppc[p] # "idle"
  <2>1. ppc \in [Posters -> {"idle", "asleep", "woken"}]
    BY DEF Inv, ValuesOK
  <2>2. CASE ppc' = ppc
    BY <2>1, <2>2
  <2>3. CASE CloseNotify
    BY <2>1, <2>3 DEF CloseNotify
  <2>. QED
    BY <2>2, <2>3 DEF Run, SetCapacity, CloseState, Joined, vars, ownerFrame, postVars
<1>. QED
    BY <1>1, <1>2, <1>3, <1>4, PlaceInv

-----------------------------------------------------------------------------
LEMMA InitInv == Init => Inv
<1>. SUFFICES ASSUME Init PROVE Inv
    OBVIOUS
<1>1. ValuesOK
    BY Constants DEF Init, ValuesOK, NoText
<1>2. HandOK /\ PostersOK
    BY DEF Init, HandOK, PostersOK
<1>3. /\ Sound(m_avail, m_logging)
      /\ allocated = Len(m_avail) + Len(m_logging) + Len(hand)
    BY DEF Init, Sound
<1>4. allocated <= Larger /\ OnlyWaitersAreCut
    BY Constants DEF Init, OnlyWaitersAreCut
<1>. QED
    BY <1>1, <1>2, <1>3, <1>4 DEF Inv

LEMMA InvHolds == Spec => []Inv
<1>1. Inv /\ [Next]_vars => Inv'
    BY PostInv, ResumeInv, WorkInv, OwnerInv DEF Next
<1>. QED
    BY <1>1, InitInv, PTL DEF Spec

\* Whatever posts, waits, timeouts, exceptions and closing do in which order,
\* no pack of the log queue is lost or doubled, the queue's memory stays within
\* its capacity, and get_vail, move_avail and recycle_avail keep the lists in
\* the shape the code relies on.
THEOREM PacksAreAccounted == Spec => []PacksAccounted
<1>1. Inv => PacksAccounted
    BY DEF Inv, Sound, PacksAccounted, Larger
<1>. QED
    BY <1>1, InvHolds, PTL

\* FixBuffer::append cuts no text whose poster found room at once: post moves
\* a pack that is too full first, and the pack behind it is empty.
THEOREM OnlyWaitersLoseText == Spec => []OnlyWaitersAreCut
<1>1. Inv => OnlyWaitersAreCut
    BY DEF Inv
<1>. QED
    BY <1>1, InvHolds, PTL

-----------------------------------------------------------------------------
(* Sequences that are joined.  The library's induction theorems take an    *)
(* operator as a parameter, which the provers cannot instantiate; a set of *)
(* numbers or of sequences takes its place here.                           *)

\* a set of naturals that has 0, and with every number the next, has all
LEMMA NatSet ==
    ASSUME NEW S \in SUBSET Nat, 0 \in S, \A n \in S : n + 1 \in S
    PROVE  S = Nat
<1> DEFINE R == OpToRel(<, Nat)
           T == Nat \ S
<1> SUFFICES ASSUME T # {} PROVE FALSE
  OBVIOUS
<1>1. IsWellFoundedOn(R, Nat) /\ T \subseteq Nat
  BY NatLessThanWellFounded
<1>2. \A x, y \in Nat : y < x => <<y, x>> \in R
  BY DEF OpToRel
<1> HIDE DEF R
<1>3. PICK x \in T : \A y \in T : ~(<<y, x>> \in R)
  BY <1>1, WFMin
<1>4. x \in Nat /\ x # 0 /\ x - 1 \in Nat /\ x - 1 < x
  BY <1>3
<1>5. x - 1 \in S
  BY <1>2, <1>3, <1>4
<1>6. (x - 1) + 1 \in S /\ (x - 1) + 1 = x
  BY <1>4, <1>5
<1> QED BY <1>3, <1>6


\* f[i] is the first i sequences of s joined, for i in D
IsFlat(f, D, s) == f = [i \in D |-> IF i = 1 THEN s[i] ELSE f[i - 1] \o s[i]]
Flat(s) == CHOOSE f : IsFlat(f, 1..Len(s), s)

LEMMA FlattenDef ==
    ASSUME NEW s, Len(s) # 0
    PROVE  FlattenSeq(s) = Flat(s)[Len(s)]
BY DEF FlattenSeq, Flat, IsFlat

LEMMA FlatExists ==
    ASSUME NEW s, Len(s) \in Nat
    PROVE  IsFlat(Flat(s), 1..Len(s), s)
<1> DEFINE S == {n \in Nat : \E f : IsFlat(f, 1..n, s)}
<1>1. 0 \in S
  <2>1. IsFlat([i \in 1..0 |-> s], 1..0, s)
    BY DEF IsFlat
  <2> QED BY <2>1
<1>2. ASSUME NEW n \in S PROVE n + 1 \in S
  <2>1. PICK f : IsFlat(f, 1..n, s)
    OBVIOUS
  <2> DEFINE g == [i \in 1..n + 1 |-> IF i = 1 THEN s[i] ELSE f[i - 1] \o s[i]]
  <2>2. ASSUME NEW i \in 1..n PROVE g[i] = f[i]
    <3>1. f[i] = IF i = 1 THEN s[i] ELSE f[i - 1] \o s[i]
      BY <2>1 DEF IsFlat
    <3>2. i \in 1..n + 1
      OBVIOUS
    <3> QED BY <3>1, <3>2
  <2>3. \A i \in 1..n + 1 : g[i] = IF i = 1 THEN s[i] ELSE g[i - 1] \o s[i]
    <3> SUFFICES ASSUME NEW i \in 1..n + 1
                 PROVE  g[i] = IF i = 1 THEN s[i] ELSE g[i - 1] \o s[i]
      OBVIOUS
    <3>1. i # 1 => i - 1 \in 1..n
      OBVIOUS
    <3>2. g[i] = IF i = 1 THEN s[i] ELSE f[i - 1] \o s[i]
      OBVIOUS
    <3> HIDE DEF g
    <3> QED BY <2>2, <3>1, <3>2
  <2>4. g = [i \in 1..n + 1 |-> g[i]]
    OBVIOUS
  <2> HIDE DEF g
  <2>5. IsFlat(g, 1..n + 1, s)
    BY <2>3, <2>4 DEF IsFlat
  <2> QED BY <2>5
<1>3. S = Nat
  BY <1>1, <1>2, NatSet
<1>4. \E f : IsFlat(f, 1..Len(s), s)
  BY <1>3
<1> QED BY <1>4 DEF Flat

\* Joining a sequence of sequences that has got one more
LEMMA FlattenAppend ==
    ASSUME NEW T, NEW s \in Seq(Seq(T)), NEW e \in Seq(T)
    PROVE  FlattenSeq(Append(s, e)) = FlattenSeq(s) \o e
<1>1. PICK t, n, m, f, g :
        /\ t = Append(s, e) /\ n = Len(s) /\ m = n + 1 /\ f = Flat(s) /\ g = Flat(t)
  OBVIOUS
<1>2. /\ n \in Nat /\ m \in Nat /\ n <= m /\ m \in 1..m /\ m # 0
      /\ Len(t) = m /\ t[m] = e /\ \A i \in 1..n : s[i] = t[i]
  BY <1>1
<1>3. /\ \A i \in 1..n : f[i] = IF i = 1 THEN s[i] ELSE f[i - 1] \o s[i]
      /\ \A i \in 1..m : g[i] = IF i = 1 THEN t[i] ELSE g[i - 1] \o t[i]
  <2>1. IsFlat(Flat(t), 1..Len(t), t)
    BY <1>2, FlatExists
  <2>2. IsFlat(Flat(s), 1..Len(s), s)
    BY <1>1, <1>2, FlatExists
  <2>3. IsFlat(f, 1..n, s) /\ IsFlat(g, 1..m, t)
    BY <1>1, <1>2, <2>1, <2>2
  <2> QED BY ONLY <2>3 DEF IsFlat
<1>4. FlattenSeq(t) = g[m]
  BY <1>1, <1>2, FlattenDef
<1>5. CASE n = 0
  <2>1. s = <<>> /\ FlattenSeq(s) = s
    <3>1. Len(s) = 0 /\ s = <<>>
      BY <1>1, <1>5, EmptySeq
    <3> QED BY ONLY <3>1 DEF FlattenSeq
  <2>2. g[m] = t[m]
    BY <1>1, <1>2, <1>3, <1>5
  <2>3. <<>> \o e = e
    OBVIOUS
  <2> QED BY <1>1, <1>2, <1>4, <2>1, <2>2, <2>3
<1>6. CASE n # 0
  <2> DEFINE S == {k \in Nat : k \in 1..n => f[k] = g[k]}
  <2>1. 0 \in S
    OBVIOUS
  <2>2. ASSUME NEW k \in S PROVE k + 1 \in S
    <3> SUFFICES ASSUME k + 1 \in 1..n PROVE f[k + 1] = g[k + 1]
      OBVIOUS
    <3>1. /\ f[k + 1] = IF k + 1 = 1 THEN s[k + 1] ELSE f[(k + 1) - 1] \o s[k + 1]
          /\ g[k + 1] = IF k + 1 = 1 THEN t[k + 1] ELSE g[(k + 1) - 1] \o t[k + 1]
          /\ s[k + 1] = t[k + 1]
      BY <1>2, <1>3
    <3>2. (k + 1) - 1 = k /\ (k + 1 = 1 \/ k \in 1..n)
      BY <1>2
    <3>3. k \in 1..n => f[k] = g[k]
      OBVIOUS
    <3> QED BY <3>1, <3>2, <3>3
  <2>3. S = Nat
    BY <2>1, <2>2, NatSet
  <2>4. n \in 1..n
    BY <1>2, <1>6
  <2>5. f[n] = g[n]
    BY <1>2, <2>3, <2>4
  <2>6. FlattenSeq(s) = f[n]
    BY <1>1, <1>6, FlattenDef
  <2>7. g[m] = g[n] \o t[m]
    <3>1. m # 1 /\ m - 1 = n
      BY <1>1, <1>2, <1>6
    <3> QED BY <1>2, <1>3, <3>1
  <2> QED BY <1>1, <1>2, <1>4, <2>5, <2>6, <2>7
<1> QED BY <1>5, <1>6

\* a set of sequences that has the empty one, and with each its extensions, has all
LEMMA SeqSet ==
    ASSUME NEW E, NEW S \in SUBSET Seq(E), <<>> \in S, \A s \in S, e \in E : Append(s, e) \in S
    PROVE  S = Seq(E)
<1> DEFINE N == {n \in Nat : \A s \in Seq(E) : Len(s) = n => s \in S}
<1>1. 0 \in N
  BY EmptySeq
<1>2. ASSUME NEW n \in N PROVE n + 1 \in N
  <2> SUFFICES ASSUME NEW t \in Seq(E), Len(t) = n + 1 PROVE t \in S
    OBVIOUS
  <2>1. t # <<>>
    OBVIOUS
  <2>2. PICK s \in Seq(E), e \in E : t = Append(s, e)
    BY <2>1, SequenceEmptyOrAppend
  <2>3. Len(s) = n
    BY <2>2
  <2>4. s \in S
    BY <2>3
  <2> QED BY <2>2, <2>4
<1>3. N = Nat
  BY <1>1, <1>2, NatSet
<1>4. ASSUME NEW s \in Seq(E) PROVE s \in S
  <2>1. Len(s) \in N
    BY <1>3
  <2> QED BY <2>1
<1> QED BY <1>4

-----------------------------------------------------------------------------
(* The texts in a list of packs                                            *)

LEMMA PackTexts == EmptyPack.texts = <<>> /\ \A k \in Packs : k.texts \in Seq(Texts)
BY DEF EmptyPack, Packs

LEMMA Joins ==
    \A x, y, z \in Seq(Texts) :
        /\ x \o y \in Seq(Texts) /\ (x \o y) \o z = x \o (y \o z)
        /\ <<>> \o x = x /\ x \o <<>> = x
BY ConcatProperties, ConcatAssociative, ConcatEmptySeq

LEMMA JoinAppend ==
    \A x, y \in Seq(Texts), t \in Texts : x \o Append(y, t) = Append(x \o y, t)
<1> SUFFICES ASSUME NEW x \in Seq(Texts), NEW y \in Seq(Texts), NEW t \in Texts
             PROVE  x \o Append(y, t) = Append(x \o y, t)
  OBVIOUS
<1>1. <<t>> \in Seq(Texts) /\ x \o y \in Seq(Texts)
  BY Joins
<1>2. Append(y, t) = y \o <<t>> /\ Append(x \o y, t) = (x \o y) \o <<t>>
  BY <1>1, AppendIsConcat
<1> QED BY <1>1, <1>2, Joins

LEMMA TextsOfNone == TextsOf(<<>>) = <<>>
<1>1. PICK s : s = [i \in DOMAIN <<>> |-> <<>>[i].texts] /\ s = <<>> /\ Len(s) = 0
  OBVIOUS
<1>2. FlattenSeq(s) = s
  BY ONLY <1>1 DEF FlattenSeq
<1> QED BY <1>1, <1>2 DEF TextsOf

LEMMA TextsOfAppend ==
    ASSUME NEW s \in Seq(Packs), NEW k \in Packs
    PROVE  TextsOf(Append(s, k)) = TextsOf(s) \o k.texts
<1>1. PICK x, y : /\ x = [i \in DOMAIN s |-> s[i].texts]
                  /\ y = [i \in DOMAIN Append(s, k) |-> Append(s, k)[i].texts]
  OBVIOUS
<1>2. k.texts \in Seq(Texts) /\ \A i \in DOMAIN s : s[i].texts \in Seq(Texts)
  BY PackTexts
<1>3. x \in Seq(Seq(Texts)) /\ Len(x) = Len(s)
  BY <1>1, <1>2
<1>4. y = Append(x, k.texts)
  <2>1. /\ DOMAIN y = 1..Len(s) + 1 /\ DOMAIN Append(x, k.texts) = 1..Len(s) + 1
        /\ y = [i \in 1..Len(s) + 1 |-> y[i]]
        /\ Append(x, k.texts) = [i \in 1..Len(s) + 1 |-> Append(x, k.texts)[i]]
    BY <1>1, <1>2, <1>3
  <2>2. \A i \in 1..Len(s) + 1 : y[i] = Append(x, k.texts)[i]
    BY <1>1, <1>2, <1>3
  <2> QED BY <2>1, <2>2
<1>5. FlattenSeq(y) = FlattenSeq(x) \o k.texts
  BY <1>2, <1>3, <1>4, FlattenAppend
<1> QED BY <1>1, <1>5 DEF TextsOf

LEMMA TextsOfOne ==
    ASSUME NEW k \in Packs
    PROVE  TextsOf(<<k>>) = k.texts
<1>1. <<k>> = Append(<<>>, k) /\ <<>> \in Seq(Packs) /\ k.texts \in Seq(Texts)
  BY PackTexts
<1>2. TextsOf(<<k>>) = TextsOf(<<>>) \o k.texts
  BY <1>1, TextsOfAppend
<1>3. <<>> \o k.texts = k.texts
  BY <1>1, Joins
<1> QED BY <1>2, <1>3, TextsOfNone

LEMMA OneInHand ==
    ASSUME Inv, hand # <<>>
    PROVE  \E k \in Packs : hand = <<k>>
<1>1. hand \in Seq(Packs) /\ Len(hand) <= 1 /\ Len(hand) # 0 /\ Len(hand) \in Nat
  BY EmptySeq DEF Inv, ValuesOK
<1>2. Len(hand) = 1 /\ hand[1] \in Packs
  BY <1>1
<1>3. hand = <<hand[1]>>
  BY <1>1, <1>2
<1> QED BY <1>2, <1>3

LEMMA TextsOfType == \A s \in Seq(Packs) : TextsOf(s) \in Seq(Texts)
<1> DEFINE S == {s \in Seq(Packs) : TextsOf(s) \in Seq(Texts)}
<1>1. <<>> \in S
  <2>1. <<>> \in Seq(Packs) /\ <<>> \in Seq(Texts)
    OBVIOUS
  <2> QED BY <2>1, TextsOfNone, Zenon
<1>2. ASSUME NEW s \in S, NEW k \in Packs PROVE Append(s, k) \in S
  <2>1. TextsOf(Append(s, k)) = TextsOf(s) \o k.texts
    BY TextsOfAppend
  <2>2. TextsOf(s) \o k.texts \in Seq(Texts)
    BY PackTexts
  <2> QED BY <2>1, <2>2, AppendFacts
<1>3. S = Seq(Packs)
  BY <1>1, <1>2, SeqSet
<1> QED BY <1>3

LEMMA TextsOfHead ==
    \A s \in Seq(Packs) : s # <<>> => TextsOf(s) = Head(s).texts \o TextsOf(Tail(s))
<1> DEFINE S == {s \in Seq(Packs) : s # <<>> => TextsOf(s) = Head(s).texts \o TextsOf(Tail(s))}
<1>1. <<>> \in S
  OBVIOUS
<1>2. ASSUME NEW s \in S, NEW k \in Packs PROVE Append(s, k) \in S
  <2>1. s \in Seq(Packs) /\ Append(s, k) \in Seq(Packs)
    BY AppendFacts
  <2>2. TextsOf(Append(s, k)) = TextsOf(s) \o k.texts
    BY <2>1, TextsOfAppend
  <2>3. CASE s = <<>>
    <3>1. Head(Append(s, k)) = k /\ Tail(Append(s, k)) = <<>>
      BY <2>3
    <3>2. k.texts \in Seq(Texts)
      BY PackTexts
    <3>3. <<>> \o k.texts = k.texts /\ k.texts \o <<>> = k.texts
      BY <3>2, ConcatEmptySeq
    <3> QED BY <2>1, <2>2, <2>3, <3>1, <3>3, TextsOfNone
  <2>4. CASE s # <<>>
    <3>1. TextsOf(s) = Head(s).texts \o TextsOf(Tail(s))
      BY <2>4
    <3>2. /\ Head(Append(s, k)) = Head(s) /\ Tail(Append(s, k)) = Append(Tail(s), k)
          /\ Tail(s) \in Seq(Packs) /\ Head(s) \in Packs
      BY <2>1, <2>4, HeadTailAppend, HeadTailProperties
    <3>3. TextsOf(Append(Tail(s), k)) = TextsOf(Tail(s)) \o k.texts
      BY <3>2, TextsOfAppend
    <3>4. /\ Head(s).texts \in Seq(Texts) /\ k.texts \in Seq(Texts)
          /\ TextsOf(Tail(s)) \in Seq(Texts)
      BY <3>2, PackTexts, TextsOfType
    <3>5. (Head(s).texts \o TextsOf(Tail(s))) \o k.texts
              = Head(s).texts \o (TextsOf(Tail(s)) \o k.texts)
      <4>1. PICK x, y, z \in Seq(Texts) :
              x = Head(s).texts /\ y = TextsOf(Tail(s)) /\ z = k.texts
        BY <3>4
      <4>2. (x \o y) \o z = x \o (y \o z)
        BY ONLY x \in Seq(Texts), y \in Seq(Texts), z \in Seq(Texts), Joins
      <4> QED BY ONLY <4>1, <4>2
    <3> QED BY <2>1, <2>2, <3>1, <3>2, <3>3, <3>5
  <2> QED BY <2>3, <2>4
<1>3. S = Seq(Packs)
  BY <1>1, <1>2, SeqSet
<1> QED BY <1>3

LEMMA TextsOfEmpty ==
    \A s \in Seq(Packs) : (\A i \in 1..Len(s) : s[i] = EmptyPack) => TextsOf(s) = <<>>
<1> DEFINE S == {s \in Seq(Packs) : (\A i \in 1..Len(s) : s[i] = EmptyPack) => TextsOf(s) = <<>>}
<1>1. <<>> \in S
  BY TextsOfNone
<1>2. ASSUME NEW s \in S, NEW k \in Packs PROVE Append(s, k) \in S
  <2>1. /\ s \in Seq(Packs) /\ Append(s, k) \in Seq(Packs)
        /\ Len(s) \in Nat /\ Len(Append(s, k)) = Len(s) + 1
        /\ \A i \in 1..Len(s) : Append(s, k)[i] = s[i]
        /\ Append(s, k)[Len(s) + 1] = k
    BY AppendFacts
  <2> SUFFICES ASSUME \A i \in 1..Len(Append(s, k)) : Append(s, k)[i] = EmptyPack
               PROVE  TextsOf(Append(s, k)) = <<>>
    BY <2>1
  <2>2. k = EmptyPack /\ \A i \in 1..Len(s) : s[i] = EmptyPack
    BY <2>1
  <2>3. TextsOf(s) = <<>> /\ k.texts = <<>>
    BY <2>2, PackTexts
  <2> QED BY <2>1, <2>3, TextsOfAppend
<1>3. S = Seq(Packs)
  BY <1>1, <1>2, SeqSet
<1> QED BY <1>3

-----------------------------------------------------------------------------
(* The order of the texts                                                  *)

\* the texts in the two lists, those to be logged first in front
Kept(a, l) == TextsOf(l) \o TextsOf(a)

\* Every text written is logged, in the hands of the log thread or in a list, in
\* that order; the thread has a pack while it is busy, and none before it runs.
OrderInv ==
    /\ written \in Seq(Texts) /\ logged \in Seq(Texts)
    /\ written = (logged \o Taken) \o Kept(m_avail, m_logging)
    /\ wpc = "busy" => hand # <<>>
    /\ stage = "new" => hand = <<>> /\ wpc = "gone"

LEMMA KeptTypes ==
    ASSUME NEW a, NEW l, Sound(a, l)
    PROVE  /\ a \in Seq(Packs) /\ l \in Seq(Packs)
           /\ TextsOf(a) \in Seq(Texts) /\ TextsOf(l) \in Seq(Texts)
           /\ Kept(a, l) \in Seq(Texts)
<1>1. a \in Seq(Packs) /\ l \in Seq(Packs)
  BY DEF Sound
<1>2. TextsOf(a) \in Seq(Texts) /\ TextsOf(l) \in Seq(Texts)
  BY <1>1, TextsOfType
<1> QED BY <1>1, <1>2, Joins DEF Kept

\* only the pack in use has texts
LEMMA InUse ==
    ASSUME NEW a \in Seq(Packs), a # <<>>, \A i \in 1..Len(a) - 1 : a[i] = EmptyPack
    PROVE  /\ TextsOf(Front(a)) = <<>> /\ TextsOf(a) = Last(a).texts
           /\ Front(a) \in Seq(Packs) /\ Last(a) \in Packs
<1>1. PICK s \in Seq(Packs), k \in Packs : a = Append(s, k)
  BY SequenceEmptyOrAppend
<1>2. /\ Front(a) = s /\ Last(a) = k /\ Len(a) = Len(s) + 1 /\ Len(s) \in Nat
      /\ \A i \in 1..Len(s) : a[i] = s[i]
  BY <1>1, AppendFacts
<1>3. \A i \in 1..Len(s) : s[i] = EmptyPack
  BY <1>2
<1>4. TextsOf(s) = <<>>
  BY <1>3, TextsOfEmpty
<1>5. TextsOf(a) = <<>> \o k.texts /\ k.texts \in Seq(Texts)
  BY <1>1, <1>4, TextsOfAppend, PackTexts
<1>6. TextsOf(a) = k.texts
  BY <1>5, Joins
<1> QED BY <1>2, <1>4, <1>6

LEMMA MoveKept ==
    ASSUME NEW a, NEW l, Sound(a, l), NEW q, q = [avail |-> a, logging |-> l],
           NEW m, m = move_avail(q)
    PROVE  Kept(m.avail, m.logging) = Kept(a, l)
<1>1. CASE a # <<>> /\ Last(a).size > 0
  <2>1. m.avail = Front(a) /\ m.logging = Append(l, Last(a))
    BY <1>1 DEF move_avail
  <2>2. /\ TextsOf(Front(a)) = <<>> /\ TextsOf(a) = Last(a).texts
        /\ Front(a) \in Seq(Packs) /\ Last(a) \in Packs
    BY <1>1, InUse DEF Sound
  <2>3. l \in Seq(Packs) /\ TextsOf(l) \in Seq(Texts) /\ Last(a).texts \in Seq(Texts)
    BY <2>2, KeptTypes, PackTexts
  <2>4. TextsOf(Append(l, Last(a))) = TextsOf(l) \o Last(a).texts
    BY <2>2, <2>3, TextsOfAppend
  <2>5. PICK x, y \in Seq(Texts) : x = TextsOf(l) /\ y = Last(a).texts
    BY <2>3
  <2>6. (x \o y) \o <<>> = x \o y
    BY ONLY x \in Seq(Texts), y \in Seq(Texts), Joins
  <2> QED BY <2>1, <2>2, <2>4, <2>5, <2>6 DEF Kept
<1>2. CASE ~(a # <<>> /\ Last(a).size > 0)
  BY <1>2 DEF move_avail
<1> QED BY <1>1, <1>2

LEMMA RecycleKept ==
    ASSUME NEW a, NEW l, Sound(a, l), NEW q, q = [avail |-> a, logging |-> l],
           NEW r, r = recycle_avail(q)
    PROVE  Kept(r.avail, r.logging) = Kept(a, l)
<1>0. r.logging = l /\ a \in Seq(Packs) /\ EmptyPack \in Packs /\ EmptyPack.texts = <<>>
  BY PackFacts, PackTexts DEF recycle_avail, Sound
<1> SUFFICES TextsOf(r.avail) = TextsOf(a)
  BY <1>0 DEF Kept
<1>1. CASE a = <<>>
  <2>1. r.avail = Append(<<>>, EmptyPack)
    BY <1>1 DEF recycle_avail
  <2>2. <<>> \in Seq(Packs) /\ <<>> \o <<>> = <<>>
    OBVIOUS
  <2>3. TextsOf(Append(<<>>, EmptyPack)) = TextsOf(<<>>) \o EmptyPack.texts
    BY <1>0, <2>2, TextsOfAppend
  <2> QED BY <1>0, <1>1, <2>1, <2>2, <2>3, TextsOfNone
<1>2. CASE a # <<>>
  <2> DEFINE f == Append(Front(a), EmptyPack)
  <2>1. r.avail = f \o <<Last(a)>>
    BY <1>2 DEF recycle_avail
  <2>2. /\ TextsOf(Front(a)) = <<>> /\ TextsOf(a) = Last(a).texts
        /\ Front(a) \in Seq(Packs) /\ Last(a) \in Packs
    BY <1>2, InUse DEF Sound
  <2>3. f \in Seq(Packs) /\ TextsOf(f) = <<>>
    <3>1. TextsOf(f) = TextsOf(Front(a)) \o EmptyPack.texts
      BY <1>0, <2>2, TextsOfAppend
    <3>2. <<>> \o <<>> = <<>>
      OBVIOUS
    <3> QED BY <1>0, <2>2, <3>1, <3>2, AppendFacts
  <2> HIDE DEF f
  <2>4. f \o <<Last(a)>> = Append(f, Last(a))
    BY <2>2, <2>3, AppendIsConcat
  <2>5. TextsOf(Append(f, Last(a))) = <<>> \o Last(a).texts /\ Last(a).texts \in Seq(Texts)
    BY <2>2, <2>3, TextsOfAppend, PackTexts
  <2>6. <<>> \o Last(a).texts = Last(a).texts
    BY <2>5, Joins
  <2> QED BY <2>1, <2>2, <2>4, <2>5, <2>6
<1> QED BY <1>1, <1>2

\* the text that is written is the last one in the lists
LEMMA WriteKept ==
    ASSUME NEW p, NEW t \in Texts, NEW n \in 1..PackCapacity, NEW qa, NEW ql, Sound(qa, ql),
           NEW q, q = [avail |-> qa, logging |-> ql], Write(p, t, n, q)
    PROVE  Kept(m_avail', m_logging') = Append(Kept(qa, ql), t)
<1>1. PICK pack, rest :
        /\ pack = IF qa = <<>> THEN EmptyPack ELSE Last(qa)
        /\ rest = IF qa = <<>> THEN <<>> ELSE Front(qa)
  OBVIOUS
<1>2. /\ qa \in Seq(Packs) /\ ql \in Seq(Packs) /\ TextsOf(ql) \in Seq(Texts)
      /\ \A i \in 1..Len(qa) - 1 : qa[i] = EmptyPack
      /\ \A i \in DOMAIN ql : ql[i].size > 0
  BY KeptTypes DEF Sound
<1>3. /\ pack \in Packs /\ rest \in Seq(Packs) /\ pack.texts \in Seq(Texts)
      /\ \A i \in 1..Len(rest) : rest[i] = EmptyPack
      /\ TextsOf(rest) = <<>> /\ TextsOf(qa) = pack.texts
  <2>1. CASE qa = <<>>
    BY <1>1, <2>1, PackFacts, PackTexts, TextsOfNone
  <2>2. CASE qa # <<>>
    <3>1. pack = Last(qa) /\ rest = Front(qa)
      BY <1>1, <2>2
    <3>2. /\ Len(Front(qa)) = Len(qa) - 1
          /\ \A i \in 1..Len(qa) - 1 : Front(qa)[i] = qa[i]
      BY <1>2, <2>2, FrontFacts
    <3>3. \A i \in 1..Len(rest) : rest[i] = EmptyPack
      BY ONLY <1>2, <3>1, <3>2
    <3> QED BY <1>2, <2>2, <3>1, <3>3, InUse, PackTexts
  <2> QED BY <2>1, <2>2
<1>4. PICK full \in Packs : full = Filled(pack, t, n)
  BY <1>3, PackFacts
<1>5. PICK a, put : a = Append(rest, full) /\ put = [avail |-> a, logging |-> ql]
  OBVIOUS
<1>6. PICK end : end = IF Room(full) = 0 THEN move_avail(put) ELSE put
  OBVIOUS
<1>7. m_avail' = end.avail /\ m_logging' = end.logging
  <2>1. put = [q EXCEPT !.avail = Append(rest, full)]
    <3>1. q = [avail |-> qa, logging |-> ql]
      OBVIOUS
    <3>2. put = [avail |-> a, logging |-> ql]
      BY <1>5
    <3>3. put = [q EXCEPT !.avail = a]
      BY ONLY <3>1, <3>2
    <3> QED BY ONLY <1>5, <3>3
  <2>2. qa = q.avail /\ ql = q.logging
    OBVIOUS
  <2> QED BY <1>1, <1>4, <1>6, <2>1, <2>2 DEF Write
<1>8. Sound(a, ql)
  <2>1. /\ a \in Seq(Packs) /\ Len(a) = Len(rest) + 1 /\ Len(rest) \in Nat
        /\ \A i \in 1..Len(rest) : a[i] = rest[i]
    BY <1>3, <1>4, <1>5, AppendFacts
  <2>2. \A i \in 1..Len(a) - 1 : a[i] = EmptyPack
    BY <1>3, <2>1
  <2> QED BY <1>2, <2>1, <2>2 DEF Sound
<1>9. Kept(end.avail, end.logging) = Kept(a, ql)
  <2>1. CASE end = put
    BY <1>5, <2>1
  <2>2. CASE end = move_avail(put)
    <3>1. Sound(a, ql) /\ put = [avail |-> a, logging |-> ql]
      BY <1>5, <1>8
    <3> QED BY ONLY <2>2, <3>1, MoveKept
  <2> QED BY <1>6, <2>1, <2>2
<1>10. TextsOf(a) = Append(pack.texts, t)
  <2>1. full.texts = Append(pack.texts, t)
    BY <1>4 DEF Filled
  <2>2. TextsOf(a) = <<>> \o full.texts /\ full.texts \in Seq(Texts)
    BY <1>3, <1>4, <1>5, TextsOfAppend, PackTexts
  <2>3. <<>> \o full.texts = full.texts
    BY <2>2, Joins
  <2> QED BY <2>1, <2>2, <2>3
<1>11. PICK x, y \in Seq(Texts) : x = TextsOf(ql) /\ y = pack.texts
  BY <1>2, <1>3
<1>12. x \o Append(y, t) = Append(x \o y, t)
  BY ONLY x \in Seq(Texts), y \in Seq(Texts), t \in Texts, JoinAppend
<1> QED BY <1>3, <1>7, <1>9, <1>10, <1>11, <1>12 DEF Kept

\* what pop takes was the first in the lists
LEMMA LoopKept ==
    ASSUME NEW a, NEW l, Sound(a, l), NEW q, q = [avail |-> a, logging |-> l], PopLoop(q)
    PROVE  /\ Taken' \o Kept(m_avail', m_logging') = Kept(a, l)
           /\ Taken' \in Seq(Texts) /\ Kept(m_avail', m_logging') \in Seq(Texts)
           /\ wpc' = "busy" => hand' # <<>>
<1>1. /\ a \in Seq(Packs) /\ l \in Seq(Packs) /\ m_avail' = a
      /\ TextsOf(a) \in Seq(Texts) /\ TextsOf(l) \in Seq(Texts)
  BY KeptTypes DEF PopLoop
<1>2. CASE l # <<>>
  <2>1. hand' = <<Head(l)>> /\ m_logging' = Tail(l) /\ wpc' = "busy"
    BY <1>2 DEF PopLoop
  <2>2. Head(l) \in Packs /\ Tail(l) \in Seq(Packs)
    BY <1>1, <1>2, HeadTailProperties
  <2>3. Head(l).texts \in Seq(Texts) /\ TextsOf(Tail(l)) \in Seq(Texts)
    BY <2>2, PackTexts, TextsOfType
  <2>4. Taken' = Head(l).texts
    <3>1. Taken' = TextsOf(hand')
      BY <2>1 DEF Taken
    <3>2. TextsOf(<<Head(l)>>) = Head(l).texts
      BY <2>2, TextsOfOne
    <3> QED BY <2>1, <3>1, <3>2
  <2>5. TextsOf(l) = Head(l).texts \o TextsOf(Tail(l))
    BY <1>1, <1>2, TextsOfHead
  <2>6. PICK x, y, z \in Seq(Texts) :
          x = Head(l).texts /\ y = TextsOf(Tail(l)) /\ z = TextsOf(a)
    BY <1>1, <2>3
  <2>7. (x \o y) \o z = x \o (y \o z) /\ y \o z \in Seq(Texts)
    BY ONLY x \in Seq(Texts), y \in Seq(Texts), z \in Seq(Texts), Joins
  <2>8. Kept(m_avail', m_logging') = y \o z /\ Kept(a, l) = (x \o y) \o z /\ Taken' = x
    BY <1>1, <2>1, <2>4, <2>5, <2>6 DEF Kept
  <2>9. hand' # <<>>
    BY <2>1
  <2> QED BY <2>6, <2>7, <2>8, <2>9
<1>3. CASE l = <<>>
  <2>1. hand' = <<>> /\ m_logging' = <<>> /\ wpc' \in {"drowsy", "gone"}
    BY <1>3 DEF PopLoop
  <2>2. Taken' = <<>>
    BY <2>1, TextsOfNone DEF Taken
  <2>3. Kept(m_avail', m_logging') = Kept(a, l) /\ Kept(a, l) \in Seq(Texts)
    BY <1>1, <1>3, <2>1, KeptTypes
  <2>4. <<>> \o Kept(a, l) = Kept(a, l) /\ <<>> \in Seq(Texts)
    BY <2>3, Joins
  <2> QED BY <2>1, <2>2, <2>3, <2>4
<1> QED BY <1>2, <1>3

LEMMA TakenTypes ==
    ASSUME Inv
    PROVE  /\ Taken \in Seq(Texts) /\ Kept(m_avail, m_logging) \in Seq(Texts)
           /\ Sound(m_avail, m_logging)
<1>1. TextsOf(hand) \in Seq(Texts) /\ Sound(m_avail, m_logging)
  BY TextsOfType DEF Inv, ValuesOK
<1>2. Taken \in Seq(Texts)
  BY <1>1 DEF Taken
<1> QED BY <1>1, <1>2, KeptTypes

\* where the log thread is told of a pack, it keeps what it has
LEMMA NotifyTaken ==
    ASSUME wpc' = NotifyLogging \/ wpc' = wpc, hand' = hand
    PROVE  /\ Taken' = Taken /\ (wpc' = "busy" <=> wpc = "busy")
           /\ wpc = "gone" => wpc' = "gone"
BY DEF NotifyLogging, Taken

LEMMA PostOrder ==
    ASSUME Inv, OrderInv, NEW p, NEW t \in Texts, NEW n \in 1..PackCapacity,
           NEW qa, NEW ql, Sound(qa, ql), Kept(qa, ql) = Kept(m_avail, m_logging),
           NEW q, q = [avail |-> qa, logging |-> ql],
           Write(p, t, n, q) \/ Block(p, t, n, q),
           UNCHANGED <<logged, hand, stage>>
    PROVE  OrderInv'
<1>1. wpc' = NotifyLogging \/ wpc' = wpc
  BY DEF Write, Block
<1>2. /\ Taken' = Taken /\ (wpc' = "busy" <=> wpc = "busy")
      /\ wpc = "gone" => wpc' = "gone"
  BY <1>1, NotifyTaken
<1>3. /\ wpc' = "busy" => hand' # <<>>
      /\ stage' = "new" => hand' = <<>> /\ wpc' = "gone"
  BY <1>2 DEF OrderInv
<1>4. PICK x, y, k \in Seq(Texts) : x = logged /\ y = Taken /\ k = Kept(m_avail, m_logging)
  BY TakenTypes DEF OrderInv
<1>5. written = (x \o y) \o k /\ written \in Seq(Texts)
  BY <1>4 DEF OrderInv
<1>6. CASE Write(p, t, n, q)
  <2>1. Kept(m_avail', m_logging') = Append(k, t)
    BY <1>4, <1>6, WriteKept
  <2>2. written' = Append(written, t)
    BY <1>6 DEF Write
  <2>3. x \o y \in Seq(Texts)
    BY ONLY x \in Seq(Texts), y \in Seq(Texts), Joins
  <2>4. (x \o y) \o Append(k, t) = Append((x \o y) \o k, t)
    BY <2>3, JoinAppend
  <2>5. written' = (logged' \o Taken') \o Kept(m_avail', m_logging')
    BY <1>2, <1>4, <1>5, <2>1, <2>2, <2>4
  <2>6. written' \in Seq(Texts) /\ logged' \in Seq(Texts)
    BY <1>4, <1>5, <2>2
  <2> QED BY <1>3, <2>5, <2>6 DEF OrderInv
<1>7. CASE Block(p, t, n, q)
  <2>1. m_avail' = qa /\ m_logging' = ql /\ written' = written
    BY <1>7 DEF Block
  <2>2. Kept(m_avail', m_logging') = k
    BY <1>4, <2>1
  <2>3. written' = (logged' \o Taken') \o Kept(m_avail', m_logging')
    BY <1>2, <1>4, <1>5, <2>1, <2>2
  <2> QED BY <1>3, <1>4, <1>5, <2>1, <2>3 DEF OrderInv
<1> QED BY <1>6, <1>7

LEMMA PostsOrder ==
    ASSUME Inv, OrderInv, NEW p \in Posters,
           \/ \E n \in 1..PackCapacity : PostAtOnce(p, n) \/ PostBlocks(p, n)
           \/ PostResumes(p)
    PROVE  OrderInv'
<1>1. PICK w : w = [avail |-> m_avail, logging |-> m_logging] /\ w = Lists
  BY DEF Lists
<1>2. Sound(m_avail, m_logging)
  BY TakenTypes
<1>3. CASE PostResumes(p)
  <2>1. ppc[p] = "woken" /\ UNCHANGED <<logged, hand, stage>>
    BY <1>3 DEF PostResumes, ownerVars
  <2>2. PICK t \in Texts, n \in 1..PackCapacity : t = ptext[p] /\ n = psize[p]
    BY <2>1 DEF Inv, PostersOK
  <2>3. Write(p, t, n, w) \/ Block(p, t, n, w)
    BY <1>1, <1>3, <2>2 DEF PostResumes
  <2> QED BY <1>1, <1>2, <2>1, <2>3, PostOrder
<1>4. ASSUME NEW n \in 1..PackCapacity, PostAtOnce(p, n) \/ PostBlocks(p, n)
      PROVE  OrderInv'
  <2>1. PICK t, q : t = posted + 1 /\ q = MadeRoom(n)
    OBVIOUS
  <2>2. posted < MaxPosts /\ posted \in 0..MaxPosts /\ UNCHANGED <<logged, hand, stage>>
    BY <1>4 DEF PostAtOnce, PostBlocks, NewPost, ownerVars, Inv, ValuesOK
  <2>3. t \in Texts
    BY <2>1, <2>2, Constants DEF Texts
  <2>4. Write(p, t, n, q) \/ Block(p, t, n, q)
    BY <1>4, <2>1 DEF PostAtOnce, PostBlocks
  <2>5. PICK a, l : a = m_avail /\ l = m_logging /\ Sound(a, l) /\ w = [avail |-> a, logging |-> l]
    BY <1>1, <1>2
  <2>6. PICK qa, ql : /\ q = [avail |-> qa, logging |-> ql]
                      /\ Sound(qa, ql) /\ Kept(qa, ql) = Kept(a, l)
    <3>1. CASE q = w
      BY <2>5, <3>1
    <3>2. CASE q = move_avail(w)
      <4>1. PICK ma, ml : q = [avail |-> ma, logging |-> ml] /\ Sound(ma, ml)
        BY <2>5, <3>2, MoveFacts
      <4>2. Kept(q.avail, q.logging) = Kept(a, l)
        BY <2>5, <3>2, MoveKept
      <4>3. q.avail = ma /\ q.logging = ml
        BY <4>1
      <4> QED BY <4>1, <4>2, <4>3
    <3> QED BY <1>1, <2>1, <3>1, <3>2 DEF MadeRoom
  <2>7. Kept(qa, ql) = Kept(m_avail, m_logging)
    BY <2>5, <2>6
  <2> QED BY <2>2, <2>3, <2>4, <2>6, <2>7, PostOrder
<1> QED BY <1>3, <1>4

\* pop goes round with lists that hold the texts the lists held
LEMMA PopOrder ==
    ASSUME Inv, OrderInv, Taken = <<>>, wpc # "gone",
           NEW a, NEW l, Sound(a, l), Kept(a, l) = Kept(m_avail, m_logging),
           NEW q, q = [avail |-> a, logging |-> l], PopLoop(q),
           UNCHANGED <<written, logged, stage>>
    PROVE  OrderInv'
<1>1. /\ Taken' \o Kept(m_avail', m_logging') = Kept(a, l)
      /\ Taken' \in Seq(Texts) /\ Kept(m_avail', m_logging') \in Seq(Texts)
      /\ wpc' = "busy" => hand' # <<>>
  BY LoopKept
<1>2. PICK x, y, k \in Seq(Texts) : x = logged /\ y = Taken' /\ k = Kept(m_avail', m_logging')
  BY <1>1 DEF OrderInv
<1>3. written = (x \o <<>>) \o (y \o k) /\ stage # "new"
  BY <1>1, <1>2 DEF OrderInv
<1>4. x \o <<>> = x /\ (x \o y) \o k = x \o (y \o k)
  BY ONLY x \in Seq(Texts), y \in Seq(Texts), k \in Seq(Texts), Joins
<1>5. written' = (logged' \o Taken') \o Kept(m_avail', m_logging')
  BY <1>2, <1>3, <1>4
<1> QED BY <1>1, <1>3, <1>5 DEF OrderInv

LEMMA WorkOrder ==
    ASSUME Inv, OrderInv, WorkStep
    PROVE  OrderInv'
<1>0. UNCHANGED <<written, stage>>
  BY DEF WorkStep, PopEnter, PopSleep, PopNotified, TimeOut, PopTimedOut, Handled, HandlerThrows,
         workFrame, ghostVars, ownerVars
<1>1. PICK a, l : a = m_avail /\ l = m_logging /\ Sound(a, l)
  BY TakenTypes
<1>2. PICK w : w = [avail |-> a, logging |-> l] /\ w = Lists
  BY <1>1 DEF Lists
<1>3. CASE PopEnter \/ PopNotified \/ PopTimedOut
  <2>1. Taken = <<>> /\ wpc # "gone" /\ logged' = logged
    BY <1>3 DEF PopEnter, PopNotified, PopTimedOut, Taken
  <2>2. PICK q : /\ PopLoop(q)
                 /\ q = w \/ q = recycle_avail(w) \/ q = move_avail(w)
    BY <1>2, <1>3 DEF PopEnter, PopNotified, PopTimedOut
  <2>3. PICK qa, ql : /\ q = [avail |-> qa, logging |-> ql]
                      /\ Sound(qa, ql) /\ Kept(qa, ql) = Kept(a, l)
    <3>1. CASE q = w
      BY <1>1, <1>2, <3>1
    <3>2. CASE q = recycle_avail(w)
      <4>1. PICK ra : q = [avail |-> ra, logging |-> l] /\ Sound(ra, l)
        BY <1>1, <1>2, <3>2, RecycleFacts
      <4>2. Kept(q.avail, q.logging) = Kept(a, l)
        BY <1>1, <1>2, <3>2, RecycleKept
      <4>3. q.avail = ra /\ q.logging = l
        BY <4>1
      <4> QED BY <4>1, <4>2, <4>3
    <3>3. CASE q = move_avail(w)
      <4>1. PICK ma, ml : q = [avail |-> ma, logging |-> ml] /\ Sound(ma, ml)
        BY <1>1, <1>2, <3>3, MoveFacts
      <4>2. Kept(q.avail, q.logging) = Kept(a, l)
        BY <1>1, <1>2, <3>3, MoveKept
      <4>3. q.avail = ma /\ q.logging = ml
        BY <4>1
      <4> QED BY <4>1, <4>2, <4>3
    <3> QED BY <2>2, <3>1, <3>2, <3>3
  <2>4. Kept(qa, ql) = Kept(m_avail, m_logging)
    BY <1>1, <2>3
  <2> QED BY <1>0, <2>1, <2>2, <2>3, <2>4, PopOrder
<1>4. CASE Handled
  <2>1. /\ wpc = "busy" /\ wpc' = "ready" /\ hand # <<>> /\ stage # "new"
        /\ logged' = logged \o hand[1].texts /\ UNCHANGED <<m_avail, m_logging>>
    BY <1>4 DEF Handled, OrderInv
  <2>2. PICK k \in Packs : hand = <<k>>
    BY <2>1, OneInHand
  <2>3. Taken = k.texts /\ Taken' = <<>> /\ hand[1] = k
    BY <2>1, <2>2, TextsOfOne DEF Taken
  <2>4. PICK x, y \in Seq(Texts) : x = logged /\ y = k.texts
    BY PackTexts DEF OrderInv
  <2>5. x \o y \in Seq(Texts) /\ (x \o y) \o <<>> = x \o y
    BY ONLY x \in Seq(Texts), y \in Seq(Texts), Joins
  <2>6. written = (x \o y) \o Kept(m_avail, m_logging) /\ written \in Seq(Texts)
    BY <2>3, <2>4 DEF OrderInv
  <2>7. logged' = x \o y
    BY <2>1, <2>3, <2>4
  <2>8. written' = (logged' \o Taken') \o Kept(m_avail', m_logging')
    BY <1>0, <2>1, <2>3, <2>5, <2>6, <2>7
  <2>9. written' \in Seq(Texts) /\ logged' \in Seq(Texts)
    BY <1>0, <2>5, <2>6, <2>7
  <2> QED BY <1>0, <2>1, <2>8, <2>9 DEF OrderInv
<1>5. CASE PopSleep \/ TimeOut \/ HandlerThrows
  <2>1. /\ UNCHANGED <<m_avail, m_logging, hand, logged>> /\ wpc # "gone" /\ wpc' # "busy"
        /\ wpc \in {"busy", "gone"} <=> wpc' \in {"busy", "gone"}
    BY <1>5 DEF PopSleep, TimeOut, HandlerThrows
  <2>2. Taken' = Taken
    BY <2>1 DEF Taken
  <2> QED BY <1>0, <2>1, <2>2 DEF OrderInv
<1> QED BY <1>3, <1>4, <1>5 DEF WorkStep

LEMMA OwnerOrder ==
    ASSUME Inv, OrderInv, Run \/ SetCapacity \/ CloseState \/ CloseNotify \/ Joined \/ UNCHANGED vars
    PROVE  OrderInv'
<1>1. UNCHANGED <<m_avail, m_logging, hand, written, logged>>
  BY DEF Run, SetCapacity, CloseState, CloseNotify, Joined, vars, ownerFrame, packVars, ghostVars
<1>2. CASE Run
  <2>1. hand = <<>> /\ wpc = "gone" /\ wpc' = "ready" /\ stage' = "started"
    BY <1>2 DEF Run, OrderInv
  <2>2. Taken = <<>> /\ Taken' = <<>>
    BY <1>1, <2>1, TextsOfNone DEF Taken
  <2> QED BY <1>1, <2>1, <2>2 DEF OrderInv
<1>3. CASE SetCapacity \/ CloseState \/ CloseNotify \/ Joined \/ UNCHANGED vars
  <2>1. /\ wpc' = NotifyLogging \/ wpc' = wpc
        /\ stage' = "new" => stage = "new"
    BY <1>3 DEF SetCapacity, CloseState, CloseNotify, Joined, vars, ownerVars
  <2>2. /\ Taken' = Taken /\ (wpc' = "busy" <=> wpc = "busy")
        /\ wpc = "gone" => wpc' = "gone"
    BY <1>1, <2>1, NotifyTaken
  <2> QED BY <1>1, <2>1, <2>2 DEF OrderInv
<1> QED BY <1>2, <1>3

LEMMA InitOrder == Init => OrderInv
<1> SUFFICES ASSUME Init PROVE OrderInv
  OBVIOUS
<1>1. Taken = <<>> /\ TextsOf(m_avail) = <<>> /\ TextsOf(m_logging) = <<>>
  BY TextsOfNone DEF Init, Taken
<1>2. <<>> \in Seq(Texts) /\ (<<>> \o <<>>) \o (<<>> \o <<>>) = <<>>
  OBVIOUS
<1> QED BY <1>1, <1>2 DEF Init, OrderInv, Kept

\* Whichever way a pack leaves m_avail, and however the recycled packs come back
\* in between, the sinks get every text once and in the order it was written;
\* and a text is whole unless its poster had to wait for a pack.
THEOREM TextsArriveInOrder == Spec => []TextsComeThrough
<1>1. Inv /\ OrderInv /\ [Next]_vars => OrderInv'
  BY PostsOrder, WorkOrder, OwnerOrder DEF Next
<1>2. Inv /\ OrderInv => TextsComeThrough
  <2> SUFFICES ASSUME Inv, OrderInv PROVE TextsComeThrough
    OBVIOUS
  <2>1. PICK x, y, l, a \in Seq(Texts) :
          x = logged /\ y = Taken /\ l = TextsOf(m_logging) /\ a = TextsOf(m_avail)
    BY TakenTypes, KeptTypes DEF OrderInv
  <2>2. x \o y \in Seq(Texts)
    BY ONLY x \in Seq(Texts), y \in Seq(Texts), Joins
  <2>3. ((x \o y) \o l) \o a = (x \o y) \o (l \o a)
    BY ONLY l \in Seq(Texts), a \in Seq(Texts), <2>2, Joins
  <2>4. written = (x \o y) \o (l \o a)
    BY <2>1 DEF OrderInv, Kept
  <2> QED BY <2>1, <2>3, <2>4 DEF TextsComeThrough, Inv
<1> QED BY <1>1, <1>2, InitOrder, InvHolds, PTL DEF Spec
=============================================================================
