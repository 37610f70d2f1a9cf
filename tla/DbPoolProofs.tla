---------------------------- MODULE DbPoolProofs ----------------------------
(***************************************************************************)
(* For any users, addresses and pool size, and whenever the alarm rings:   *)
(* dbscopes share no connection and hold none that is freed, but for those *)
(* an alarm took from them, and the marks in the pool's vector are true.   *)
(* The inductive invariant is the conjunction of TypeOK, UsersSafe and     *)
(* PoolTruthful: neither of the last two is inductive without the other.   *)
(***************************************************************************)
EXTENDS DbPool, TLAPS, SequenceTheorems, FiniteSetTheorems

PoolInv == TypeOK /\ UsersSafe /\ PoolTruthful

-----------------------------------------------------------------------------
\* Every address in a vector of fresh ones is an address, not NULL, and was
\* not allocated; no address is in it twice.
LEMMA FreshFacts ==
    ASSUME NEW s \in FreshVectors, PoolAssumption
    PROVE  /\ s \in Seq(Conns \cup {NULL})
           /\ \A i \in DOMAIN s : s[i] \in Conns \ live /\ s[i] # NULL
           /\ \A i, j \in DOMAIN s : s[i] = s[j] => i = j
<1>1. PICK n \in 0..NConns : s \in {t \in [1..n -> Conns \ live] :
                                        \A i, j \in 1..n : t[i] = t[j] => i = j}
    BY DEF FreshVectors
<1>2. n \in Nat
    BY <1>1 DEF PoolAssumption
<1>3. s \in [1..n -> Conns \ live]
    BY <1>1
<1>4. DOMAIN s = 1..n
    BY <1>3
<1>5. s \in [1..n -> Conns \cup {NULL}]
    BY <1>3
<1>6. s \in Seq(Conns \cup {NULL})
    BY <1>2, <1>5, SeqDef
<1>. QED
    BY <1>1, <1>3, <1>4, <1>6 DEF PoolAssumption

\* Making the pool anew (init_db_conn) keeps the invariant, whatever the
\* connections of the old vector are doing.
LEMMA RefillKeeps ==
    ASSUME PoolAssumption, PoolInv, Refill, UNCHANGED <<held, tainted>>,
           setup' \in {"new", "started", "ready", "failed"},
           alarm' \in {"off", "watch", "released"}, UNCHANGED envVars
    PROVE  PoolInv'
<1>. USE DEF PoolInv
<1>1. PICK s \in FreshVectors :
        LET made == {s[i] : i \in DOMAIN s} IN
        /\ m_vec_conn' = s
        /\ live' = live \cup made
        /\ status' = [c \in Conns |-> IF c \in made THEN "IDLE" ELSE status[c]]
        /\ up' = up \cup made
        /\ tx' = tx \ made
        /\ db_' = "open"
        /\ UNCHANGED nullDb
    BY DEF Refill
<1>. DEFINE made == {s[i] : i \in DOMAIN s}
<1>2. made \subseteq Conns \ live /\ NULL \notin made
    BY FreshFacts
<1>3. Entries' = made
    BY <1>1, <1>2 DEF Entries
<1>4. Held' = Held /\ Held \ tainted \subseteq live
    BY DEF Held, UsersSafe
<1>5. TypeOK'
    BY <1>1, <1>2, <1>4, FreshFacts DEF TypeOK, Statuses, envVars
<1>6. UsersSafe'
    BY <1>1, <1>4 DEF UsersSafe
<1>7. \A c \in made : status'[c] = "IDLE" /\ c \notin Held' \ tainted' /\ c \notin tx'
    BY <1>1, <1>2, <1>4
<1>8. PoolTruthful'
    BY <1>1, <1>3, <1>7, FreshFacts DEF PoolTruthful
<1>. QED
    BY <1>5, <1>6, <1>8

\* So does failing to.
LEMMA OpenFailsKeeps ==
    ASSUME PoolAssumption, PoolInv, OpenFails, UNCHANGED <<held, tainted>>,
           setup' \in {"new", "started", "ready", "failed"},
           alarm' \in {"off", "watch", "released"}, UNCHANGED envVars
    PROVE  PoolInv'
<1>. USE DEF PoolInv
<1>1. m_vec_conn' = <<>> /\ Entries' = {}
    BY DEF OpenFails, Entries
<1>2. TypeOK'
    BY DEF OpenFails, TypeOK, Statuses, envVars, Held
<1>3. UsersSafe'
    BY DEF OpenFails, UsersSafe, Held
<1>4. PoolTruthful'
    BY <1>1 DEF PoolTruthful
<1>. QED
    BY <1>2, <1>3, <1>4

\* So does freeing every entry: what is held of them is tainted from now on.
LEMMA ReleaseAllKeeps ==
    ASSUME PoolAssumption, PoolInv, ReleaseAll, UNCHANGED <<held, nullDb, drops>>,
           tainted' = tainted \cup (Held \cap Entries),
           db_' \in {"none", "open", "closed"}, alarms' \in Nat,
           setup' \in {"new", "started", "ready", "failed"},
           alarm' \in {"off", "watch", "released"}
    PROVE  PoolInv'
<1>. USE DEF PoolInv
<1>1. Entries' = {} /\ DOMAIN m_vec_conn' = DOMAIN m_vec_conn
      /\ \A i \in DOMAIN m_vec_conn : m_vec_conn'[i] = NULL
    BY DEF ReleaseAll, Entries
<1>2. m_vec_conn' \in Seq(Conns \cup {NULL})
  <2>1. DOMAIN m_vec_conn = 1..Len(m_vec_conn) /\ Len(m_vec_conn) \in Nat
    BY DEF TypeOK
  <2>2. m_vec_conn' \in [1..Len(m_vec_conn) -> Conns \cup {NULL}]
    BY <2>1 DEF ReleaseAll
  <2>. QED
    BY <2>1, <2>2, SeqDef
<1>3. TypeOK'
    BY <1>2 DEF ReleaseAll, TypeOK, Statuses, Held
<1>4. UsersSafe'
    BY DEF ReleaseAll, UsersSafe, Held
<1>5. PoolTruthful'
    BY <1>1 DEF PoolTruthful
<1>. QED
    BY <1>3, <1>4, <1>5

-----------------------------------------------------------------------------
(* getconn, retconn and what users do with a connection                    *)

LEMMA GetIdleKeeps ==
    ASSUME PoolAssumption, PoolInv, NEW u \in Users, GetIdle(u)
    PROVE  PoolInv'
<1>. USE DEF PoolInv
<1>1. PICK i \in DOMAIN m_vec_conn :
        /\ UsableAt(i)
        /\ LET dead == {m_vec_conn[j] : j \in {k \in 1..i - 1 : IdleAt(k)}} IN
           status' = [c \in Conns |-> IF c = m_vec_conn[i] THEN "USE"
                                      ELSE IF c \in dead THEN "EXCEPTION"
                                      ELSE status[c]]
        /\ held' = [held EXCEPT ![u] = m_vec_conn[i]]
    BY DEF GetIdle
<1>. DEFINE d == m_vec_conn[i]
            dead == {m_vec_conn[j] : j \in {k \in 1..i - 1 : IdleAt(k)}}
<1>2. d \in Conns /\ d # NULL /\ d \in Entries /\ status[d] = "IDLE" /\ d \in live
    BY <1>1 DEF UsableAt, IdleAt, Entries, TypeOK, PoolTruthful
<1>3. \A c \in dead : status[c] = "IDLE"
    BY DEF IdleAt
<1>4. UNCHANGED <<m_vec_conn, live, db_, nullDb, up, tx, tainted, setup, alarm, envVars>>
      /\ held[u] = NULL
    BY DEF GetIdle
<1>5. d \notin Held \ tainted
    BY <1>2 DEF PoolTruthful
<1>6. Held' = Held \cup {d}
    BY <1>1, <1>2, <1>4 DEF Held, TypeOK
<1>7. Entries' = Entries
    BY <1>4 DEF Entries
<1>8. TypeOK'
    BY <1>1, <1>2, <1>4, <1>6 DEF TypeOK, Statuses, envVars
<1>9. UsersSafe'
    BY <1>1, <1>2, <1>4, <1>5, <1>6 DEF UsersSafe, TypeOK, Held
<1>10. \A c \in Entries : c \in Conns
    BY DEF Entries, TypeOK
<1>11. \A c \in Entries : status'[c] = "USE" <=> (c = d \/ status[c] = "USE")
    BY <1>1, <1>3, <1>10
<1>12. PoolTruthful'
    BY <1>4, <1>6, <1>7, <1>11 DEF PoolTruthful
<1>. QED
    BY <1>8, <1>9, <1>12

\* Setting dead entries aside changes no mark of use.
LEMMA SetAsideFacts ==
    ASSUME PoolInv
    PROVE  /\ SetAsideIdle \in [Conns -> Statuses]
           /\ \A c \in Conns : SetAsideIdle[c] = "USE" <=> status[c] = "USE"
BY DEF SetAsideIdle, PoolInv, TypeOK, Statuses

LEMMA GetNewKeeps ==
    ASSUME PoolAssumption, PoolInv, NEW u \in Users, GetNew(u)
    PROVE  PoolInv'
<1>. USE DEF PoolInv
<1>1. PICK c \in Conns \ live :
        /\ live' = live \cup {c}
        /\ up' = up \cup {c}
        /\ tx' = tx \ {c}
        /\ status' = [SetAsideIdle EXCEPT ![c] = "USE"]
        /\ m_vec_conn' = Append(m_vec_conn, c)
        /\ held' = [held EXCEPT ![u] = c]
    BY DEF GetNew
<1>2. UNCHANGED <<db_, nullDb, tainted, setup, alarm, envVars>> /\ held[u] = NULL
    BY DEF GetNew
<1>3. c # NULL /\ c \notin Held \ tainted /\ c \notin Entries
    BY DEF PoolAssumption, UsersSafe, PoolTruthful
<1>4. Held' = Held \cup {c}
    BY <1>1, <1>2, <1>3 DEF Held, TypeOK
<1>5. /\ m_vec_conn' \in Seq(Conns \cup {NULL})
      /\ DOMAIN m_vec_conn' = DOMAIN m_vec_conn \cup {Len(m_vec_conn) + 1}
      /\ m_vec_conn'[Len(m_vec_conn) + 1] = c
      /\ \A i \in DOMAIN m_vec_conn : m_vec_conn'[i] = m_vec_conn[i]
    BY <1>1 DEF TypeOK
<1>6. Entries' = Entries \cup {c}
    BY <1>3, <1>5 DEF Entries
<1>7. TypeOK'
    BY <1>1, <1>2, <1>4, <1>5, SetAsideFacts DEF TypeOK, Statuses, envVars
<1>8. UsersSafe'
    BY <1>1, <1>2, <1>3, <1>4 DEF UsersSafe, TypeOK, Held
<1>9. \A d \in Entries : d \in Conns
    BY DEF Entries, TypeOK
<1>10. \A d \in Entries \cup {c} : status'[d] = "USE" <=> (d = c \/ status[d] = "USE")
    BY <1>1, <1>9, SetAsideFacts
<1>11. \A i \in DOMAIN m_vec_conn : m_vec_conn[i] # c
    BY <1>3 DEF Entries
<1>12. \A i, j \in DOMAIN m_vec_conn' :
           m_vec_conn'[i] = m_vec_conn'[j] /\ m_vec_conn'[i] # NULL => i = j
    BY <1>5, <1>11 DEF PoolTruthful
<1>13. PoolTruthful'
    BY <1>1, <1>2, <1>3, <1>4, <1>6, <1>10, <1>12 DEF PoolTruthful
<1>. QED
    BY <1>7, <1>8, <1>13

\* What a dbscope gives back is held no more, unless it is tainted, and then
\* it stays so; all else is held and tainted as before.
LEMMA GivenBack ==
    ASSUME PoolInv, NEW u \in Users, held[u] # NULL,
           held' = [held EXCEPT ![u] = NULL], tainted' = tainted \cap Held'
    PROVE  /\ Held' \subseteq Held /\ Held \ {held[u]} \subseteq Held'
           /\ held[u] \in Held' => held[u] \in tainted
           /\ \A c \in Held' : c \in tainted' <=> c \in tainted
           /\ held' \in [Users -> Conns \cup {NULL}]
           /\ \A v, w \in Users : held'[v] = held'[w] /\ held'[v] # NULL
                                => v = w \/ held'[v] \in tainted'
<1>. USE DEF PoolInv
<1>1. held \in [Users -> Conns \cup {NULL}]
    BY DEF TypeOK
<1>2. \A v \in Users : held'[v] = IF v = u THEN NULL ELSE held[v]
    BY <1>1
<1>3. Held' \subseteq Held /\ Held \ {held[u]} \subseteq Held'
    BY <1>1, <1>2 DEF Held
<1>4. held[u] \in Held' => held[u] \in tainted
    BY <1>1, <1>2 DEF Held, UsersSafe
<1>5. \A v \in Users : held'[v] # NULL => held'[v] \in Held'
    BY <1>1, <1>2 DEF Held
<1>6. \A v, w \in Users : held'[v] = held'[w] /\ held'[v] # NULL
                         => v = w \/ held'[v] \in tainted'
    BY <1>2, <1>5 DEF UsersSafe
<1>. QED
    BY <1>1, <1>3, <1>4, <1>6

LEMMA RetConnKeeps ==
    ASSUME PoolAssumption, PoolInv, NEW u \in Users, RetConn(u)
    PROVE  PoolInv'
<1>. USE DEF PoolInv
<1>. DEFINE c == held[u]
<1>1. c # NULL /\ c \in Conns /\ c \in live
    BY DEF RetConn, TypeOK
<1>2. /\ UNCHANGED <<m_vec_conn, live, db_, nullDb, up, setup, alarm, envVars>>
      /\ held' = [held EXCEPT ![u] = NULL] /\ tx' = tx \ {c}
      /\ tainted' = tainted \cap Held'
    BY DEF RetConn
<1>3. Entries' = Entries /\ Entries \subseteq Conns
    BY <1>2 DEF Entries, TypeOK
<1>4. status' \in [Conns -> Statuses]
    BY <1>1 DEF RetConn, TypeOK, Statuses
<1>5. TypeOK'
    BY <1>1, <1>2, <1>4, GivenBack DEF TypeOK, envVars
<1>6. UsersSafe'
    BY <1>1, <1>2, GivenBack DEF UsersSafe
<1>7. \A d \in Entries : status'[d] = "USE" <=> (status[d] = "USE" /\ d # c)
    BY <1>1, <1>3 DEF RetConn, TypeOK
<1>8. \A d \in Entries : status'[d] = "USE" => d \in Held'
    BY <1>1, <1>2, <1>7, GivenBack DEF PoolTruthful
<1>9. ASSUME NEW d \in Entries \ tainted', d \in Held' \cup tx' PROVE status'[d] = "USE"
  <2>1. CASE d = c
    BY <1>1, <1>2, <1>9, <2>1, GivenBack
  <2>2. CASE d # c
    <3>1. d \notin tainted
        BY <1>1, <1>2, <1>9, <2>2, GivenBack DEF TypeOK
    <3>2. d \in Held \cup tx
        BY <1>1, <1>2, <1>9, GivenBack
    <3>. QED
        BY <1>7, <1>9, <2>2, <3>1, <3>2 DEF PoolTruthful
  <2>. QED
    BY <2>1, <2>2
<1>10. PoolTruthful'
    BY <1>2, <1>3, <1>8, <1>9 DEF PoolTruthful
<1>. QED
    BY <1>5, <1>6, <1>10

\* A freed connection is no entry: giving it back changes what is held only.
LEMMA RetFreedKeeps ==
    ASSUME PoolAssumption, PoolInv, NEW u \in Users, RetFreed(u)
    PROVE  PoolInv'
<1>. USE DEF PoolInv
<1>1. /\ UNCHANGED <<m_vec_conn, status, live, db_, nullDb, up, tx, setup, alarm, envVars>>
      /\ held' = [held EXCEPT ![u] = NULL] /\ held[u] # NULL /\ held[u] \notin live
      /\ tainted' = tainted \cap Held'
    BY DEF RetFreed, poolVars
<1>2. Entries' = Entries /\ held[u] \notin Entries
    BY <1>1 DEF Entries, PoolTruthful
<1>3. TypeOK'
    BY <1>1, GivenBack DEF TypeOK, envVars
<1>4. UsersSafe'
    BY <1>1, GivenBack DEF UsersSafe
<1>5. \A d \in Entries : (d \in Held' <=> d \in Held) /\ (d \in tainted' <=> d \in tainted)
    BY <1>1, <1>2, GivenBack DEF TypeOK
<1>6. PoolTruthful'
    BY <1>1, <1>2, <1>5 DEF PoolTruthful
<1>. QED
    BY <1>3, <1>4, <1>6

-----------------------------------------------------------------------------
LEMMA InitInv == Init => PoolInv
<1>. SUFFICES ASSUME Init PROVE PoolInv
    OBVIOUS
<1>1. m_vec_conn = <<>> /\ Entries = {}
    BY DEF Init, Entries
<1>2. Held = {}
    BY DEF Init, Held
<1>3. nullDb \in BOOLEAN
    BY DEF Init
<1>4. TypeOK
    BY <1>3 DEF Init, TypeOK, Statuses
<1>5. UsersSafe
    BY <1>2 DEF Init, UsersSafe
<1>6. PoolTruthful
    BY <1>1 DEF PoolTruthful
<1>. QED
    BY <1>4, <1>5, <1>6 DEF PoolInv

\* Every step keeps the invariant.
LEMMA StepInv ==
    ASSUME PoolAssumption, PoolInv, [Next]_vars
    PROVE  PoolInv'
<1>1. CASE Start
    BY <1>1 DEF Start, PoolInv, TypeOK, UsersSafe, PoolTruthful, Entries, Held, Statuses, poolVars, envVars
<1>2. CASE InitPool
    BY <1>2, RefillKeeps, OpenFailsKeeps DEF InitPool, PoolInv, TypeOK
<1>3. CASE AlarmRelease
    BY <1>3, ReleaseAllKeeps DEF AlarmRelease, PoolInv, TypeOK
<1>4. CASE AlarmReopen
    BY <1>4, RefillKeeps, OpenFailsKeeps DEF AlarmReopen, PoolInv, TypeOK
<1>5. CASE Destroy
  <2>1. tainted' = tainted \cup (Held \cap Entries) /\ UNCHANGED <<held, nullDb, drops>>
        /\ ReleaseAll /\ db_' = "closed" /\ setup' = "failed" /\ alarm' = "off" /\ alarms' = alarms
    BY <1>5 DEF Destroy, envVars
  <2>. QED
    BY <2>1, ReleaseAllKeeps DEF PoolInv, TypeOK
<1>6. ASSUME NEW u \in Users, UserStep(u) PROVE PoolInv'
  <2>1. CASE GetIdle(u)
    BY <2>1, GetIdleKeeps
  <2>2. CASE GetNew(u)
    BY <2>2, GetNewKeeps
  <2>3. CASE GetNone(u) \/ GetWithoutDb(u)
    <3>1. status' = SetAsideIdle /\ nullDb' \in BOOLEAN
          /\ UNCHANGED <<m_vec_conn, live, db_, up, tx, held, tainted, setup, alarm, envVars>>
        BY <2>3 DEF GetNone, GetWithoutDb, PoolInv, TypeOK
    <3>2. Entries' = Entries /\ Held' = Held /\ Entries \subseteq Conns
        BY <3>1 DEF Entries, Held, PoolInv, TypeOK
    <3>. QED
        BY <3>1, <3>2, SetAsideFacts DEF PoolInv, TypeOK, UsersSafe, PoolTruthful, envVars
  <2>4. CASE RetConn(u)
    BY <2>4, RetConnKeeps
  <2>5. CASE RetFreed(u)
    BY <2>5, RetFreedKeeps
  <2>6. CASE Begin(u) \/ Commit(u) \/ Reconnect(u)
    <3>1. /\ UNCHANGED <<m_vec_conn, status, live, db_, nullDb, held, tainted, setup, alarm, alarms, drops>>
          /\ up' \subseteq live /\ tx' \subseteq live
          /\ \A c \in tx' : c \in tx \/ (c = held[u] /\ c # NULL)
        BY <2>6 DEF Begin, Commit, Reconnect, PoolInv, TypeOK, poolVars, envVars
    <3>2. Entries' = Entries /\ Held' = Held
        BY <3>1 DEF Entries, Held
    <3>3. held[u] # NULL => held[u] \in Held
        BY DEF Held
    <3>. QED
        BY <3>1, <3>2, <3>3 DEF PoolInv, TypeOK, UsersSafe, PoolTruthful
  <2>. QED
    BY <1>6, <2>1, <2>2, <2>3, <2>4, <2>5, <2>6 DEF UserStep
<1>7. ASSUME NEW c \in Conns, Drop(c) PROVE PoolInv'
    BY <1>7 DEF Drop, PoolInv, TypeOK, UsersSafe, PoolTruthful, Entries, Held, poolVars
<1>8. CASE UNCHANGED vars
    BY <1>8 DEF vars, poolVars, envVars, PoolInv, TypeOK, UsersSafe, PoolTruthful, Entries, Held
<1>. QED
    BY <1>1, <1>2, <1>3, <1>4, <1>5, <1>6, <1>7, <1>8 DEF Next

\* No dbscope holds a freed connection or one of another dbscope's, but for the
\* addresses alarm_callback freed under a dbscope and while one still has them.
THEOREM PoolUsersSafe == Spec => []UsersSafe
<1>1. PoolInv /\ [Next]_vars => PoolInv'
    BY StepInv, PoolAssumption
<1>2. PoolInv => UsersSafe
    BY DEF PoolInv
<1>. QED
    BY <1>1, <1>2, InitInv, PTL DEF Spec

\* The marks in m_vec_conn are true at all times, alarm or not: getconn loses no
\* entry that is free and, but for the tainted, hands out none that is in use
\* and passes on no open transaction.
THEOREM PoolMarksTruthful == Spec => []PoolTruthful
<1>1. PoolInv /\ [Next]_vars => PoolInv'
    BY StepInv, PoolAssumption
<1>2. PoolInv => PoolTruthful
    BY DEF PoolInv
<1>. QED
    BY <1>1, <1>2, InitInv, PTL DEF Spec

-----------------------------------------------------------------------------
(* PoolBounded is not inductive: an entry that is set aside while a stale  *)
(* dbscope holds it serves again when it is given back.  Counting what is  *)
(* held as well makes it so: getconn makes a connection only when all that *)
(* serves is held, and from then on the users bound it.                    *)

\* The entries that serve, or will when they are given back.
Counted == Serving \cup (Entries \cap Held)

CountedBounded ==
    \/ Cardinality(Counted) <= NConns
    \/ Cardinality(Counted) <= Cardinality(Users)

\* A finite set has at least as many elements as its image.
LEMMA ImageBound ==
    ASSUME NEW S, IsFiniteSet(S), NEW f, DOMAIN f = S
    PROVE  /\ IsFiniteSet({f[x] : x \in S})
           /\ Cardinality({f[x] : x \in S}) <= Cardinality(S)
<1>. DEFINE g == [x \in S |-> f[x]]
            T == {f[x] : x \in S}
<1>1. g \in Surjection(S, T)
    BY DEF Surjection
<1>. QED
    BY <1>1, FS_Surjection

\* The vector, and what serves in it, are finite.
LEMMA EntriesFinite ==
    ASSUME PoolInv
    PROVE  IsFiniteSet(Entries) /\ IsFiniteSet(Counted)
<1>1. DOMAIN m_vec_conn = 1..Len(m_vec_conn) /\ Len(m_vec_conn) \in Nat
    BY DEF PoolInv, TypeOK
<1>2. IsFiniteSet(DOMAIN m_vec_conn)
    BY <1>1, FS_Interval
<1>3. IsFiniteSet({m_vec_conn[i] : i \in DOMAIN m_vec_conn})
    BY <1>2, ImageBound
<1>4. IsFiniteSet(Entries)
    BY <1>3, FS_Subset DEF Entries
<1>. QED
    BY <1>4, FS_Subset DEF Counted, Serving

\* A step after which nothing new counts keeps the bound.
LEMMA FewerCounted ==
    ASSUME PoolInv, CountedBounded, PoolAssumption, Counted' \subseteq Counted
    PROVE  CountedBounded'
<1>1. IsFiniteSet(Counted)
    BY EntriesFinite
<1>2. IsFiniteSet(Counted') /\ Cardinality(Counted') <= Cardinality(Counted)
    BY <1>1, FS_Subset
<1>3. Cardinality(Counted) \in Nat /\ Cardinality(Counted') \in Nat
      /\ Cardinality(Users) \in Nat /\ NConns \in Nat
    BY <1>1, <1>2, FS_CardinalityType DEF PoolAssumption
<1>. QED
    BY <1>2, <1>3 DEF CountedBounded

LEMMA RefillBounded ==
    ASSUME PoolAssumption, PoolInv, Refill
    PROVE  CountedBounded'
<1>1. PICK s \in FreshVectors : m_vec_conn' = s
    BY DEF Refill
<1>2. PICK n \in 0..NConns : s \in [1..n -> Conns \ live]
    BY DEF FreshVectors
<1>3. n \in Nat /\ n <= NConns /\ NConns \in Nat /\ DOMAIN s = 1..n
    BY <1>2 DEF PoolAssumption
<1>4. IsFiniteSet(1..n) /\ Cardinality(1..n) = n
    BY <1>3, FS_Interval
<1>. DEFINE made == {s[i] : i \in 1..n}
<1>5. IsFiniteSet(made) /\ Cardinality(made) <= n
    BY <1>3, <1>4, ImageBound
<1>6. Counted' \subseteq made
    BY <1>1, <1>3 DEF Counted, Serving, Entries
<1>7. IsFiniteSet(Counted') /\ Cardinality(Counted') <= Cardinality(made)
    BY <1>5, <1>6, FS_Subset
<1>8. Cardinality(Counted') \in Nat /\ Cardinality(made) \in Nat
    BY <1>5, <1>7, FS_CardinalityType
<1>. QED
    BY <1>3, <1>5, <1>7, <1>8 DEF CountedBounded

\* getconn makes a connection: what counts now is what users hold
LEMMA GetNewBounded ==
    ASSUME PoolAssumption, PoolInv, NEW u \in Users, GetNew(u)
    PROVE  CountedBounded'
<1>1. PICK c \in Conns \ live :
        /\ status' = [SetAsideIdle EXCEPT ![c] = "USE"]
        /\ m_vec_conn' = Append(m_vec_conn, c)
        /\ held' = [held EXCEPT ![u] = c]
    BY DEF GetNew
<1>2. c # NULL
    BY DEF PoolAssumption
<1>3. Entries' \subseteq Entries \cup {c}
    BY <1>1 DEF Entries, PoolInv, TypeOK
<1>4. Entries \subseteq Conns /\ Entries \subseteq live
    BY DEF Entries, PoolInv, TypeOK, PoolTruthful
<1>5. \A d \in Entries : status'[d] # "EXCEPTION" => status[d] = "USE"
    BY <1>1, <1>4 DEF SetAsideIdle, PoolInv, TypeOK, Statuses
<1>6. \A d \in Entries : status[d] = "USE" => d \in Held
    BY DEF PoolInv, PoolTruthful
<1>7. held[u] = NULL
    BY DEF GetNew
<1>8. \A d \in Held \cup {c} : d \in {held'[v] : v \in Users}
    BY <1>1, <1>7 DEF Held, PoolInv, TypeOK
<1>9. Counted' \subseteq {held'[v] : v \in Users}
  <2>1. Serving' \subseteq {held'[v] : v \in Users}
    BY <1>3, <1>5, <1>6, <1>8 DEF Serving
  <2>2. Held' \subseteq {held'[v] : v \in Users}
    BY DEF Held
  <2>. QED
    BY <2>1, <2>2 DEF Counted
<1>10. DOMAIN held' = Users /\ IsFiniteSet(Users)
    BY <1>1 DEF PoolInv, TypeOK, PoolAssumption
<1>11. /\ IsFiniteSet({held'[v] : v \in Users})
       /\ Cardinality({held'[v] : v \in Users}) <= Cardinality(Users)
    BY <1>10, ImageBound
<1>12. IsFiniteSet(Counted') /\ Cardinality(Counted') <= Cardinality({held'[v] : v \in Users})
    BY <1>9, <1>11, FS_Subset
<1>13. /\ Cardinality(Counted') \in Nat /\ Cardinality(Users) \in Nat
       /\ Cardinality({held'[v] : v \in Users}) \in Nat
    BY <1>10, <1>11, <1>12, FS_CardinalityType
<1>. QED
    BY <1>11, <1>12, <1>13 DEF CountedBounded

LEMMA StepBounded ==
    ASSUME PoolAssumption, PoolInv, CountedBounded, [Next]_vars
    PROVE  CountedBounded'
<1>1. CASE Refill
    BY <1>1, RefillBounded
<1>2. ASSUME m_vec_conn' = <<>> PROVE CountedBounded'
    BY <1>2, FewerCounted DEF Counted, Serving, Entries
<1>3. CASE ReleaseAll
  <2>1. Entries' = {}
    BY <1>3 DEF ReleaseAll, Entries
  <2>. QED
    BY <2>1, FewerCounted DEF Counted, Serving
<1>4. ASSUME NEW u \in Users, UserStep(u) PROVE CountedBounded'
  <2>1. CASE GetNew(u)
    BY <2>1, GetNewBounded
  <2>2. CASE ~GetNew(u)
    <3>1. m_vec_conn' = m_vec_conn /\ Entries' = Entries /\ Entries \subseteq Conns
        BY <1>4, <2>2 DEF UserStep, GetIdle, GetNone, GetWithoutDb, RetConn, RetFreed,
                          Begin, Commit, Reconnect, poolVars, Entries, PoolInv, TypeOK
    <3>2. \A d \in Entries : status'[d] # "EXCEPTION" \/ d \in Held'
                             => status[d] # "EXCEPTION" \/ d \in Held
      <4>1. CASE GetIdle(u)
        <5>1. PICK i \in DOMAIN m_vec_conn :
                /\ UsableAt(i)
                /\ LET dead == {m_vec_conn[j] : j \in {k \in 1..i - 1 : IdleAt(k)}} IN
                   status' = [c \in Conns |-> IF c = m_vec_conn[i] THEN "USE"
                                              ELSE IF c \in dead THEN "EXCEPTION"
                                              ELSE status[c]]
                /\ held' = [held EXCEPT ![u] = m_vec_conn[i]]
            BY <4>1 DEF GetIdle
        <5>2. status[m_vec_conn[i]] = "IDLE"
            BY <5>1 DEF UsableAt, IdleAt
        <5>3. Held' \subseteq Held \cup {m_vec_conn[i]}
            BY <5>1 DEF Held, PoolInv, TypeOK
        <5>. QED
            BY <5>1, <5>2, <5>3, <3>1
      <4>2. CASE GetNone(u) \/ GetWithoutDb(u)
        BY <4>2, <3>1 DEF GetNone, GetWithoutDb, SetAsideIdle, Held
      <4>3. CASE RetConn(u) \/ RetFreed(u)
        <5>1. /\ held[u] # NULL /\ held' = [held EXCEPT ![u] = NULL]
              /\ tainted' = tainted \cap Held' /\ held[u] \in Held
            BY <4>3 DEF RetConn, RetFreed, Held
        <5>2. Held' \subseteq Held
            BY <5>1, GivenBack
        <5>3. \A d \in Entries : d # held[u] => status'[d] = status[d]
            BY <4>3, <3>1 DEF RetConn, RetFreed, poolVars, PoolInv, TypeOK
        <5>. QED
            BY <5>1, <5>2, <5>3
      <4>4. CASE Begin(u) \/ Commit(u) \/ Reconnect(u)
        BY <4>4 DEF Begin, Commit, Reconnect, poolVars, Held
      <4>. QED
        BY <1>4, <2>2, <4>1, <4>2, <4>3, <4>4 DEF UserStep
    <3>. QED
        BY <3>1, <3>2, FewerCounted DEF Counted, Serving
  <2>. QED
    BY <2>1, <2>2
<1>5. ASSUME UNCHANGED <<m_vec_conn, status, held>> PROVE CountedBounded'
    BY <1>5, FewerCounted DEF Counted, Serving, Entries, Held
<1>6. CASE Start \/ (\E c \in Conns : Drop(c)) \/ UNCHANGED vars
    BY <1>5, <1>6 DEF Start, Drop, vars, poolVars
<1>7. CASE InitPool \/ AlarmReopen
    BY <1>1, <1>2, <1>7 DEF InitPool, AlarmReopen, OpenFails
<1>8. CASE AlarmRelease \/ Destroy
    BY <1>3, <1>8 DEF AlarmRelease, Destroy
<1>. QED
    BY <1>4, <1>6, <1>7, <1>8 DEF Next

\* What serves in db_conn_pool's vector never outnumbers both the connections
\* init_db_conn makes and the users, alarm or not.
THEOREM PoolStaysBounded == Spec => []PoolBounded
<1>1. Init => CountedBounded
  <2>. SUFFICES ASSUME Init PROVE CountedBounded
    OBVIOUS
  <2>1. Counted = {}
    BY DEF Init, Counted, Serving, Entries
  <2>2. Cardinality(Counted) = 0
    BY <2>1, FS_EmptySet
  <2>. QED
    BY <2>2, PoolAssumption DEF CountedBounded, PoolAssumption
<1>2. PoolInv /\ CountedBounded /\ [Next]_vars => PoolInv' /\ CountedBounded'
    BY StepInv, StepBounded, PoolAssumption
<1>3. PoolInv /\ CountedBounded => PoolBounded
  <2>. SUFFICES ASSUME PoolInv, CountedBounded PROVE PoolBounded
    OBVIOUS
  <2>1. IsFiniteSet(Counted)
    BY EntriesFinite
  <2>2. IsFiniteSet(Serving) /\ Cardinality(Serving) <= Cardinality(Counted)
    BY <2>1, FS_Subset DEF Counted
  <2>3. Cardinality(Serving) \in Nat /\ Cardinality(Counted) \in Nat
        /\ Cardinality(Users) \in Nat /\ NConns \in Nat
    BY <2>1, <2>2, FS_CardinalityType, PoolAssumption DEF PoolAssumption
  <2>. QED
    BY <2>2, <2>3 DEF CountedBounded, PoolBounded
<1>. QED
    BY <1>1, <1>2, <1>3, InitInv, PTL DEF Spec
=============================================================================
