------------------------------- MODULE DbPool -------------------------------
(***************************************************************************)
(* database::db_conn_pool and dbscope: a vector of connections that user   *)
(* threads borrow under m_mutex, and a thread of the pool that at          *)
(* m_switch_time frees every connection and opens the pool again, in two   *)
(* separate critical sections.                                             *)
(*                                                                         *)
(* Conns are the addresses of db_instance objects: a freed one may be      *)
(* handed out again by the next new.  The database server is external: it  *)
(* drops connections and refuses new ones as it likes.                     *)
(*                                                                         *)
(* The alarm does not ask who uses what it frees.  A dbscope that holds a  *)
(* connection across it is left with a dangling pointer: calls through it  *)
(* end the process or change nothing here (RetFreed), until the address is *)
(* that of a newer connection, which the old dbscope then uses and returns *)
(* as its own.                                                             *)
(***************************************************************************)
EXTENDS Integers, Sequences, FiniteSets

CONSTANTS Users,       \* threads that borrow connections through a dbscope
          Conns,       \* addresses of db_instance objects
          NULL,
          NConns,      \* m_nconns, the connections init_db_conn makes
          MaxAlarms,   \* bound: alarms
          MaxDrops     \* bound: connections dropped by the server

ASSUME PoolAssumption ==
    /\ NULL \notin Conns /\ IsFiniteSet(Users)
    /\ NConns \in Nat \ {0} /\ {MaxAlarms, MaxDrops} \subseteq Nat

VARIABLES
    m_vec_conn,  \* the pool: addresses, NULL for a released entry
    status,      \* _status of each db_instance
    live,        \* db_instances that are allocated
    up,          \* connections the server still answers (connected())
    tx,          \* is_transaction_ of each connection
    db_,         \* "none" (NULL), "open" or "closed" (the pool is destroyed)
    held,        \* conn_ of each user's dbscope
    setup,       \* init(): "new", "started", "ready" (returned 0) or "failed"
    alarm,       \* the pool's thread: "off", "watch", "released" (between the
                 \* two halves of alarm_callback)
    nullDb,      \* unidb_conn was constructed with a NULL database
    alarms, drops,
    tainted      \* history: held addresses that an alarm has freed under a
                 \* dbscope, until no dbscope holds them any more

poolVars == <<m_vec_conn, status, live, db_, nullDb>>
envVars == <<alarms, drops>>
vars == <<poolVars, up, tx, held, tainted, setup, alarm, envVars>>

Entries == {m_vec_conn[i] : i \in DOMAIN m_vec_conn} \ {NULL}
Held == {held[u] : u \in Users} \ {NULL}

\* db_conn_pool(): nothing is open, init() has not been called
Init ==
    /\ m_vec_conn = <<>> /\ live = {} /\ db_ = "none" /\ nullDb = FALSE
    /\ status = [c \in Conns |-> "IDLE"]
    /\ up = {} /\ tx = {}
    /\ held = [u \in Users |-> NULL]
    /\ setup = "new" /\ alarm = "off"
    /\ alarms = 0 /\ drops = 0 /\ tainted = {}

-----------------------------------------------------------------------------
(* init, init_db_conn and the alarm thread                                 *)

\* init starts the pool's thread before it opens anything
Start ==
    /\ setup = "new"
    /\ setup' = "started" /\ alarm' = "watch"
    /\ UNCHANGED <<poolVars, up, tx, held, tainted, envVars>>

\* Distinct fresh addresses for the connections that could be made
FreshVectors ==
    UNION {{s \in [1..n -> Conns \ live] :
                \A i, j \in 1..n : s[i] = s[j] => i = j} : n \in 0..NConns}

\* the vector is cleared, not freed; a connection refused by the server is
\* left out
Refill ==
    \E s \in FreshVectors :
        LET made == {s[i] : i \in DOMAIN s} IN
        /\ m_vec_conn' = s
        /\ live' = live \cup made
        /\ status' = [c \in Conns |-> IF c \in made THEN "IDLE" ELSE status[c]]
        /\ up' = up \cup made
        /\ tx' = tx \ made
        /\ db_' = "open"
        /\ UNCHANGED nullDb

\* open() failed: no database object is left
OpenFails ==
    /\ m_vec_conn' = <<>>
    /\ db_' = "none"
    /\ UNCHANGED <<status, live, up, tx, nullDb>>

\* the call of init_db_conn in init, by the thread that sets the pool up
InitPool ==
    /\ setup = "started"
    /\ Refill \/ OpenFails
    /\ setup' = IF m_vec_conn' = <<>> THEN "failed" ELSE "ready"
    /\ UNCHANGED <<held, alarm, tainted, envVars>>

\* release_all_conns: every entry is freed, whoever uses it
ReleaseAll ==
    /\ live' = live \ Entries
    /\ up' = up \ Entries
    /\ tx' = tx \ Entries
    /\ m_vec_conn' = [i \in DOMAIN m_vec_conn |-> NULL]
    /\ UNCHANGED status

\* run(): it is m_switch_time; first half of alarm_callback
AlarmRelease ==
    /\ alarm = "watch" /\ alarms < MaxAlarms
    /\ ReleaseAll
    /\ tainted' = tainted \cup (Held \cap Entries)
    /\ alarm' = "released"
    /\ alarms' = alarms + 1
    /\ UNCHANGED <<db_, nullDb, held, setup, drops>>

\* second half of alarm_callback: the old unidb is neither closed nor freed
AlarmReopen ==
    /\ alarm = "released"
    /\ Refill \/ OpenFails
    /\ alarm' = "watch"
    /\ UNCHANGED <<held, tainted, setup, envVars>>

\* ~db_conn_pool: stop() joins the thread, users are gone
Destroy ==
    /\ setup \in {"ready", "failed"} /\ alarm = "watch" /\ Held = {}
    /\ ReleaseAll
    /\ alarm' = "off" /\ db_' = "closed" /\ setup' = "failed"
    /\ UNCHANGED <<nullDb, held, tainted, envVars>>

-----------------------------------------------------------------------------
(* getconn and retconn, through a dbscope                                  *)

IdleAt(i) == m_vec_conn[i] # NULL /\ status[m_vec_conn[i]] = "IDLE"
UsableAt(i) == IdleAt(i) /\ m_vec_conn[i] \in up

\* mutant: the entry found is not marked USE
GetIdleUnmarked(u) ==
    /\ setup = "ready" /\ held[u] = NULL
    /\ \E i \in DOMAIN m_vec_conn :
        /\ UsableAt(i)
        /\ \A j \in 1..i - 1 : ~UsableAt(j)
        /\ held' = [held EXCEPT ![u] = m_vec_conn[i]]
    /\ UNCHANGED <<poolVars, up, tx, tainted, setup, alarm, envVars>>

\* the first idle entry that answers a ping; dead ones before it are set aside
GetIdle(u) ==
    /\ setup = "ready" /\ held[u] = NULL
    /\ \E i \in DOMAIN m_vec_conn :
        /\ UsableAt(i)
        /\ \A j \in 1..i - 1 : ~UsableAt(j)
        /\ LET dead == {m_vec_conn[j] : j \in {k \in 1..i - 1 : IdleAt(k)}} IN
           status' = [c \in Conns |-> IF c = m_vec_conn[i] THEN "USE"
                                      ELSE IF c \in dead THEN "EXCEPTION"
                                      ELSE status[c]]
        /\ held' = [held EXCEPT ![u] = m_vec_conn[i]]
    /\ UNCHANGED <<m_vec_conn, live, db_, nullDb, up, tx, tainted, setup, alarm, envVars>>

NoneUsable == \A i \in DOMAIN m_vec_conn : ~UsableAt(i)

\* every idle entry turned out dead
SetAsideIdle ==
    [c \in Conns |-> IF c \in Entries /\ status[c] = "IDLE" THEN "EXCEPTION"
                     ELSE status[c]]

\* one of the five calls of createconn succeeds
GetNew(u) ==
    /\ setup = "ready" /\ held[u] = NULL /\ NoneUsable /\ db_ = "open"
    /\ \E c \in Conns \ live :
        /\ live' = live \cup {c}
        /\ up' = up \cup {c}
        /\ tx' = tx \ {c}
        /\ status' = [SetAsideIdle EXCEPT ![c] = "USE"]
        /\ m_vec_conn' = Append(m_vec_conn, c)
        /\ held' = [held EXCEPT ![u] = c]
    /\ UNCHANGED <<db_, nullDb, tainted, setup, alarm, envVars>>

\* all five are refused: the user gets NULL
GetNone(u) ==
    /\ setup = "ready" /\ held[u] = NULL /\ NoneUsable /\ db_ = "open"
    /\ status' = SetAsideIdle
    /\ UNCHANGED <<m_vec_conn, live, db_, nullDb, up, tx, held, tainted, setup, alarm, envVars>>

\* createconn without a database: assert(db != NULL), or a call through NULL
\* (what a build without assertions does afterwards is taken no further)
GetWithoutDb(u) ==
    /\ setup = "ready" /\ held[u] = NULL /\ NoneUsable /\ db_ = "none"
    /\ nullDb' = TRUE
    /\ status' = SetAsideIdle
    /\ UNCHANGED <<m_vec_conn, live, db_, up, tx, held, tainted, setup, alarm, envVars>>

\* mutant: a connection is returned without the rollback
RetConnOpenTx(u) ==
    /\ held[u] # NULL /\ held[u] \in live
    /\ status' = IF held[u] \in Entries THEN [status EXCEPT ![held[u]] = "IDLE"]
                 ELSE status
    /\ held' = [held EXCEPT ![u] = NULL]
    /\ tainted' = tainted \cap Held'
    /\ UNCHANGED <<m_vec_conn, live, db_, nullDb, up, tx, setup, alarm, envVars>>

\* mutant: a returned connection stays marked USE
RetConnForgotten(u) ==
    /\ held[u] # NULL /\ held[u] \in live
    /\ tx' = tx \ {held[u]}
    /\ held' = [held EXCEPT ![u] = NULL]
    /\ tainted' = tainted \cap Held'
    /\ UNCHANGED <<poolVars, up, setup, alarm, envVars>>

\* ~dbscope: roll back, whether or not the server hears it, and mark the
\* entry idle if the pool still has it, whoever got it since
RetConn(u) ==
    /\ held[u] # NULL /\ held[u] \in live
    /\ tx' = tx \ {held[u]}
    /\ status' = IF held[u] \in Entries THEN [status EXCEPT ![held[u]] = "IDLE"]
                 ELSE status
    /\ held' = [held EXCEPT ![u] = NULL]
    /\ tainted' = tainted \cap Held'
    /\ UNCHANGED <<m_vec_conn, live, db_, nullDb, up, setup, alarm, envVars>>

\* ~dbscope with a freed instance: is_transaction() is called through what is
\* left of it, and if that returns, no entry is found
RetFreed(u) ==
    /\ held[u] # NULL /\ held[u] \notin live
    /\ held' = [held EXCEPT ![u] = NULL]
    /\ tainted' = tainted \cap Held'
    /\ UNCHANGED <<poolVars, up, tx, setup, alarm, envVars>>

\* begin_transaction; a dead connection is connected again first
Begin(u) ==
    /\ held[u] # NULL /\ held[u] \in live
    /\ up' = up \cup {held[u]}
    /\ tx' = tx \cup {held[u]}
    /\ UNCHANGED <<poolVars, held, tainted, setup, alarm, envVars>>

Commit(u) ==
    /\ held[u] \in tx
    /\ tx' = tx \ {held[u]}
    /\ UNCHANGED <<poolVars, up, held, tainted, setup, alarm, envVars>>

\* execute or query on a dead connection that manages to reconnect
Reconnect(u) ==
    /\ held[u] # NULL /\ held[u] \in live \ up
    /\ up' = up \cup {held[u]}
    /\ UNCHANGED <<poolVars, tx, held, tainted, setup, alarm, envVars>>

\* external: the server drops a connection
Drop(c) ==
    /\ c \in up /\ drops < MaxDrops
    /\ up' = up \ {c}
    /\ drops' = drops + 1
    /\ UNCHANGED <<poolVars, tx, held, tainted, setup, alarm, alarms>>

UserStep(u) ==
    \/ GetIdle(u) \/ GetNew(u) \/ GetNone(u) \/ GetWithoutDb(u)
    \/ RetConn(u) \/ RetFreed(u) \/ Begin(u) \/ Commit(u) \/ Reconnect(u)

Next ==
    \/ Start \/ InitPool \/ AlarmRelease \/ AlarmReopen \/ Destroy
    \/ \E u \in Users : UserStep(u)
    \/ \E c \in Conns : Drop(c)

Spec == Init /\ [][Next]_vars

-----------------------------------------------------------------------------
Statuses == {"USE", "IDLE", "EXCEPTION"}

\* Every variable of the pool, its users and the server keeps its type.
TypeOK ==
    /\ m_vec_conn \in Seq(Conns \cup {NULL})
    /\ status \in [Conns -> Statuses]
    /\ live \subseteq Conns /\ up \subseteq live /\ tx \subseteq live
    /\ db_ \in {"none", "open", "closed"}
    /\ held \in [Users -> Conns \cup {NULL}]
    /\ setup \in {"new", "started", "ready", "failed"} /\ nullDb \in BOOLEAN
    /\ alarm \in {"off", "watch", "released"}
    /\ alarms \in Nat /\ drops \in Nat
    /\ tainted \subseteq Held

\* A connection a dbscope holds is allocated, and no other dbscope holds it:
\* getconn hands out an entry once, and nothing but alarm_callback takes a
\* connection from its user.  The harm of an alarm that finds users is
\* confined: it reaches the addresses it freed under a dbscope, through
\* however many dbscopes they pass, and ends with the last of those.
UsersSafe ==
    /\ Held \ tainted \subseteq live
    /\ \A u, v \in Users : held[u] = held[v] /\ held[u] # NULL
                          => u = v \/ held[u] \in tainted

\* What the vector says is true, whenever the alarm rings: no entry is freed
\* or listed twice, one marked USE is held by a dbscope, and, but for the
\* tainted, one that is held is marked USE and one that is not in use carries
\* no transaction of its last user.
PoolTruthful ==
    /\ Entries \subseteq live
    /\ \A c \in Entries : status[c] = "USE" => c \in Held
    /\ \A c \in Entries \ tainted : c \in Held \cup tx => status[c] = "USE"
    /\ \A i, j \in DOMAIN m_vec_conn :
           m_vec_conn[i] = m_vec_conn[j] /\ m_vec_conn[i] # NULL => i = j

Serving == {c \in Entries : status[c] # "EXCEPTION"}

\* getconn makes a connection only when every entry it could use is taken:
\* the entries that still serve never outnumber what init_db_conn makes or
\* the users.  (Entries set aside as dead stay until the next alarm.)
PoolBounded ==
    \/ Cardinality(Serving) <= NConns
    \/ Cardinality(Serving) <= Cardinality(Users)

\* Nothing in use is freed.  Does not hold: release_all_conns frees every entry,
\* whatever its _status, and tainted is what that leaves behind.
NoUserLosesItsConnection == Held \subseteq live

\* assert(db != NULL) in unidb_conn's constructor: no connection is made
\* without a database object.  Does not hold once the alarm has failed to open it.
ConnHasDb == ~nullDb
=============================================================================
