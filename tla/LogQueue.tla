------------------------------ MODULE LogQueue ------------------------------
(***************************************************************************)
(* eco's asynchronous log: log::Queue collects texts in packs of fixed     *)
(* size, log::Server's one thread takes the full packs, or after a timed   *)
(* wait the one being filled, hands them to the sinks and gives them back. *)
(*                                                                         *)
(* m_mutex guards the packs; an action is one stretch that a thread runs   *)
(* with the mutex, up to its release or its wait.  close takes no mutex:   *)
(* it may come while the log thread, with the mutex in hand, is between    *)
(* its test of the state and its wait ("drowsy").                          *)
(*                                                                         *)
(* A text is the number of its post; a pack is the texts in it and their   *)
(* bytes.  Sizes are scaled down, in the same unit as PackCapacity.        *)
(***************************************************************************)
EXTENDS Integers, Sequences, SequencesExt

CONSTANTS Posters,        \* threads that log
          PackCapacity,   \* Pack::capacity()
          DefaultPacks,   \* packs in queue_size, the capacity of a new queue
          ConfiguredPacks,\* packs in the capacity Core::run sets
          QuietClose,     \* assume: posting has stopped before close is called
          MaxPosts,       \* bound: texts posted
          MaxThrows       \* bound: exceptions thrown by a sink

ASSUME LogAssumption ==
    /\ {PackCapacity, DefaultPacks, ConfiguredPacks} \subseteq Nat \ {0}
    /\ {MaxPosts, MaxThrows} \subseteq Nat
    /\ QuietClose \in BOOLEAN

Texts == 1..MaxPosts
NoText == 0
Packs == [texts : Seq(Texts), size : 0..PackCapacity]
EmptyPack == [texts |-> <<>>, size |-> 0]

VARIABLES
    m_avail,    \* packs that can be written to, the one in use at the back
    m_logging,  \* packs that wait for the log thread
    allocated,  \* m_cur_size, in packs
    m_capacity, \* in packs
    open,       \* m_state
    ppc, ptext, \* a poster: "idle", "asleep" or "woken" in post, with its text
    psize,      \* and that text's size
    wpc,        \* the log thread
    hand,       \* the pack it has taken: <<pack>>, or <<>>
    stage,      \* Core::run and Core::stop
    posted, throws,
    written,    \* ghost: texts in the order they were put into packs
    logged,     \* ghost: texts in the order the sinks got them
    cut, waited \* ghost: texts that did not fit; texts whose poster waited

packVars == <<m_avail, m_logging, allocated>>
postVars == <<ppc, ptext, psize, posted>>
ownerVars == <<m_capacity, open, stage>>
ghostVars == <<written, cut, waited>>
vars == <<packVars, postVars, ownerVars, ghostVars, wpc, hand, throws, logged>>

Init ==
    /\ m_avail = <<>> /\ m_logging = <<>> /\ allocated = 0
    /\ m_capacity = DefaultPacks /\ open = TRUE
    /\ ppc = [p \in Posters |-> "idle"]
    /\ ptext = [p \in Posters |-> NoText] /\ psize = [p \in Posters |-> 0]
    /\ wpc = "gone" /\ hand = <<>>
    /\ stage = "new"
    /\ posted = 0 /\ throws = 0
    /\ written = <<>> /\ logged = <<>> /\ cut = {} /\ waited = {}

\* the mutex is free for others
Free == wpc # "drowsy"

-----------------------------------------------------------------------------
(* The two lists of packs, as a record [avail, logging]                    *)

Lists == [avail |-> m_avail, logging |-> m_logging]

Room(pack) == PackCapacity - pack.size

\* mutant: a pack without text is moved as well
move_avail_always(q) ==
    IF q.avail # <<>>
    THEN [avail |-> Front(q.avail), logging |-> Append(q.logging, Last(q.avail))]
    ELSE q

move_avail(q) ==
    IF q.avail # <<>> /\ Last(q.avail).size > 0
    THEN [avail |-> Front(q.avail), logging |-> Append(q.logging, Last(q.avail))]
    ELSE q

\* mutant: the pack goes to the back
recycle_avail_at_end(q) == [q EXCEPT !.avail = Append(@, EmptyPack)]

\* the cleared pack goes in front of the one in use
recycle_avail(q) ==
    [q EXCEPT !.avail = IF @ = <<>> THEN <<EmptyPack>>
                        ELSE Append(Front(@), EmptyPack) \o <<Last(@)>>]

-----------------------------------------------------------------------------
(* post                                                                    *)

NotifyLogging == IF wpc = "asleep" THEN "woken" ELSE wpc

\* The lists as post finds them after it has moved a pack that is too full
MadeRoom(n) ==
    IF m_avail # <<>> /\ Room(Last(m_avail)) < n THEN move_avail(Lists) ELSE Lists

\* get_vail finds nothing: every pack is being logged
NoneAvail(q) == q.avail = <<>> /\ allocated >= m_capacity

\* FixBuffer::append: what does not fit is cut off
Filled(pack, t, n) ==
    [texts |-> Append(pack.texts, t),
     size |-> pack.size + (IF n <= Room(pack) THEN n ELSE Room(pack))]

\* post goes on with lists q and finds a pack, or allocates it
Write(p, t, n, q) ==
    /\ ~NoneAvail(q)
    /\ allocated' = IF q.avail = <<>> THEN allocated + 1 ELSE allocated
    /\ LET pack == IF q.avail = <<>> THEN EmptyPack ELSE Last(q.avail)
           rest == IF q.avail = <<>> THEN <<>> ELSE Front(q.avail)
           full == Filled(pack, t, n)
           put == [q EXCEPT !.avail = Append(rest, full)]
           end == IF Room(full) = 0 THEN move_avail(put) ELSE put IN
       /\ m_avail' = end.avail /\ m_logging' = end.logging
       /\ wpc' = IF end.logging # m_logging THEN NotifyLogging ELSE wpc
       /\ cut' = IF n > Room(pack) THEN cut \cup {t} ELSE cut
    /\ written' = Append(written, t)
    /\ ppc' = [ppc EXCEPT ![p] = "idle"]
    /\ ptext' = [ptext EXCEPT ![p] = NoText] /\ psize' = [psize EXCEPT ![p] = 0]
    /\ UNCHANGED waited

\* m_avail_cond_var.wait()
Block(p, t, n, q) ==
    /\ NoneAvail(q)
    /\ m_avail' = q.avail /\ m_logging' = q.logging
    /\ wpc' = IF q.logging # m_logging THEN NotifyLogging ELSE wpc
    /\ ppc' = [ppc EXCEPT ![p] = "asleep"]
    /\ ptext' = [ptext EXCEPT ![p] = t] /\ psize' = [psize EXCEPT ![p] = n]
    /\ waited' = waited \cup {t}
    /\ UNCHANGED <<allocated, written, cut>>

NewPost(p) ==
    /\ Free /\ ppc[p] = "idle" /\ posted < MaxPosts
    /\ QuietClose => open
    /\ posted' = posted + 1
    /\ UNCHANGED <<ownerVars, hand, throws, logged>>

PostAtOnce(p, n) == NewPost(p) /\ Write(p, posted + 1, n, MadeRoom(n))

PostBlocks(p, n) == NewPost(p) /\ Block(p, posted + 1, n, MadeRoom(n))

\* back from wait(): any pack will do, however full it is by now
PostResumes(p) ==
    /\ Free /\ ppc[p] = "woken"
    /\ Write(p, ptext[p], psize[p], Lists) \/ Block(p, ptext[p], psize[p], Lists)
    /\ UNCHANGED <<posted, ownerVars, hand, throws, logged>>

-----------------------------------------------------------------------------
(* The log thread: Server::work and Queue::pop                             *)

workFrame == <<allocated, ptext, psize, posted, ownerVars, ghostVars>>

\* the loop of pop, entered with lists q
PopLoop(q) ==
    /\ m_avail' = q.avail
    /\ IF q.logging # <<>>
       THEN hand' = <<Head(q.logging)>> /\ m_logging' = Tail(q.logging) /\ wpc' = "busy"
       ELSE /\ hand' = <<>> /\ m_logging' = <<>>
            /\ wpc' = IF open THEN "drowsy" ELSE "gone"

\* pop gives the last pack back, which wakes every waiting poster
PopEnter ==
    /\ wpc = "ready"
    /\ PopLoop(IF hand = <<>> THEN Lists ELSE recycle_avail(Lists))
    /\ ppc' = [p \in Posters |-> IF hand # <<>> /\ ppc[p] = "asleep" THEN "woken" ELSE ppc[p]]
    /\ UNCHANGED <<workFrame, throws, logged>>

\* timed_wait lets go of the mutex
PopSleep ==
    /\ wpc = "drowsy"
    /\ wpc' = "asleep"
    /\ UNCHANGED <<m_avail, m_logging, ppc, hand, workFrame, throws, logged>>

PopNotified ==
    /\ wpc = "woken"
    /\ PopLoop(Lists)
    /\ UNCHANGED <<ppc, workFrame, throws, logged>>

\* the interval is over, though the mutex may have to be waited for
TimeOut ==
    /\ wpc = "asleep"
    /\ wpc' = "timed out"
    /\ UNCHANGED <<m_avail, m_logging, ppc, hand, workFrame, throws, logged>>

\* mutant: the pack being filled is left until it is full
PopTimedOutWaits ==
    /\ wpc = "timed out"
    /\ PopLoop(Lists)
    /\ UNCHANGED <<ppc, workFrame, throws, logged>>

PopTimedOut ==
    /\ wpc = "timed out"
    /\ PopLoop(move_avail(Lists))
    /\ UNCHANGED <<ppc, workFrame, throws, logged>>

\* the sinks have the pack (Core::run makes them just after it starts the log
\* thread: packs handled before that go to no sink, and are counted here too)
Handled ==
    /\ wpc = "busy"
    /\ logged' = logged \o hand[1].texts
    /\ wpc' = "ready"
    /\ UNCHANGED <<m_avail, m_logging, ppc, hand, workFrame, throws>>

\* an exception leaves the loop of work: the thread ends, the pack goes with it
HandlerThrows ==
    /\ wpc = "busy" /\ throws < MaxThrows
    /\ throws' = throws + 1
    /\ wpc' = "gone"
    /\ UNCHANGED <<m_avail, m_logging, ppc, hand, workFrame, logged>>

-----------------------------------------------------------------------------
(* Core::run and Core::stop                                                *)

ownerFrame == <<packVars, postVars, ghostVars, hand, throws, logged>>

Run ==
    /\ stage = "new"
    /\ stage' = "started" /\ wpc' = "ready"
    /\ UNCHANGED <<m_capacity, open, ownerFrame>>

\* set_capacity, with the thread running already and without the mutex
SetCapacity ==
    /\ stage = "started"
    /\ m_capacity' = ConfiguredPacks
    /\ stage' = "running"
    /\ UNCHANGED <<open, wpc, ownerFrame>>

\* close: m_state.none() ...
CloseState ==
    /\ stage = "running"
    /\ QuietClose => \A p \in Posters : ppc[p] = "idle"
    /\ open' = FALSE
    /\ stage' = "closing"
    /\ UNCHANGED <<m_capacity, wpc, ownerFrame>>

\* ... then both notify_all
CloseNotify ==
    /\ stage = "closing"
    /\ wpc' = NotifyLogging
    /\ ppc' = [p \in Posters |-> IF ppc[p] = "asleep" THEN "woken" ELSE ppc[p]]
    /\ stage' = "joining"
    /\ UNCHANGED <<m_capacity, open, packVars, ptext, psize, posted, ghostVars, hand, throws, logged>>

Joined ==
    /\ stage = "joining" /\ wpc = "gone"
    /\ stage' = "stopped"
    /\ UNCHANGED <<m_capacity, open, wpc, ownerFrame>>

WorkStep ==
    \/ PopEnter \/ PopSleep \/ PopNotified \/ TimeOut \/ PopTimedOut
    \/ Handled \/ HandlerThrows

Next ==
    \/ \E p \in Posters :
        \/ \E n \in 1..PackCapacity : PostAtOnce(p, n) \/ PostBlocks(p, n)
        \/ PostResumes(p)
    \/ WorkStep
    \/ Run \/ SetCapacity \/ CloseState \/ CloseNotify \/ Joined

Spec == Init /\ [][Next]_vars

\* Threads that can run do, the sinks return, timed waits end, and what
\* Core::stop has begun it goes on with.  A woken poster that wants the mutex
\* gets it, though the log thread takes and leaves it again and again (SF).
\* Nobody has to post or to stop the log.
FairSpec ==
    /\ Spec
    /\ \A p \in Posters : SF_vars(PostResumes(p))
    /\ WF_vars(WorkStep)
    /\ WF_vars(CloseNotify) /\ WF_vars(Joined)

-----------------------------------------------------------------------------
\* Every variable of the queue, its threads and its owner keeps its type.
TypeOK ==
    /\ m_avail \in Seq(Packs) /\ m_logging \in Seq(Packs)
    /\ allocated \in Nat /\ m_capacity \in Nat
    /\ open \in BOOLEAN /\ posted \in 0..MaxPosts /\ throws \in Nat
    /\ ppc \in [Posters -> {"idle", "asleep", "woken"}]
    /\ ptext \in [Posters -> 0..MaxPosts] /\ psize \in [Posters -> 0..PackCapacity]
    /\ wpc \in {"gone", "ready", "drowsy", "asleep", "woken", "timed out", "busy"}
    /\ hand \in Seq(Packs) /\ Len(hand) <= 1
    /\ stage \in {"new", "started", "running", "closing", "joining", "stopped"}
    /\ written \in Seq(Texts) /\ logged \in Seq(Texts)
    /\ cut \subseteq Texts /\ waited \subseteq Texts

TextsOf(packs) == FlattenSeq([i \in DOMAIN packs |-> packs[i].texts])

\* the texts the log thread has taken and not logged, also if it ended on them
Taken == IF wpc \in {"busy", "gone"} THEN TextsOf(hand) ELSE <<>>

\* A text is whole unless its poster had to wait for a pack.
OnlyWaitersAreCut == cut \subseteq waited

\* The sinks get every text once and in the order the posters wrote them,
\* whichever way a pack leaves m_avail (full, too full for the next text,
\* timed out) and however recycled packs come back in between; and a text is
\* whole unless its poster had to wait for a pack.
TextsComeThrough ==
    /\ written = logged \o Taken \o TextsOf(m_logging) \o TextsOf(m_avail)
    /\ OnlyWaitersAreCut

\* A pack allocated is in one place, no more are allocated than the larger of
\* the two capacities allows, only the pack in use holds text among the
\* available ones, and no empty pack is sent to the sinks.
PacksAccounted ==
    /\ allocated = Len(m_avail) + Len(m_logging) + Len(hand)
    /\ allocated <= (IF DefaultPacks > ConfiguredPacks THEN DefaultPacks ELSE ConfiguredPacks)
    /\ \A i \in 1..Len(m_avail) - 1 : m_avail[i] = EmptyPack
    /\ \A i \in DOMAIN m_logging : m_logging[i].size > 0

\* While the log thread lives, a text in a pack gets to the sinks, a full
\* pack or not, and a poster that waits gets on; and close has the thread
\* end even when it falls asleep just as it is notified.  Closing the queue
\* ends the promise for texts that no full pack holds.
EventuallyLogged ==
    /\ \A t \in Texts :
          (t \in ToSet(written) /\ stage # "new")
              ~> (t \in ToSet(logged) \/ ~open \/ wpc = "gone")
    /\ \A p \in Posters :
          (ppc[p] # "idle" /\ stage # "new") ~> (ppc[p] = "idle" \/ wpc = "gone")
    /\ stage = "closing" ~> stage = "stopped"

\* "when close logging, it should log all the data in queue": once the queue
\* is closed and its thread joined, every text written has been logged.
AllLoggedAtClose == stage = "stopped" => logged = written
=============================================================================
