------------------------------ MODULE TcpServer ------------------------------
(***************************************************************************)
(* Connections and sessions of a TCP server (TcpServer::Impl of             *)
(* prj/src/net/TcpServer.ipp and TcpServer.cpp, TcpPeerSet.h): io threads    *)
(* that accept, read and close connections and run the tick timer, and      *)
(* business threads that open and close sessions on behalf of messages      *)
(* (TcpSession.cpp, handle_server_context in DispatchServer.cpp).           *)
(*                                                                         *)
(* A connection id is the address of its connector, so it is used again     *)
(* once the peer has been destroyed.  A session is known by its id; its     *)
(* value here is the connection it was made for.  Connections close, are    *)
(* swept and are replaced at any point of a business thread's work; where   *)
(* that goes wrong, the step says so in known, and the properties name the   *)
(* steps they do not survive.                                                *)
(***************************************************************************)
EXTENDS Integers, Sequences, FiniteSets

CONSTANTS
  Conns,              \* connection ids
  Threads,            \* business threads
  max_connection_size, max_session_size,
  MaxMsgs,            \* bound: messages received
  Options,            \* settings of the server: its business threads, of which
                      \* start() makes some, and whether the tick that cleans
                      \* inactive peers is set
  Nil

ASSUME TcpServerConstants ==
  /\ {max_connection_size, max_session_size, MaxMsgs} \subseteq Nat
  /\ Options \subseteq [threads : (SUBSET Threads) \ {{}}, clean_inactive : BOOLEAN]

Sid == 1..MaxMsgs
\* A message waiting for a business thread; live is FALSE once its peer, which
\* it refers to by a weak pointer, is gone.
DataContext == [conn : Conns, op : {"auth", "close"}, sid : Sid \cup {0}, live : BOOLEAN]
\* A clear_conn_session() in progress: the ids left to erase, the one erased
\* last, and the stack of ids as it was read.
Clearance == [conn : Conns, todo : SUBSET Sid, sid : Sid \cup {0},
              at : {"erase", "push", "store"}, left : Seq(Sid)]

ASSUME ThreadsFinite == IsFiniteSet(Threads)
ASSUME NilAssumption == Nil \notin Conns \cup Clearance

VARIABLES
  m_option,            \* the settings, which stay
  peers,               \* m_peer_set: the connections
  active,              \* those whose peer_active bit is set
  m_session_map,       \* session id -> the connection of its session, or Nil
  m_left_session_ids,  \* the ids to use again, a stack
  m_next_session_id,   \* the last new id
  m_conn_session,      \* connection id -> the ids of its sessions
  queue,               \* the dispatch server's message queue
  msgs,                \* bound: messages received so far
  thr,                 \* business thread -> what it does, for whom
  closed,              \* connections in on_close() before clear_conn_session()
  clr,                 \* the clear_conn_session() in progress, or Nil
  acceptor,            \* "open", "deaf" (no further accept) or "stopped"
  known                \* history: the Faults that have happened

\* Steps that the code takes and must not:
Faults == {
  "lost",       \* an unlocked push_back() overwrites a change of the id stack
  "twice",      \* on_close() pushes an id that erase_session() has pushed
  "swept",      \* the sweep closes a connection and leaves its sessions
  "late",       \* a session is indexed under a connection that has closed
  "unindexed"}  \* ... or loses its place to the end of the id's former session

sessVars == <<m_session_map, m_left_session_ids, m_next_session_id, m_conn_session>>
connVars == <<peers, active, acceptor>>
vars == <<m_option, connVars, sessVars, queue, msgs, thr, closed, clr, known>>

Record(fault, happens) == known' = known \cup IF happens THEN {fault} ELSE {}

Idle == [at |-> "idle", conn |-> Nil, sid |-> 0]

Init ==
  /\ m_option \in Options
  /\ peers = {} /\ active = {}
  /\ m_session_map = [s \in Sid |-> Nil]
  /\ m_left_session_ids = <<>> /\ m_next_session_id = 0
  /\ m_conn_session = [c \in Conns |-> {}]
  /\ queue = <<>> /\ msgs = 0
  /\ thr = [t \in Threads |-> Idle]
  /\ closed = {} /\ clr = Nil
  /\ acceptor = "open" /\ known = {}

Sessions == {s \in Sid : m_session_map[s] # Nil}
\* The threads that are about to index session s of connection c.
Indexing(s, c) == {t \in Threads : thr[t] = [at |-> "index", conn |-> c, sid |-> s]}
\* The messages of the connections in cs lose their peer.
Expire(cs) ==
  [i \in DOMAIN queue |-> [queue[i] EXCEPT !.live = @ /\ queue[i].conn \notin cs]]

-----------------------------------------------------------------------------
(* io threads: accept, read, time *)

\* Memory that no peer, handler or message handler holds on to.
FreeAddress(c) ==
  /\ c \notin peers \cup closed
  /\ \A t \in Threads : thr[t].conn # c
  /\ clr # Nil => clr.conn # c

\* TcpPeerSet::add().
add(c) ==
  /\ Cardinality(peers) <= max_connection_size
  /\ peers' = peers \cup {c}

\* on_accept() of a peer that is added; one that is refused is closed at once.
\* A new peer is not active yet.
on_accept(c) ==
  /\ acceptor = "open" /\ FreeAddress(c)
  /\ add(c)
  /\ active' = active \ {c}
  /\ UNCHANGED <<acceptor, sessVars, queue, msgs, thr, closed, clr, known>>

\* on_accept() with an error returns before async_accept().
on_accept_error ==
  /\ acceptor = "open" /\ acceptor' = "deaf"
  /\ UNCHANGED <<peers, active, sessVars, queue, msgs, thr, closed, clr, known>>

\* The ids a client may name, as often as it likes: those its connection's
\* sessions were given, once the handler that made them can answer.
MayClose(c, s) == m_session_map[s] = c /\ Indexing(s, c) = {}

\* on_read_data() and on_read(): the peer is active, its message is queued.
on_read(c, op, s) ==
  /\ c \in peers /\ msgs < MaxMsgs
  /\ \/ op = "auth" /\ s = 0
     \/ op = "close" /\ s # 0 /\ MayClose(c, s)
  /\ msgs' = msgs + 1
  /\ active' = active \cup {c}
  /\ queue' = Append(queue, [conn |-> c, op |-> op, sid |-> s, live |-> TRUE])
  /\ UNCHANGED <<peers, acceptor, sessVars, thr, closed, clr, known>>

\* Fault: the sweep forgets to clear the bit.
clean_inactive_peer_keep == peers' = active /\ active' = active
\* TcpPeerSet::clean_inactive_peer(): peers without the bit are closed and
\* erased, with no on_close(): their pending reads find no peer any more.
clean_inactive_peer == peers' = peers \cap active /\ active' = {}

\* on_timer(): heartbeats and the sweep of dead peers are commented out.
on_timer ==
  /\ m_option.clean_inactive /\ acceptor # "stopped" /\ peers # {}
  /\ clean_inactive_peer
  /\ queue' = Expire(peers \ active)
  /\ Record("swept", \E s \in Sessions : m_session_map[s] \in peers \ active)
  /\ UNCHANGED <<acceptor, sessVars, msgs, thr, closed, clr>>

-----------------------------------------------------------------------------
(* io threads: on_close() after an error on the connection *)

on_close(c) ==
  /\ c \in peers
  /\ peers' = peers \ {c} /\ active' = active \ {c}
  /\ queue' = Expire({c})
  /\ closed' = closed \cup {c}
  /\ UNCHANGED <<acceptor, sessVars, msgs, thr, clr, known>>

\* clear_conn_session(): m_conn_session_mutex is held until the loop ends.
clear_conn_session(c) ==
  /\ c \in closed /\ clr = Nil
  /\ closed' = closed \ {c}
  /\ clr' = [conn |-> c, todo |-> m_conn_session[c], sid |-> 0, at |-> "erase", left |-> <<>>]
  /\ UNCHANGED <<connVars, sessVars, queue, msgs, thr, known>>

\* m_session_map.erase() of the next id.
clear_erase(s) ==
  /\ clr # Nil /\ clr.at = "erase" /\ s \in clr.todo
  /\ m_session_map' = [m_session_map EXCEPT ![s] = Nil]
  /\ clr' = [clr EXCEPT !.todo = @ \ {s}, !.sid = s, !.at = "push"]
  /\ Record("twice", m_session_map[s] = Nil)
  /\ UNCHANGED <<connVars, m_left_session_ids, m_next_session_id, m_conn_session,
                 queue, msgs, thr, closed>>

\* m_left_session_ids.push_back() without the mutex of the session map, that
\* is, a read of the vector and a later write of it.
clear_push ==
  /\ clr # Nil /\ clr.at = "push"
  /\ clr' = [clr EXCEPT !.left = m_left_session_ids, !.at = "store"]
  /\ UNCHANGED <<connVars, sessVars, queue, msgs, thr, closed, known>>

clear_store ==
  /\ clr # Nil /\ clr.at = "store"
  /\ m_left_session_ids' = Append(clr.left, clr.sid)
  /\ clr' = [clr EXCEPT !.left = <<>>, !.sid = 0, !.at = "erase"]
  /\ Record("lost", m_left_session_ids # clr.left)
  /\ UNCHANGED <<connVars, m_session_map, m_next_session_id, m_conn_session,
                 queue, msgs, thr, closed>>

clear_end ==
  /\ clr # Nil /\ clr.at = "erase" /\ clr.todo = {}
  /\ m_conn_session' = [m_conn_session EXCEPT ![clr.conn] = {}]
  /\ clr' = Nil
  /\ UNCHANGED <<connVars, m_session_map, m_left_session_ids, m_next_session_id,
                 queue, msgs, thr, closed, known>>

-----------------------------------------------------------------------------
(* Business threads *)

Set(t, a, s) == thr' = [thr EXCEPT ![t] = [@ EXCEPT !.at = a, !.sid = s]]
Done(t) == thr' = [thr EXCEPT ![t] = Idle]

\* DispatchHandler::operator(): the peer must live, and is held from now on.
operator(t) ==
  /\ thr[t] = Idle /\ queue # <<>>
  /\ LET m == Head(queue)
     IN  thr' = [thr EXCEPT ![t] =
           IF m.live THEN [at |-> "open", conn |-> m.conn, sid |-> m.sid] ELSE Idle]
  /\ queue' = Tail(queue)
  /\ UNCHANGED <<connVars, sessVars, msgs, closed, clr, known>>

\* handle_server_context(): a session that is named must exist; then the peer
\* has been active, and the message goes to its handler.
handle_server_context(t) ==
  /\ thr[t].at = "open"
  /\ LET c == thr[t].conn
         s == thr[t].sid
     IN  IF s # 0 /\ m_session_map[s] = Nil
         THEN Done(t) /\ UNCHANGED active
         ELSE /\ Set(t, IF s = 0 THEN "auth" ELSE "close", s)
              /\ active' = active \cup ({c} \cap peers)
  /\ UNCHANGED <<peers, acceptor, sessVars, queue, msgs, closed, clr, known>>

\* Fault: the limit itself passes the test.
add_session_over(t) ==
  /\ thr[t].at = "auth"
  /\ IF Cardinality(Sessions) > max_session_size THEN Done(t) ELSE Set(t, "id", 0)
  /\ UNCHANGED <<connVars, sessVars, queue, msgs, closed, clr, known>>
\* add_session(): the number of sessions is tested.
add_session(t) ==
  /\ thr[t].at = "auth"
  /\ IF Cardinality(Sessions) >= max_session_size THEN Done(t) ELSE Set(t, "id", 0)
  /\ UNCHANGED <<connVars, sessVars, queue, msgs, closed, clr, known>>

\* Fault: the id taken from the stack stays on it.
next_session_id_keep(t) ==
  /\ thr[t].at = "id"
  /\ IF m_left_session_ids # <<>>
     THEN /\ Set(t, "set", m_left_session_ids[Len(m_left_session_ids)])
          /\ UNCHANGED <<m_left_session_ids, m_next_session_id>>
     ELSE /\ Set(t, "set", m_next_session_id + 1)
          /\ m_next_session_id' = m_next_session_id + 1
          /\ UNCHANGED m_left_session_ids
  /\ UNCHANGED <<connVars, m_session_map, m_conn_session, queue, msgs, closed, clr, known>>
\* add_session(): next_session_id().
next_session_id(t) ==
  /\ thr[t].at = "id"
  /\ IF m_left_session_ids # <<>>
     THEN LET n == Len(m_left_session_ids)
          IN  /\ Set(t, "set", m_left_session_ids[n])
              /\ m_left_session_ids' = SubSeq(m_left_session_ids, 1, n - 1)
              /\ UNCHANGED m_next_session_id
     ELSE /\ Set(t, "set", m_next_session_id + 1)
          /\ m_next_session_id' = m_next_session_id + 1
          /\ UNCHANGED m_left_session_ids
  /\ UNCHANGED <<connVars, m_session_map, m_conn_session, queue, msgs, closed, clr, known>>

\* add_session(): m_session_map.set().
set_session(t) ==
  /\ thr[t].at = "set"
  /\ m_session_map' = [m_session_map EXCEPT ![thr[t].sid] = thr[t].conn]
  /\ Set(t, "index", thr[t].sid)
  /\ UNCHANGED <<connVars, m_left_session_ids, m_next_session_id, m_conn_session,
                 queue, msgs, closed, clr, known>>

\* Fault: the new session is not indexed.
add_conn_session_skip(t) ==
  /\ thr[t].at = "index"
  /\ Done(t)
  /\ UNCHANGED <<connVars, sessVars, queue, msgs, closed, clr, known>>
add_conn_session(t) ==
  /\ thr[t].at = "index" /\ clr = Nil
  /\ LET c == thr[t].conn
         s == thr[t].sid
     IN  /\ m_conn_session' = [m_conn_session EXCEPT ![c] = @ \cup {s}]
         /\ Record("late", m_session_map[s] = c /\ c \notin peers \cup closed)
  /\ Done(t)
  /\ UNCHANGED <<connVars, m_session_map, m_left_session_ids, m_next_session_id,
                 queue, msgs, closed, clr>>

\* erase_session(): the session and its id, under the mutex of the map.
erase_session(t) ==
  /\ thr[t].at = "close"
  /\ LET s == thr[t].sid
     IN  /\ m_session_map' = [m_session_map EXCEPT ![s] = Nil]
         /\ m_left_session_ids' = IF m_session_map[s] = Nil THEN m_left_session_ids
                                  ELSE Append(m_left_session_ids, s)
         /\ Set(t, "unindex", s)
  /\ UNCHANGED <<connVars, m_next_session_id, m_conn_session, queue, msgs, closed, clr, known>>

\* erase_session(): erase_conn_session().
erase_conn_session(t) ==
  /\ thr[t].at = "unindex" /\ clr = Nil
  /\ LET c == thr[t].conn
         s == thr[t].sid
     IN  /\ m_conn_session' = [m_conn_session EXCEPT ![c] = @ \ {s}]
         /\ Record("unindexed", m_session_map[s] = c /\ Indexing(s, c) = {})
  /\ Done(t)
  /\ UNCHANGED <<connVars, m_session_map, m_left_session_ids, m_next_session_id,
                 queue, msgs, closed, clr>>

\* TcpServer::stop(): the peers are destroyed first, then the io threads are
\* joined, then the business threads, which empty their queue.
stop ==
  /\ acceptor # "stopped" /\ acceptor' = "stopped"
  /\ peers' = {} /\ active' = {}
  /\ queue' = Expire(peers)
  /\ UNCHANGED <<sessVars, msgs, thr, closed, clr, known>>

-----------------------------------------------------------------------------
ThreadStep(t) ==
  \/ operator(t) \/ handle_server_context(t)
  \/ add_session(t) \/ next_session_id(t) \/ set_session(t) \/ add_conn_session(t)
  \/ erase_session(t) \/ erase_conn_session(t)
ClearStep ==
  \/ \E c \in closed : clear_conn_session(c)
  \/ \E s \in Sid : clear_erase(s)
  \/ clear_push \/ clear_store \/ clear_end

Next ==
  /\ \/ \E c \in Conns : on_accept(c) \/ on_close(c)
     \/ \E c \in Conns, op \in {"auth", "close"}, s \in Sid \cup {0} : on_read(c, op, s)
     \/ on_accept_error \/ on_timer \/ stop
     \/ ClearStep
     \/ \E t \in m_option.threads : ThreadStep(t)
  /\ UNCHANGED m_option

\* The timer ticks; nothing makes a client speak, and threads may be late.
Fairness == WF_vars(on_timer /\ UNCHANGED m_option)

Spec == Init /\ [][Next]_vars
FairSpec == Spec /\ Fairness

-----------------------------------------------------------------------------
(* Properties *)

Doing(a) == {t \in Threads : thr[t].at = a}

\* Types; a thread at work has a connection, and an id once it needs one.
TypeOK ==
  /\ peers \subseteq Conns /\ active \subseteq peers
  /\ m_session_map \in [Sid -> Conns \cup {Nil}]
  /\ m_left_session_ids \in Seq(Sid)
  /\ m_next_session_id \in 0..MaxMsgs
  /\ m_conn_session \in [Conns -> SUBSET Sid]
  /\ queue \in Seq(DataContext) /\ msgs \in 0..MaxMsgs
  /\ \A t \in Threads : \/ thr[t] = Idle
                        \/ /\ thr[t].conn \in Conns
                           /\ \/ thr[t].at = "open" /\ thr[t].sid \in Sid \cup {0}
                              \/ thr[t].at \in {"auth", "id"} /\ thr[t].sid = 0
                              \/ /\ thr[t].at \in {"set", "index", "close", "unindex"}
                                 /\ thr[t].sid \in Sid
  /\ closed \subseteq Conns /\ clr \in Clearance \cup {Nil}
  /\ acceptor \in {"open", "deaf", "stopped"} /\ known \subseteq Faults

\* Every id ever made is in one place: a session, the stack of ids to use
\* again, a thread that makes a session of it, or an on_close() in progress; so
\* no two sessions are given one id and none is lost to "reuse session id that
\* has been recycled" (TcpServer.ipp:140), whichever threads, connections and
\* repeated messages meet, until on_close() pushes an id twice or overwrites
\* another thread's change of the stack.
IdsConserved ==
  known \cap {"lost", "twice"} = {} => \A s \in 1..m_next_session_id :
      Cardinality({i \in DOMAIN m_left_session_ids : m_left_session_ids[i] = s})
    + Cardinality({t \in Doing("set") : thr[t].sid = s})
    + (IF m_session_map[s] # Nil THEN 1 ELSE 0)
    + (IF clr # Nil /\ clr.sid = s THEN 1 ELSE 0)
    = 1

\* A session's connection is open, or its on_close() has yet to erase the
\* session, which stands in the connection's index or is about to: when a
\* connection goes, so do its sessions ("connection session data",
\* TcpServer.ipp:76), whatever messages are being handled meanwhile, until one
\* of the three faults that leave a session behind has happened.
NoOrphanSession ==
  known \cap {"swept", "late", "unindexed"} = {} => \A s \in Sessions :
    LET c == m_session_map[s]
    IN  \/ Indexing(s, c) # {}
        \/ /\ s \in m_conn_session[c]
           /\ \/ c \in peers \cup closed
              \/ clr # Nil /\ clr.conn = c /\ s \in clr.todo
              \/ acceptor = "stopped"

\* The limit is tested before a session is made, not as it is made: "max session
\* size this server can contain" (TcpServerOption.h:65) is exceeded by no more
\* than the other threads that were past the test.
SessionsNearLimit ==
  Cardinality(Sessions) <= max_session_size + Cardinality(m_option.threads) - 1

\* A connection whose client has gone silent (clients send finitely often here)
\* is closed by the tick set by set_clean_inactive_peer_tick(), "intervals that
\* clean the inactive connection peer" (TcpServerOption.h:126), although messages
\* of it that are handled late make it active again.
SilentPeerClosed ==
  \A c \in Conns : (c \in peers /\ m_option.clean_inactive) ~> c \notin peers

-----------------------------------------------------------------------------
(* What comments say and the code does not do *)

\* "produce a new session id" (TcpServer.ipp:136): one that no session has.
NewIdIsFree ==
  \A t \in Doing("set") :
    /\ m_session_map[thr[t].sid] = Nil
    /\ \A u \in Doing("set") \ {t} : thr[u].sid # thr[t].sid

\* "max connection size this server can accept" (TcpServerOption.h:59).
ConnectionLimit == Cardinality(peers) <= max_connection_size

\* "max session size this server can contain" (TcpServerOption.h:65).
SessionLimit == Cardinality(Sessions) <= max_session_size

\* "if server doesn't recv a heartbeat from peer in recv ticks, it will close
\* connection with the peer" (TcpServerOption.h:84): on_timer() does nothing at
\* those ticks, so where no peer is swept a silent one stays.
DeadPeerClosed == \A c \in Conns : c \in peers ~> c \notin peers

\* "when peer has been closed" (TcpPeer.h:55): on_close() follows the close.
CloseIsNotified ==
  [][\A c \in peers : (c \notin peers' /\ acceptor' # "stopped") => c \in closed']_vars

\* "stop this server, and wait all the request in server to be handled"
\* (TcpServer.h:43): what is queued then still has its peer.
StopHandlesAll ==
  [][(acceptor # "stopped" /\ acceptor' = "stopped") =>
        \A i \in DOMAIN queue : queue[i].live => queue'[i].live]_vars

\* "session has expired" (DispatchServer.cpp:32): a message for a session that
\* was closed does not close the session of another connection.
ClosesOwnSession ==
  \A t \in Doing("close") :
    m_session_map[thr[t].sid] \in {thr[t].conn, Nil}

=============================================================================
