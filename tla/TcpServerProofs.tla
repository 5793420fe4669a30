--------------------------- MODULE TcpServerProofs ---------------------------
(***************************************************************************)
(* Theorems about the connections and sessions of a TCP server, for any     *)
(* number of connections, business threads and messages, and for every      *)
(* interleaving of the threads with connections that close and are swept.   *)
(*                                                                         *)
(* Types come first; the limit of sessions, the places of ids and the index *)
(* each have an invariant of their own that rests on the types alone.       *)
(***************************************************************************)
EXTENDS TcpServer, FiniteSetTheorems, SequenceTheorems, TLAPS

-----------------------------------------------------------------------------
(* Types *)

Thread == [at : {"idle", "open", "auth", "id", "set", "index", "close", "unindex"},
           conn : Conns \cup {Nil}, sid : Sid \cup {0}]
\* A thread at work has a connection, and an id once it needs one.
Placed(x) ==
  \/ x = Idle
  \/ /\ x.conn \in Conns
     /\ \/ x.at = "open" /\ x.sid \in Sid \cup {0}
        \/ x.at \in {"auth", "id"} /\ x.sid = 0
        \/ x.at \in {"set", "index", "close", "unindex"} /\ x.sid \in Sid

Types == TypeOK /\ m_option \in Options /\ thr \in [Threads -> Thread]

\* Only the threads that the settings start work.
Busy == {t \in Threads : thr[t] # Idle}
WorkersOnly == Busy \subseteq m_option.threads

\* Every new id is for one message that was received.
Asking == {t \in Threads : thr[t].at \in {"open", "auth", "id"}}
IdsAskedFor == m_next_session_id + Len(queue) + Cardinality(Asking) <= msgs

\* on_close() has an id in hand from its erasing on until it is pushed.
IdInHand == clr # Nil => (clr.at = "erase" <=> clr.sid = 0)

TInv == Types /\ WorkersOnly /\ IdsAskedFor /\ IdInHand

\* No connection, no session, no id.
LEMMA TypesStart == Init => TInv
<1>. SUFFICES ASSUME Init PROVE TInv
  OBVIOUS
<1>. USE TcpServerConstants, NilAssumption DEF Init
<1>1. thr \in [Threads -> Thread] BY DEF Idle, Thread
<1>2. TypeOK BY DEF TypeOK, Idle, Sid
<1>3. WorkersOnly /\ IdInHand BY DEF WorkersOnly, IdInHand, Busy
<1>4. IdsAskedFor
  <2>1. Asking = {} BY DEF Asking, Idle
  <2>. QED BY <2>1, FS_EmptySet DEF IdsAskedFor
<1>. QED BY <1>1, <1>2, <1>3, <1>4 DEF TInv, Types

\* Expire() changes no more than whether a message's peer lives.
LEMMA Expired ==
  ASSUME queue \in Seq(DataContext), NEW cs, queue' = Expire(cs)
  PROVE  /\ queue' \in Seq(DataContext) /\ Len(queue') = Len(queue)
         /\ \A i \in 1..Len(queue) :
              /\ queue'[i].conn = queue[i].conn /\ queue'[i].op = queue[i].op
              /\ queue'[i].sid = queue[i].sid
              /\ queue'[i].live <=> queue[i].live /\ queue[i].conn \notin cs
<1>. DEFINE n == Len(queue)
            q(i) == [queue[i] EXCEPT !.live = @ /\ queue[i].conn \notin cs]
<1>1. n \in Nat /\ DOMAIN queue = 1..n /\ \A i \in 1..n : queue[i] \in DataContext
  OBVIOUS
<1>2. queue' = [i \in 1..n |-> q(i)] BY <1>1 DEF Expire
<1>3. ASSUME NEW i \in 1..n
      PROVE  /\ q(i) \in DataContext
             /\ q(i).conn = queue[i].conn /\ q(i).op = queue[i].op /\ q(i).sid = queue[i].sid
             /\ q(i).live <=> queue[i].live /\ queue[i].conn \notin cs
  BY <1>1 DEF DataContext
<1>. HIDE DEF q, n
<1>4. queue' \in [1..n -> DataContext] BY <1>2, <1>3
<1>5. queue' \in Seq(DataContext) BY <1>1, <1>4, SeqDef
<1>6. Len(queue') = n
  <2>1. DOMAIN queue' = 1..n /\ DOMAIN queue' = 1..Len(queue') /\ Len(queue') \in Nat
    BY <1>4, <1>5, LenProperties
  <2>. QED BY <1>1, <2>1
<1>7. \A i \in 1..n : queue'[i] = q(i) BY <1>2
<1>. QED BY <1>3, <1>5, <1>6, <1>7 DEF n

\* The constants that types rest on, and the threads that are set up.
LEMMA Workers ==
  ASSUME TInv
  PROVE  /\ m_option.threads \in SUBSET Threads /\ m_option.threads # {}
         /\ IsFiniteSet(m_option.threads) /\ Cardinality(m_option.threads) \in Nat \ {0}
         /\ \A t \in Threads : Placed(thr[t])
<1>1. m_option.threads \in SUBSET Threads /\ m_option.threads # {}
  <2>1. m_option \in [threads : (SUBSET Threads) \ {{}}, clean_inactive : BOOLEAN]
    BY TcpServerConstants DEF TInv, Types
  <2>2. m_option.threads \in (SUBSET Threads) \ {{}} BY <2>1
  <2>. QED BY <2>2
<1>2. IsFiniteSet(m_option.threads) BY <1>1, ThreadsFinite, FS_Subset
<1>3. Cardinality(m_option.threads) \in Nat \ {0}
  BY <1>1, <1>2, FS_CardinalityType, FS_EmptySet
<1>4. \A t \in Threads : Placed(thr[t]) BY DEF TInv, Types, TypeOK, Placed
<1>. QED BY <1>1, <1>2, <1>3, <1>4

\* What happens to connections leaves sessions, threads and on_close() alone.
SessionsKept == UNCHANGED <<m_option, sessVars, thr, clr>>
ConnectionStep ==
  \/ \E c \in Conns : on_accept(c) \/ on_close(c)
  \/ \E c \in Conns, op \in {"auth", "close"}, s \in Sid \cup {0} : on_read(c, op, s)
  \/ on_accept_error \/ on_timer \/ stop

LEMMA ConnectionTypes ==
  ASSUME TInv, ConnectionStep, UNCHANGED m_option
  PROVE  TInv' /\ SessionsKept
<1>. USE TcpServerConstants, NilAssumption
<1>1. SessionsKept
  BY DEF ConnectionStep, on_accept, on_close, on_read, on_accept_error, on_timer, stop,
         SessionsKept
<1>2. /\ TypeOK /\ queue \in Seq(DataContext) /\ Len(queue) \in Nat
      /\ DOMAIN queue = 1..Len(queue)
  BY DEF TInv, Types, TypeOK
<1>3. Asking' = Asking /\ Busy' = Busy /\ WorkersOnly' /\ IdInHand'
  BY <1>1 DEF TInv, SessionsKept, Asking, Busy, WorkersOnly, IdInHand
<1>4. Cardinality(Asking) \in Nat
  <2>1. Asking \in SUBSET Threads BY DEF Asking
  <2>. QED BY <2>1, ThreadsFinite, FS_Subset, FS_CardinalityType
\* The queue keeps its length, or a message that was counted joins it.
<1>5. /\ queue' \in Seq(DataContext) /\ msgs' \in 0..MaxMsgs
      /\ Len(queue') - msgs' = Len(queue) - msgs
  <2>1. CASE \E c \in Conns, op \in {"auth", "close"}, s \in Sid \cup {0} : on_read(c, op, s)
    BY <1>2, <2>1 DEF on_read, DataContext, TypeOK
  <2>2. CASE \E cs : queue' = Expire(cs) /\ msgs' = msgs
    BY <1>2, <2>2, Expired DEF TypeOK
  <2>3. CASE UNCHANGED <<queue, msgs>>
    BY <1>2, <2>3 DEF TypeOK
  <2>. QED BY <2>1, <2>2, <2>3
           DEF ConnectionStep, on_accept, on_close, on_accept_error, on_timer, stop
<1>6. IdsAskedFor'
  <2>1. m_next_session_id' = m_next_session_id /\ m_next_session_id \in Nat /\ msgs \in Nat
    BY <1>1, <1>2 DEF SessionsKept, sessVars, TypeOK
  <2>2. Len(queue') \in Nat /\ msgs' \in Nat BY <1>5
  <2>. QED BY <1>2, <1>3, <1>4, <1>5, <2>1, <2>2 DEF TInv, IdsAskedFor
<1>7. /\ peers' \subseteq Conns /\ active' \subseteq peers' /\ closed' \subseteq Conns
      /\ acceptor' \in {"open", "deaf", "stopped"}
  BY <1>2 DEF TypeOK, ConnectionStep, on_accept, add, on_close, on_read, on_accept_error,
              on_timer, clean_inactive_peer, stop
<1>8. known' \subseteq Faults
  BY <1>2 DEF TypeOK, ConnectionStep, on_accept, on_close, on_read, on_accept_error,
              on_timer, stop, Record, Faults
<1>9. TypeOK'
  BY <1>1, <1>2, <1>5, <1>7, <1>8 DEF TypeOK, SessionsKept, sessVars
<1>. QED BY <1>1, <1>3, <1>6, <1>9 DEF TInv, Types, SessionsKept

\* The steps of clear_conn_session().
LEMMA ClearTypes ==
  ASSUME TInv, ClearStep, UNCHANGED m_option
  PROVE  TInv' /\ UNCHANGED <<connVars, m_next_session_id, queue, msgs, thr>>
<1>. USE TcpServerConstants, NilAssumption
<1>1. UNCHANGED <<connVars, m_next_session_id, queue, msgs, thr>>
  BY DEF ClearStep, clear_conn_session, clear_erase, clear_push, clear_store, clear_end, sessVars
<1>2. TypeOK BY DEF TInv, Types
<1>3. /\ closed' \subseteq Conns
      /\ m_session_map' \in [Sid -> Conns \cup {Nil}]
      /\ m_conn_session' \in [Conns -> SUBSET Sid]
  BY <1>2 DEF TypeOK, ClearStep, clear_conn_session, clear_erase, clear_push, clear_store,
              clear_end, sessVars
<1>4. known' \subseteq Faults
  BY <1>2 DEF TypeOK, ClearStep, clear_conn_session, clear_erase, clear_push, clear_store,
              clear_end, Record, Faults
<1>5. clr' \in Clearance \cup {Nil} /\ IdInHand' /\ m_left_session_ids' \in Seq(Sid)
  <2>1. ASSUME NEW c \in closed, clear_conn_session(c)
        PROVE  clr' \in Clearance \cup {Nil} /\ IdInHand' /\ m_left_session_ids' \in Seq(Sid)
    <3>1. clr' = [conn |-> c, todo |-> m_conn_session[c], sid |-> 0, at |-> "erase",
                  left |-> <<>>]
      BY <2>1 DEF clear_conn_session
    <3>2. clr' \in Clearance BY <1>2, <3>1 DEF TypeOK, Clearance
    <3>. QED BY <1>2, <2>1, <3>1, <3>2 DEF IdInHand, clear_conn_session, sessVars, TypeOK
  <2>2. ASSUME NEW s \in Sid, clear_erase(s)
        PROVE  clr' \in Clearance \cup {Nil} /\ IdInHand' /\ m_left_session_ids' \in Seq(Sid)
    <3>1. /\ clr \in Clearance /\ s # 0
          /\ clr' = [clr EXCEPT !.todo = @ \ {s}, !.sid = s, !.at = "push"]
      BY <1>2, <2>2 DEF TypeOK, clear_erase, Sid
    <3>2. clr' \in Clearance /\ clr'.sid = s /\ clr'.at = "push" BY <3>1 DEF Clearance
    <3>. QED BY <1>2, <2>2, <3>1, <3>2 DEF IdInHand, clear_erase, TypeOK
  <2>3. CASE clear_push
    <3>1. /\ clr \in Clearance /\ clr # Nil /\ clr.at = "push"
          /\ clr' = [clr EXCEPT !.left = m_left_session_ids, !.at = "store"]
      BY <1>2, <2>3 DEF TypeOK, clear_push
    <3>2. clr' \in Clearance /\ clr'.sid = clr.sid /\ clr'.at = "store"
      BY <1>2, <3>1 DEF TypeOK, Clearance
    <3>. QED BY <1>2, <2>3, <3>1, <3>2 DEF TInv, IdInHand, clear_push, sessVars, TypeOK
  <2>4. CASE clear_store
    <3>1. /\ clr \in Clearance /\ clr.at = "store" /\ clr.sid \in Sid
          /\ clr' = [clr EXCEPT !.left = <<>>, !.sid = 0, !.at = "erase"]
          /\ m_left_session_ids' = Append(clr.left, clr.sid)
      BY <1>2, <2>4 DEF TypeOK, TInv, IdInHand, clear_store, Clearance
    <3>2. clr.left \in Seq(Sid) BY <3>1 DEF Clearance
    <3>3. m_left_session_ids' \in Seq(Sid) BY <3>1, <3>2
    <3>4. clr' = [conn |-> clr.conn, todo |-> clr.todo, sid |-> 0, at |-> "erase", left |-> <<>>]
      BY <3>1 DEF Clearance
    <3>5. clr.conn \in Conns /\ clr.todo \in SUBSET Sid /\ <<>> \in Seq(Sid)
      BY <3>1 DEF Clearance
    <3>6. clr' \in Clearance BY <3>4, <3>5 DEF Clearance
    <3>7. IdInHand' BY <3>4 DEF IdInHand
    <3>. QED BY <3>3, <3>6, <3>7
  <2>5. CASE clear_end
    BY <1>2, <2>5 DEF TypeOK, clear_end, IdInHand
  <2>. QED BY <2>1, <2>2, <2>3, <2>4, <2>5 DEF ClearStep
<1>6. TypeOK'
  BY <1>1, <1>2, <1>3, <1>4, <1>5 DEF TypeOK, connVars
<1>7. WorkersOnly' /\ IdsAskedFor'
  BY <1>1 DEF TInv, WorkersOnly, Busy, IdsAskedFor, Asking
<1>. QED BY <1>1, <1>5, <1>6, <1>7 DEF TInv, Types

\* How many threads ask for an id, after one of them has moved.
LEMMA AskingMoves ==
  ASSUME NEW t \in Threads, thr' \in [Threads -> Thread],
         \A u \in Threads : u # t => thr'[u] = thr[u]
  PROVE  /\ Cardinality(Asking) \in Nat /\ Cardinality(Asking)' \in Nat
         /\ Cardinality(Asking)' <= Cardinality(Asking) + 1
         /\ thr'[t].at \notin {"open", "auth", "id"} =>
              /\ Cardinality(Asking)' <= Cardinality(Asking)
              /\ thr[t].at \in {"open", "auth", "id"} => Cardinality(Asking)' = Cardinality(Asking) - 1
         /\ thr[t].at \in {"open", "auth", "id"} => Cardinality(Asking)' <= Cardinality(Asking)
<1>1. IsFiniteSet(Asking) /\ IsFiniteSet(Asking')
  <2>1. Asking \in SUBSET Threads /\ Asking' \in SUBSET Threads BY DEF Asking
  <2>. QED BY <2>1, ThreadsFinite, FS_Subset
<1>2. Cardinality(Asking) \in Nat /\ Cardinality(Asking') \in Nat
  BY <1>1, FS_CardinalityType
<1>3. CASE thr'[t].at \in {"open", "auth", "id"}
  <2>1. Asking' = Asking \cup {t} BY <1>3 DEF Asking
  <2>2. thr[t].at \in {"open", "auth", "id"} => t \in Asking BY DEF Asking
  <2>. QED BY <1>1, <1>2, <1>3, <2>1, <2>2, FS_AddElement
<1>4. CASE thr'[t].at \notin {"open", "auth", "id"}
  <2>1. Asking' = Asking \ {t} BY <1>4 DEF Asking
  <2>2. thr[t].at \in {"open", "auth", "id"} => t \in Asking BY DEF Asking
  <2>. QED BY <1>1, <1>2, <1>4, <2>1, <2>2, FS_RemoveElement
<1>. QED BY <1>3, <1>4

\* A thread goes on, or is done.
LEMMA SetMoves ==
  ASSUME TInv, NEW t \in m_option.threads
  PROVE  /\ \A a, s : Set(t, a, s) =>
              thr'[t].at = a /\ thr'[t].sid = s /\ thr'[t].conn = thr[t].conn
         /\ Done(t) => thr'[t] = Idle /\ thr'[t].at = "idle"
<1>1. t \in Threads /\ thr[t] \in Thread BY Workers DEF TInv, Types
<1>2. ASSUME NEW a, NEW s, Set(t, a, s)
      PROVE  thr'[t].at = a /\ thr'[t].sid = s /\ thr'[t].conn = thr[t].conn
  <2>1. thr'[t] = [thr[t] EXCEPT !.at = a, !.sid = s] BY <1>1, <1>2 DEF Set, TInv, Types
  <2>. QED BY <1>1, <2>1 DEF Thread
<1>3. Done(t) => thr'[t] = Idle /\ thr'[t].at = "idle"
  BY <1>1 DEF Done, Idle, TInv, Types
<1>. QED BY <1>2, <1>3

\* A business thread's step changes that thread alone, and puts it in its place.
LEMMA ThreadMoves ==
  ASSUME TInv, NEW t \in m_option.threads, ThreadStep(t)
  PROVE  /\ t \in Threads /\ thr' \in [Threads -> Thread]
         /\ \A u \in Threads : u # t => thr'[u] = thr[u]
         /\ \A u \in Threads : Placed(thr'[u])
<1>. USE TcpServerConstants, NilAssumption
<1>1. t \in Threads /\ thr[t] \in Thread /\ Placed(thr[t]) /\ \A u \in Threads : Placed(thr[u])
  BY Workers DEF TInv, Types
<1>2. Idle \in Thread /\ Placed(Idle) BY DEF Idle, Thread, Placed
<1>3. \E x \in Thread : Placed(x) /\ thr' = [thr EXCEPT ![t] = x]
  <2>1. CASE operator(t)
    <3>1. queue # <<>> /\ queue \in Seq(DataContext) /\ Head(queue) \in DataContext
      BY <2>1 DEF TInv, Types, TypeOK, operator
    <3>2. LET x == [at |-> "open", conn |-> Head(queue).conn, sid |-> Head(queue).sid]
          IN  x \in Thread /\ Placed(x)
      BY <3>1 DEF DataContext, Thread, Placed
    <3>. QED BY <1>2, <2>1, <3>2 DEF operator
  <2>2. ASSUME NEW a, NEW s,
               \/ a \in {"auth", "id"} /\ s = 0
               \/ a \in {"set", "index", "close", "unindex"} /\ s \in Sid,
               thr[t].at # "idle", Set(t, a, s)
        PROVE  \E x \in Thread : Placed(x) /\ thr' = [thr EXCEPT ![t] = x]
    <3>1. thr[t].conn \in Conns BY <1>1, <2>2 DEF Placed, Idle
    <3>2. LET x == [thr[t] EXCEPT !.at = a, !.sid = s]
          IN  x \in Thread /\ x.at = a /\ x.sid = s /\ x.conn = thr[t].conn
      BY <1>1, <2>2 DEF Thread, Sid
    <3>. QED BY <2>2, <3>1, <3>2 DEF Set, Placed
  <2>3. CASE Done(t) BY <1>2, <2>3 DEF Done
  <2>4. CASE handle_server_context(t)
    <3>1. thr[t].at = "open" /\ thr[t].at # "idle" /\ thr[t].sid \in Sid \cup {0}
      BY <1>1, <2>4 DEF handle_server_context, Placed, Idle
    <3>2. CASE thr[t].sid = 0
      <4>1. Set(t, "auth", 0) BY <2>4, <3>2 DEF handle_server_context
      <4>. QED BY <2>2, <3>1, <4>1
    <3>3. CASE thr[t].sid # 0
      <4>1. Done(t) \/ Set(t, "close", thr[t].sid) BY <2>4, <3>3 DEF handle_server_context
      <4>. QED BY <2>2, <2>3, <3>1, <3>3, <4>1
    <3>. QED BY <3>2, <3>3
  <2>5. CASE add_session(t)
    <3>1. thr[t].at # "idle" /\ (Done(t) \/ Set(t, "id", 0)) BY <2>5 DEF add_session
    <3>. QED BY <2>2, <2>3, <3>1
  <2>6. CASE next_session_id(t)
    <3>1. CASE m_left_session_ids # <<>>
      <4>1. m_left_session_ids[Len(m_left_session_ids)] \in Sid
        BY <3>1 DEF TInv, Types, TypeOK
      <4>. QED BY <2>2, <2>6, <3>1, <4>1 DEF next_session_id
    <3>2. CASE m_left_session_ids = <<>>
      <4>1. t \in Asking /\ IsFiniteSet(Asking)
        <5>1. Asking \in SUBSET Threads BY DEF Asking
        <5>. QED BY <1>1, <2>6, <5>1, ThreadsFinite, FS_Subset DEF Asking, next_session_id
      <4>2. Cardinality(Asking) \in Nat \ {0}
        BY <4>1, FS_CardinalityType, FS_EmptySet
      <4>3. m_next_session_id + 1 \in Sid
        <5>1. Len(queue) \in Nat /\ m_next_session_id \in Nat /\ msgs \in 0..MaxMsgs
          BY DEF TInv, Types, TypeOK
        <5>. QED BY <4>2, <5>1 DEF TInv, IdsAskedFor, Sid
      <4>. QED BY <2>2, <2>6, <3>2, <4>3 DEF next_session_id
    <3>. QED BY <3>1, <3>2
  <2>7. CASE set_session(t)
    BY <1>1, <2>2, <2>7 DEF set_session, Placed, Idle
  <2>8. CASE add_conn_session(t) \/ erase_conn_session(t)
    BY <2>3, <2>8 DEF add_conn_session, erase_conn_session
  <2>9. CASE erase_session(t)
    BY <1>1, <2>2, <2>9 DEF erase_session, Placed, Idle
  <2>. QED BY <2>1, <2>4, <2>5, <2>6, <2>7, <2>8, <2>9 DEF ThreadStep
<1>. QED BY <1>1, <1>3 DEF TInv, Types

LEMMA ThreadTypes ==
  ASSUME TInv, NEW t \in m_option.threads, ThreadStep(t), UNCHANGED m_option
  PROVE  TInv' /\ UNCHANGED <<peers, acceptor, msgs, closed, clr>>
<1>. USE TcpServerConstants, NilAssumption
<1>1. /\ t \in Threads /\ thr' \in [Threads -> Thread]
      /\ \A u \in Threads : u # t => thr'[u] = thr[u]
      /\ \A u \in Threads : Placed(thr'[u])
  BY ThreadMoves
<1>2. TypeOK /\ Placed(thr[t]) /\ thr[t] \in Thread BY <1>1, Workers DEF TInv, Types
<1>3. UNCHANGED <<peers, acceptor, msgs, closed, clr>>
  BY DEF ThreadStep, operator, handle_server_context, add_session, next_session_id, set_session,
         add_conn_session, erase_session, erase_conn_session, connVars
<1>4. WorkersOnly' /\ IdInHand'
  BY <1>1, <1>3 DEF TInv, WorkersOnly, Busy, IdInHand
<1>5. /\ active' \subseteq peers /\ m_session_map' \in [Sid -> Conns \cup {Nil}]
      /\ m_conn_session' \in [Conns -> SUBSET Sid]
  <2>1. CASE operator(t) \/ add_session(t) \/ next_session_id(t)
    BY <1>2, <2>1 DEF TypeOK, operator, add_session, next_session_id, connVars, sessVars
  <2>2. CASE handle_server_context(t)
    BY <1>2, <2>2 DEF TypeOK, handle_server_context, sessVars
  <2>3. CASE set_session(t)
    <3>1. thr[t].conn \in Conns BY <1>2, <2>3 DEF Placed, Idle, set_session
    <3>. QED BY <1>2, <2>3, <3>1 DEF TypeOK, set_session, connVars
  <2>4. CASE add_conn_session(t)
    <3>1. thr[t].conn \in Conns /\ thr[t].sid \in Sid
      BY <1>2, <2>4 DEF Placed, Idle, add_conn_session
    <3>. QED BY <1>2, <2>4, <3>1 DEF TypeOK, add_conn_session, connVars
  <2>5. CASE erase_session(t)
    BY <1>2, <2>5 DEF TypeOK, erase_session, connVars
  <2>6. CASE erase_conn_session(t)
    BY <1>2, <2>6 DEF TypeOK, erase_conn_session, connVars
  <2>. QED BY <2>1, <2>2, <2>3, <2>4, <2>5, <2>6 DEF ThreadStep
<1>6. known' \subseteq Faults
  <2>1. \A f, b : Record(f, b) => known' \subseteq known \cup {f} BY DEF Record
  <2>2. {"late", "unindexed"} \subseteq Faults BY DEF Faults
  <2>3. known' \subseteq known \cup {"late", "unindexed"}
    BY <2>1 DEF ThreadStep, operator, handle_server_context, add_session, next_session_id,
                set_session, add_conn_session, erase_session, erase_conn_session
  <2>. QED BY <1>2, <2>2, <2>3 DEF TypeOK
<1>7. /\ Cardinality(Asking) \in Nat /\ Cardinality(Asking)' \in Nat
      /\ Cardinality(Asking)' <= Cardinality(Asking) + 1
      /\ thr'[t].at \notin {"open", "auth", "id"} =>
           /\ Cardinality(Asking)' <= Cardinality(Asking)
           /\ thr[t].at \in {"open", "auth", "id"} =>
                Cardinality(Asking)' = Cardinality(Asking) - 1
      /\ thr[t].at \in {"open", "auth", "id"} => Cardinality(Asking)' <= Cardinality(Asking)
  BY <1>1, AskingMoves
<1>8. /\ queue' \in Seq(DataContext) /\ m_left_session_ids' \in Seq(Sid)
      /\ m_next_session_id' \in 0..MaxMsgs /\ IdsAskedFor'
  <2>. DEFINE P == /\ queue' \in Seq(DataContext) /\ m_left_session_ids' \in Seq(Sid)
                   /\ m_next_session_id' \in 0..MaxMsgs /\ IdsAskedFor'
  <2>0. /\ queue \in Seq(DataContext) /\ Len(queue) \in Nat /\ m_left_session_ids \in Seq(Sid)
        /\ m_next_session_id \in 0..MaxMsgs /\ IdsAskedFor /\ msgs \in 0..MaxMsgs
    BY <1>2 DEF TypeOK, TInv
  <2>1. CASE operator(t)
    <3>1. /\ queue # <<>> /\ queue' = Tail(queue)
          /\ UNCHANGED <<m_left_session_ids, m_next_session_id>>
      BY <2>1 DEF operator, sessVars
    <3>2. queue' \in Seq(DataContext) /\ Len(queue') = Len(queue) - 1
      BY <2>0, <3>1
    <3>. QED BY <1>3, <1>7, <2>0, <3>1, <3>2 DEF IdsAskedFor
  <2>2. CASE next_session_id(t)
    <3>1. /\ thr[t].at = "id" /\ thr'[t].at = "set" /\ queue' = queue
          /\ \/ /\ m_left_session_ids # <<>> /\ UNCHANGED m_next_session_id
                /\ m_left_session_ids' =
                     SubSeq(m_left_session_ids, 1, Len(m_left_session_ids) - 1)
             \/ UNCHANGED m_left_session_ids /\ m_next_session_id' = m_next_session_id + 1
      <4>1. thr'[t].at = "set" /\ thr[t].at = "id"
        BY <1>1, <1>2, <2>2, SetMoves DEF next_session_id
      <4>. QED BY <2>2, <4>1 DEF next_session_id
    <3>2. m_left_session_ids' \in Seq(Sid)
      <4>1. CASE /\ m_left_session_ids # <<>>
                 /\ m_left_session_ids' =
                      SubSeq(m_left_session_ids, 1, Len(m_left_session_ids) - 1)
        <5>1. \A i \in 1..(Len(m_left_session_ids) - 1) : m_left_session_ids[i] \in Sid
          BY <2>0
        <5>. QED BY <2>0, <4>1, <5>1, SubSeqProperties
      <4>. QED BY <2>0, <3>1, <4>1
    <3>3. Cardinality(Asking)' = Cardinality(Asking) - 1 BY <1>7, <3>1
    <3>4. IdsAskedFor'
      BY <1>3, <1>7, <2>0, <3>1, <3>3 DEF IdsAskedFor
    <3>5. m_next_session_id' \in 0..MaxMsgs
      BY <1>3, <1>7, <2>0, <3>1, <3>4 DEF IdsAskedFor
    <3>. QED BY <2>0, <3>1, <3>2, <3>4, <3>5
  <2>3. CASE erase_session(t)
    <3>1. thr[t].sid \in Sid BY <1>2, <2>3 DEF Placed, Idle, erase_session
    <3>2. m_left_session_ids' \in Seq(Sid) /\ UNCHANGED <<queue, m_next_session_id>>
      BY <2>0, <2>3, <3>1 DEF erase_session
    <3>3. thr'[t].at = "unindex" BY <2>3, SetMoves DEF erase_session
    <3>. QED BY <1>3, <1>7, <2>0, <3>2, <3>3 DEF IdsAskedFor
  <2>4. CASE handle_server_context(t) \/ add_session(t)
    <3>1. /\ thr[t].at \in {"open", "auth"}
          /\ UNCHANGED <<queue, m_left_session_ids, m_next_session_id>>
      BY <2>4 DEF handle_server_context, add_session, sessVars
    <3>. QED BY <1>3, <1>7, <2>0, <3>1 DEF IdsAskedFor
  <2>5. CASE set_session(t) \/ add_conn_session(t) \/ erase_conn_session(t)
    <3>1. /\ thr'[t].at \in {"index", "idle"}
          /\ UNCHANGED <<queue, m_left_session_ids, m_next_session_id>>
      <4>1. CASE set_session(t) BY <4>1, SetMoves DEF set_session, sessVars
      <4>2. CASE add_conn_session(t) \/ erase_conn_session(t)
        BY <4>2, SetMoves DEF add_conn_session, erase_conn_session
      <4>. QED BY <2>5, <4>1, <4>2
    <3>. QED BY <1>3, <1>7, <2>0, <3>1 DEF IdsAskedFor
  <2>. QED BY <2>1, <2>2, <2>3, <2>4, <2>5 DEF ThreadStep
<1>9. TypeOK'
  BY <1>1, <1>2, <1>3, <1>5, <1>6, <1>8 DEF TypeOK, Placed
<1>. QED BY <1>1, <1>3, <1>4, <1>8, <1>9 DEF TInv, Types

\* Next by its parts.
LEMMA Steps ==
  ASSUME Next
  PROVE  /\ UNCHANGED m_option
         /\ ConnectionStep \/ ClearStep \/ \E t \in m_option.threads : ThreadStep(t)
BY DEF Next, ConnectionStep

LEMMA TypesKept == ASSUME TInv, [Next]_vars PROVE TInv'
<1>1. CASE Next
  BY <1>1, Steps, ConnectionTypes, ClearTypes, ThreadTypes
<1>2. CASE UNCHANGED vars
  BY <1>2 DEF vars, connVars, sessVars, TInv, Types, TypeOK, WorkersOnly, Busy, IdsAskedFor,
              Asking, IdInHand
<1>. QED BY <1>1, <1>2

THEOREM TypesAlways == Spec => []TInv
BY TypesStart, TypesKept, PTL DEF Spec
\* Types; a thread at work has a connection and, where it needs one, an id.
THEOREM TypeCorrect == Spec => []TypeOK
<1>1. TInv => TypeOK BY DEF TInv, Types
<1>. QED BY <1>1, TypesAlways, PTL

-----------------------------------------------------------------------------
(* The limit of sessions *)

\* Threads past the test of add_session() that have not made their session yet
\* are counted with the sessions.
PastTest == {t \in Threads : thr[t].at \in {"id", "set"}}
RoomInv ==
  Cardinality(Sessions) + Cardinality(PastTest)
    <= max_session_size + Cardinality(m_option.threads) - 1

LEMMA FiniteSids == IsFiniteSet(1..MaxMsgs)
<1>1. MaxMsgs \in Int /\ 1 \in Int BY TcpServerConstants
<1>. QED BY <1>1, FS_Interval

\* Sessions and threads are finite in number.
LEMMA Counts ==
  ASSUME TInv
  PROVE  /\ IsFiniteSet(Sessions) /\ Cardinality(Sessions) \in Nat
         /\ IsFiniteSet(PastTest) /\ Cardinality(PastTest) \in Nat
         /\ PastTest \subseteq m_option.threads
         /\ Cardinality(PastTest) <= Cardinality(m_option.threads)
<1>1. Sessions \in SUBSET (1..MaxMsgs) BY DEF Sessions, Sid
<1>2. IsFiniteSet(Sessions) BY <1>1, FiniteSids, FS_Subset
<1>3. PastTest \subseteq m_option.threads
  BY DEF PastTest, TInv, WorkersOnly, Busy, Idle
<1>4. /\ IsFiniteSet(PastTest)
      /\ Cardinality(PastTest) <= Cardinality(m_option.threads)
  BY <1>3, Workers, FS_Subset
<1>. QED BY <1>2, <1>3, <1>4, FS_CardinalityType

\* A test passed adds a thread and no session; a session made takes its
\* thread's place; every other step leaves the sum or lowers it.
LEMMA RoomKept == ASSUME TInv, TInv', RoomInv, [Next]_vars PROVE RoomInv'
<1>. USE TcpServerConstants, NilAssumption
<1>1. /\ IsFiniteSet(Sessions) /\ Cardinality(Sessions) \in Nat
      /\ IsFiniteSet(PastTest) /\ Cardinality(PastTest) \in Nat
      /\ Cardinality(m_option.threads) \in Nat \ {0} /\ max_session_size \in Nat
      /\ IsFiniteSet(Sessions') /\ Cardinality(Sessions') \in Nat
      /\ IsFiniteSet(PastTest') /\ Cardinality(PastTest') \in Nat
      /\ Cardinality(PastTest') <= Cardinality(m_option'.threads)
  <2>1. TypeOK' /\ m_option' \in Options /\ (WorkersOnly /\ IdsAskedFor /\ IdInHand)'
    BY DEF TInv, Types
  <2>2. /\ Sessions' \in SUBSET (1..MaxMsgs) /\ PastTest' \subseteq m_option'.threads
        /\ IsFiniteSet(m_option'.threads)
    <3>1. Sessions' \in SUBSET (1..MaxMsgs) BY DEF Sessions, Sid
    <3>2. PastTest' \subseteq m_option'.threads
      BY DEF PastTest, TInv, WorkersOnly, Busy, Idle
    <3>3. m_option' = m_option BY Steps DEF vars
    <3>. QED BY <3>1, <3>2, <3>3, Workers
  <2>3. IsFiniteSet(Sessions') /\ IsFiniteSet(PastTest')
    BY <2>2, FiniteSids, FS_Subset
  <2>. QED BY <2>2, <2>3, Counts, Workers, FS_Subset, FS_CardinalityType
<1>2. m_option' = m_option BY Steps DEF vars
\* What does not grow keeps the sum.
<1>3. ASSUME Sessions' \subseteq Sessions, PastTest' \subseteq PastTest PROVE RoomInv'
  <2>1. Cardinality(Sessions') <= Cardinality(Sessions)
        /\ Cardinality(PastTest') <= Cardinality(PastTest)
    BY <1>1, <1>3, FS_Subset
  <2>. QED BY <1>1, <1>2, <2>1 DEF RoomInv
<1>4. CASE ConnectionStep \/ ClearStep \/ UNCHANGED vars
  <2>1. thr' = thr /\ \A s \in Sid : m_session_map'[s] # Nil => m_session_map[s] # Nil
    <3>1. CASE ConnectionStep BY <1>2, <3>1, ConnectionTypes DEF SessionsKept, sessVars
    <3>2. CASE ClearStep
      BY <1>2, <3>2, ClearTypes DEF ClearStep, clear_conn_session, clear_erase, clear_push, clear_store,
                       clear_end, sessVars, TInv, Types, TypeOK
    <3>. QED BY <1>4, <3>1, <3>2 DEF vars, sessVars
  <2>2. Sessions' \subseteq Sessions /\ PastTest' = PastTest
    BY <2>1 DEF Sessions, PastTest
  <2>. QED BY <1>3, <2>2
<1>5. ASSUME NEW t \in m_option.threads, ThreadStep(t) PROVE RoomInv'
  <2>0. /\ t \in Threads /\ \A u \in Threads : u # t => thr'[u] = thr[u]
        /\ Placed(thr[t])
    BY <1>5, ThreadMoves, Workers
  <2>1. CASE add_session(t)
    <3>1. Sessions' = Sessions /\ thr[t].at = "auth"
      BY <2>1 DEF add_session, sessVars, Sessions
    <3>2. CASE Cardinality(Sessions) >= max_session_size
      <4>1. thr'[t].at = "idle" BY <2>1, <3>2, SetMoves DEF add_session
      <4>2. PastTest' \subseteq PastTest BY <2>0, <4>1 DEF PastTest
      <4>. QED BY <1>3, <3>1, <4>2
    <3>3. CASE ~(Cardinality(Sessions) >= max_session_size)
      BY <1>1, <1>2, <3>1, <3>3 DEF RoomInv
    <3>. QED BY <3>2, <3>3
  <2>2. CASE set_session(t)
    <3>1. /\ thr[t].at = "set" /\ thr[t].sid \in Sid /\ thr'[t].at = "index"
          /\ m_session_map' = [m_session_map EXCEPT ![thr[t].sid] = thr[t].conn]
      BY <2>0, <2>2, SetMoves DEF set_session, Placed, Idle
    <3>2. t \in PastTest /\ PastTest' = PastTest \ {t}
      BY <2>0, <3>1 DEF PastTest
    <3>3. Sessions' \subseteq Sessions \cup {thr[t].sid}
      BY <3>1 DEF Sessions, TInv, Types, TypeOK
    <3>4. Cardinality(PastTest') = Cardinality(PastTest) - 1
      BY <1>1, <3>2, FS_RemoveElement
    <3>5. Cardinality(Sessions') <= Cardinality(Sessions) + 1
      <4>1. /\ IsFiniteSet(Sessions \cup {thr[t].sid})
            /\ Cardinality(Sessions \cup {thr[t].sid}) \in Nat
            /\ Cardinality(Sessions \cup {thr[t].sid}) <= Cardinality(Sessions) + 1
        <5>1. /\ IsFiniteSet(Sessions \cup {thr[t].sid})
              /\ Cardinality(Sessions \cup {thr[t].sid}) =
                   IF thr[t].sid \in Sessions THEN Cardinality(Sessions)
                   ELSE Cardinality(Sessions) + 1
          BY <1>1, FS_AddElement
        <5>. QED BY <1>1, <5>1
      <4>2. Cardinality(Sessions') <= Cardinality(Sessions \cup {thr[t].sid})
        BY <3>3, <4>1, FS_Subset
      <4>. QED BY <1>1, <4>1, <4>2
    <3>. QED BY <1>1, <1>2, <3>4, <3>5 DEF RoomInv
  <2>3. CASE next_session_id(t)
    <3>1. thr[t].at = "id" /\ Sessions' = Sessions
      BY <2>3 DEF next_session_id, Sessions
    <3>2. PastTest' \subseteq PastTest
      BY <2>0, <3>1 DEF PastTest
    <3>. QED BY <1>3, <3>1, <3>2
  <2>4. CASE erase_session(t)
    <3>1. thr'[t].at = "unindex" BY <2>4, SetMoves DEF erase_session
    <3>2. Sessions' \subseteq Sessions
      BY <2>4 DEF erase_session, Sessions, TInv, Types, TypeOK
    <3>3. PastTest' \subseteq PastTest BY <2>0, <3>1 DEF PastTest
    <3>. QED BY <1>3, <3>2, <3>3
  <2>5. CASE operator(t) \/ handle_server_context(t) \/ add_conn_session(t) \/ erase_conn_session(t)
    <3>1. Sessions' = Sessions
      BY <2>5 DEF operator, handle_server_context, add_conn_session, erase_conn_session,
                  sessVars, Sessions
    <3>2. thr'[t].at \notin {"id", "set"}
      <4>1. CASE operator(t)
        <5>1. thr'[t] = Idle \/ thr'[t].at = "open"
          BY <2>0, <4>1 DEF operator, TInv, Types
        <5>. QED BY <5>1 DEF Idle
      <4>2. CASE handle_server_context(t)
        BY <4>2, SetMoves DEF handle_server_context
      <4>3. CASE add_conn_session(t) \/ erase_conn_session(t)
        BY <4>3, SetMoves DEF add_conn_session, erase_conn_session
      <4>. QED BY <2>5, <4>1, <4>2, <4>3
    <3>3. PastTest' \subseteq PastTest BY <2>0, <3>2 DEF PastTest
    <3>. QED BY <1>3, <3>1, <3>3
  <2>. QED BY <1>5, <2>1, <2>2, <2>3, <2>4, <2>5 DEF ThreadStep
<1>. QED BY <1>4, <1>5, Steps

\* add_session() tests the limit some steps before the session is made: no more
\* sessions than there are other threads go beyond it.
THEOREM LimitIsNear == Spec => []SessionsNearLimit
<1>1. Init => RoomInv
  <2>. SUFFICES ASSUME Init PROVE RoomInv
    OBVIOUS
  <2>1. Sessions = {} /\ PastTest = {} BY DEF Init, Sessions, PastTest, Idle
  <2>2. Cardinality(m_option.threads) \in Nat \ {0} BY TypesStart, Workers
  <2>. QED BY <2>1, <2>2, TcpServerConstants, FS_EmptySet DEF RoomInv
<1>2. TInv /\ RoomInv => SessionsNearLimit
  <2>. SUFFICES ASSUME TInv, RoomInv PROVE SessionsNearLimit
    OBVIOUS
  <2>. QED BY Counts, Workers, TcpServerConstants DEF RoomInv, SessionsNearLimit
<1>. QED BY <1>1, <1>2, RoomKept, TypesAlways, PTL DEF Spec

-----------------------------------------------------------------------------
(* The ids of sessions *)

\* Where an id can be.
Stacked(s) == \E i \in DOMAIN m_left_session_ids : m_left_session_ids[i] = s
Making(s) == \E t \in Threads : thr[t].at = "set" /\ thr[t].sid = s
Clearing(s) == clr # Nil /\ clr.sid = s
\* Each place has an id at most once, ...
NoDoubles ==
  /\ \A i, j \in DOMAIN m_left_session_ids :
       m_left_session_ids[i] = m_left_session_ids[j] => i = j
  /\ \A t, u \in Doing("set") : thr[t].sid = thr[u].sid => t = u
\* ... and each id that was made is in one of them.
OnePlace ==
  \A s \in Sid :
    /\ s > m_next_session_id =>
         ~Stacked(s) /\ ~Making(s) /\ ~Clearing(s) /\ m_session_map[s] = Nil
    /\ s <= m_next_session_id =>
         \/ Stacked(s) /\ ~Making(s) /\ ~Clearing(s) /\ m_session_map[s] = Nil
         \/ ~Stacked(s) /\ Making(s) /\ ~Clearing(s) /\ m_session_map[s] = Nil
         \/ ~Stacked(s) /\ ~Making(s) /\ Clearing(s) /\ m_session_map[s] = Nil
         \/ ~Stacked(s) /\ ~Making(s) /\ ~Clearing(s) /\ m_session_map[s] # Nil

PushedWell == known \cap {"lost", "twice"} = {}
IdInv == PushedWell => NoDoubles /\ OnePlace

\* What has happened stays known.
LEMMA KnownGrows ==
  ASSUME [Next]_vars
  PROVE  known \subseteq known'
<1>1. \A f, b : Record(f, b) => known \subseteq known' BY DEF Record
<1>2. CASE ConnectionStep
  BY <1>1, <1>2 DEF ConnectionStep, on_accept, on_close, on_read, on_accept_error, on_timer, stop
<1>3. CASE ClearStep
  BY <1>1, <1>3 DEF ClearStep, clear_conn_session, clear_erase, clear_push, clear_store, clear_end
<1>4. ASSUME NEW t \in m_option.threads, ThreadStep(t) PROVE known \subseteq known'
  BY <1>1, <1>4 DEF ThreadStep, operator, handle_server_context, add_session, next_session_id,
                    set_session, add_conn_session, erase_session, erase_conn_session
<1>. QED BY <1>2, <1>3, <1>4, Steps DEF vars

\* An id that is nowhere else joins the stack: it is there once.
LEMMA Pushed ==
  ASSUME TInv, NoDoubles, NEW s \in Sid, ~Stacked(s),
         m_left_session_ids' = Append(m_left_session_ids, s)
  PROVE  /\ \A i, j \in DOMAIN m_left_session_ids' :
              m_left_session_ids'[i] = m_left_session_ids'[j] => i = j
         /\ \A r \in Sid : Stacked(r)' <=> Stacked(r) \/ r = s
<1>. DEFINE n == Len(m_left_session_ids)
<1>1. /\ n \in Nat /\ DOMAIN m_left_session_ids = 1..n
      /\ DOMAIN m_left_session_ids' = 1..(n + 1) /\ m_left_session_ids'[n + 1] = s
      /\ \A i \in 1..n : m_left_session_ids'[i] = m_left_session_ids[i]
  BY DEF TInv, Types, TypeOK
<1>. HIDE DEF n
<1>2. \A i \in 1..(n + 1) : i \in 1..n \/ i = n + 1 BY <1>1
<1>3. \A r \in Sid : Stacked(r)' <=> Stacked(r) \/ r = s BY <1>1, <1>2 DEF Stacked
<1>4. \A i, j \in 1..(n + 1) : m_left_session_ids'[i] = m_left_session_ids'[j] => i = j
  BY <1>1, <1>2 DEF NoDoubles, Stacked
<1>. QED BY <1>1, <1>3, <1>4

\* next_session_id(): the id is free, and the thread's from now on.
LEMMA NextId ==
  ASSUME TInv, TInv', NoDoubles, OnePlace, NEW t \in m_option.threads, next_session_id(t)
  PROVE  NoDoubles' /\ OnePlace'
<1>. USE TcpServerConstants, NilAssumption
<1>. DEFINE n == Len(m_left_session_ids)
            s == thr'[t].sid
<1>1. /\ t \in Threads /\ \A u \in Threads : u # t => thr'[u] = thr[u]
      /\ thr[t].at = "id" /\ thr'[t].at = "set"
      /\ clr' = clr /\ m_session_map' = m_session_map
  <2>1. thr[t].at = "id" /\ clr' = clr /\ m_session_map' = m_session_map
        /\ \E i : Set(t, "set", i)
    BY DEF next_session_id
  <2>. QED BY <2>1, ThreadTypes, ThreadMoves, SetMoves DEF ThreadStep
<1>2. /\ n \in Nat /\ DOMAIN m_left_session_ids = 1..n /\ m_next_session_id \in Nat
      /\ \A i \in 1..n : m_left_session_ids[i] \in Sid
  BY DEF TInv, Types, TypeOK
<1>3. s \in Sid
  <2>1. Placed(thr'[t]) BY <1>1 DEF TInv, Types, TypeOK, Placed
  <2>. QED BY <1>1, <2>1 DEF Placed, Idle
<1>4. \/ /\ n # 0 /\ s = m_left_session_ids[n]
         /\ m_left_session_ids' = SubSeq(m_left_session_ids, 1, n - 1)
         /\ m_next_session_id' = m_next_session_id
      \/ /\ s = m_next_session_id + 1 /\ m_next_session_id' = s
         /\ m_left_session_ids' = m_left_session_ids
  <2>1. CASE m_left_session_ids # <<>>
    <3>1. n # 0 BY <2>1 DEF TInv, Types, TypeOK
    <3>. QED BY <2>1, <3>1, SetMoves DEF next_session_id
  <2>2. CASE m_left_session_ids = <<>>
    BY <2>2, SetMoves DEF next_session_id
  <2>. QED BY <2>1, <2>2
<1>5. \/ /\ n # 0 /\ s = m_left_session_ids[n] /\ m_next_session_id' = m_next_session_id
         /\ DOMAIN m_left_session_ids' = 1..(n - 1)
         /\ \A i \in 1..(n - 1) : m_left_session_ids'[i] = m_left_session_ids[i]
      \/ /\ s = m_next_session_id + 1 /\ m_next_session_id' = s
         /\ m_left_session_ids' = m_left_session_ids
  <2>1. CASE n # 0 /\ m_left_session_ids' = SubSeq(m_left_session_ids, 1, n - 1)
    <3>1. n - 1 \in Nat /\ \A i \in 1..(n - 1) : m_left_session_ids[i] \in Sid
      BY <1>2, <2>1
    <3>2. /\ m_left_session_ids' \in Seq(Sid)
          /\ Len(m_left_session_ids') = IF 1 <= n - 1 THEN n - 1 - 1 + 1 ELSE 0
          /\ \A i \in 1..(n - 1 - 1 + 1) : m_left_session_ids'[i] = m_left_session_ids[1 + i - 1]
      BY <2>1, <3>1, SubSeqProperties
    <3>. HIDE DEF n
    <3>3. Len(m_left_session_ids') = n - 1 BY <3>1, <3>2
    <3>4. \A i \in 1..(n - 1) : m_left_session_ids'[i] = m_left_session_ids[i] BY <3>1, <3>2
    <3>5. DOMAIN m_left_session_ids' = 1..(n - 1) BY <3>2, <3>3, LenProperties
    <3>. QED BY <1>4, <2>1, <3>4, <3>5, <1>2
  <2>. QED BY <1>4, <2>1
<1>. HIDE DEF n, s
\* s was free.
<1>6. m_session_map[s] = Nil /\ ~Making(s) /\ ~Clearing(s)
  BY <1>2, <1>3, <1>4 DEF OnePlace, Stacked, Sid
<1>7. /\ Doing("set")' = Doing("set") \cup {t} /\ t \notin Doing("set")
      /\ \A u \in Doing("set") : thr'[u] = thr[u]
  BY <1>1 DEF Doing
<1>8. NoDoubles'
  <2>1. \A u \in Doing("set") : thr[u].sid # s BY <1>6 DEF Making, Doing
  <2>2. \A i, j \in DOMAIN m_left_session_ids' :
          m_left_session_ids'[i] = m_left_session_ids'[j] => i = j
    <3>1. \A i, j \in 1..n : m_left_session_ids[i] = m_left_session_ids[j] => i = j
      BY <1>2 DEF NoDoubles
    <3>2. \A i \in 1..(n - 1) : i \in 1..n BY <1>2
    <3>. QED BY <1>2, <1>5, <3>1, <3>2
  <2>3. \A u, v \in Doing("set")' : thr'[u].sid = thr'[v].sid => u = v
    BY <1>7, <2>1 DEF NoDoubles, s
  <2>. QED BY <2>2, <2>3 DEF NoDoubles
<1>9. \A r \in Sid : Making(r)' <=> Making(r) \/ r = s
  BY <1>1, <1>7 DEF Making, Doing, s
<1>10. \A r \in Sid : Stacked(r)' <=> Stacked(r) /\ r # s
  <2>1. CASE s = m_next_session_id + 1 /\ m_left_session_ids' = m_left_session_ids
    <3>1. s > m_next_session_id BY <1>2, <2>1
    <3>2. ~Stacked(s) BY <1>3, <3>1 DEF OnePlace
    <3>. QED BY <2>1, <3>2 DEF Stacked
  <2>2. CASE /\ n # 0 /\ s = m_left_session_ids[n]
             /\ DOMAIN m_left_session_ids' = 1..(n - 1)
             /\ \A i \in 1..(n - 1) : m_left_session_ids'[i] = m_left_session_ids[i]
    <3>1. \A i \in 1..n : i # n <=> i \in 1..(n - 1) BY <1>2
    <3>2. n \in 1..n /\ \A i \in 1..(n - 1) : i \in 1..n BY <1>2, <2>2
    <3>3. \A i \in 1..n : m_left_session_ids[i] = s <=> i = n
      BY <1>2, <2>2, <3>2 DEF NoDoubles
    <3>. QED BY <1>2, <2>2, <3>1, <3>2, <3>3 DEF Stacked
  <2>. QED BY <1>5, <2>1, <2>2
<1>11. \A r \in Sid : /\ r > m_next_session_id' => r > m_next_session_id /\ r # s
                      /\ r <= m_next_session_id' => r <= m_next_session_id \/ r = s
                      /\ s <= m_next_session_id'
  <2>1. \A r \in Sid : r \in Nat BY DEF Sid
  <2>2. CASE m_next_session_id' = m_next_session_id /\ n # 0 /\ s = m_left_session_ids[n]
    <3>1. Stacked(s) BY <1>2, <2>2 DEF Stacked
    <3>2. s <= m_next_session_id BY <1>2, <1>3, <2>1, <3>1 DEF OnePlace
    <3>. QED BY <1>2, <1>3, <2>1, <2>2, <3>2
  <2>3. CASE s = m_next_session_id + 1 /\ m_next_session_id' = s BY <1>2, <2>1, <2>3
  <2>. QED BY <1>5, <2>2, <2>3
<1>12. OnePlace'
  <2>1. \A r : Clearing(r)' <=> Clearing(r) BY <1>1 DEF Clearing
  <2>2. \A r \in Sid : r \in Nat /\ (r <= m_next_session_id' \/ r > m_next_session_id')
                      /\ (r <= m_next_session_id \/ r > m_next_session_id)
    <3>1. m_next_session_id' \in Nat BY DEF TInv, Types, TypeOK
    <3>. QED BY <1>2, <3>1 DEF Sid
  <2>3. \A r \in Sid : m_session_map'[r] = m_session_map[r] BY <1>1
  <2>. QED BY <1>3, <1>6, <1>9, <1>10, <1>11, <2>1, <2>2, <2>3 DEF OnePlace
<1>. QED BY <1>8, <1>12

\* Nothing that happens to ids otherwise takes one out of a place, or puts it
\* into a second one, but a push_back() that is known.
LEMMA IdsKept == ASSUME TInv, TInv', IdInv, [Next]_vars PROVE IdInv'
<1>. USE TcpServerConstants, NilAssumption
<1>. SUFFICES ASSUME PushedWell' PROVE NoDoubles' /\ OnePlace'
  BY DEF IdInv
<1>1. NoDoubles /\ OnePlace
  BY KnownGrows DEF IdInv, PushedWell
\* A step that leaves the stack, the threads at "set" and on_close() alone.
<1>2. ASSUME UNCHANGED <<m_left_session_ids, m_next_session_id, m_session_map>>,
             \A r : Clearing(r)' <=> Clearing(r),
             Doing("set")' = Doing("set"), \A u \in Doing("set") : thr'[u].sid = thr[u].sid
      PROVE  NoDoubles' /\ OnePlace'
  <2>1. \A r : (Stacked(r)' <=> Stacked(r)) /\ (Making(r)' <=> Making(r))
    BY <1>2 DEF Stacked, Making, Doing
  <2>. QED BY <1>1, <1>2, <2>1 DEF NoDoubles, OnePlace
\* One that takes session s out of the map.
<1>3. ASSUME NEW s \in Sid, m_session_map' = [m_session_map EXCEPT ![s] = Nil],
             m_session_map[s] # Nil, m_next_session_id' = m_next_session_id,
             Doing("set")' = Doing("set"), \A u \in Doing("set") : thr'[u].sid = thr[u].sid,
             \/ /\ m_left_session_ids' = m_left_session_ids
                /\ \A r \in Sid : Clearing(r)' <=> Clearing(r) \/ r = s
             \/ /\ m_left_session_ids' = Append(m_left_session_ids, s)
                /\ \A r \in Sid : Clearing(r)' <=> Clearing(r)
      PROVE  NoDoubles' /\ OnePlace'
  <2>1. ~Stacked(s) /\ ~Making(s) /\ ~Clearing(s) /\ s <= m_next_session_id
    BY <1>1, <1>3 DEF OnePlace, Sid, TInv, Types, TypeOK
  <2>2. \A r \in Sid : m_session_map'[r] = IF r = s THEN Nil ELSE m_session_map[r]
    BY <1>3 DEF TInv, Types, TypeOK
  <2>3. \A r : Making(r)' <=> Making(r) BY <1>3 DEF Making, Doing
  <2>4. CASE m_left_session_ids' = m_left_session_ids
             /\ \A r \in Sid : Clearing(r)' <=> Clearing(r) \/ r = s
    <3>1. \A r : Stacked(r)' <=> Stacked(r) BY <2>4 DEF Stacked
    <3>2. NoDoubles' BY <1>1, <1>3, <2>4 DEF NoDoubles
    <3>. QED BY <1>1, <1>3, <2>1, <2>2, <2>3, <2>4, <3>1, <3>2 DEF OnePlace
  <2>5. CASE m_left_session_ids' = Append(m_left_session_ids, s)
             /\ \A r \in Sid : Clearing(r)' <=> Clearing(r)
    <3>1. /\ \A i, j \in DOMAIN m_left_session_ids' :
               m_left_session_ids'[i] = m_left_session_ids'[j] => i = j
          /\ \A r \in Sid : Stacked(r)' <=> Stacked(r) \/ r = s
      BY <1>1, <2>1, <2>5, Pushed
    <3>2. NoDoubles' BY <1>1, <1>3, <3>1 DEF NoDoubles
    <3>. QED BY <1>1, <1>3, <2>1, <2>2, <2>3, <2>5, <3>1, <3>2 DEF OnePlace
  <2>. QED BY <1>3, <2>4, <2>5
<1>4. CASE ConnectionStep \/ UNCHANGED vars
  <2>1. UNCHANGED <<sessVars, thr, clr>>
    BY <1>4, ConnectionTypes, Steps DEF SessionsKept, vars
  <2>. QED BY <1>2, <2>1 DEF sessVars, Doing, Clearing
<1>5. CASE ClearStep
  <2>0. thr' = thr /\ m_next_session_id' = m_next_session_id
    BY <1>5, Steps, ClearTypes DEF vars
  <2>1. Doing("set")' = Doing("set") /\ \A u \in Doing("set") : thr'[u].sid = thr[u].sid
    BY <2>0 DEF Doing
  <2>2. ASSUME NEW c \in closed, clear_conn_session(c) PROVE NoDoubles' /\ OnePlace'
    <3>1. clr = Nil /\ clr' # Nil /\ clr'.sid = 0
          /\ UNCHANGED <<m_left_session_ids, m_next_session_id, m_session_map>>
      <4>1. clr' = [conn |-> c, todo |-> m_conn_session[c], sid |-> 0, at |-> "erase",
                    left |-> <<>>] /\ clr = Nil
        BY <2>2 DEF clear_conn_session
      <4>2. clr' \in Clearance
        BY <2>2, <4>1 DEF Clearance, TInv, Types, TypeOK
      <4>. QED BY <2>2, <4>1, <4>2 DEF clear_conn_session, sessVars
    <3>2. \A r \in Sid : ~Clearing(r) /\ ~Clearing(r)' /\ r # 0 BY <3>1 DEF Clearing, Sid
    <3>3. \A r : Stacked(r)' <=> Stacked(r) BY <3>1 DEF Stacked
    <3>4. \A r : Making(r)' <=> Making(r) BY <2>1 DEF Making, Doing
    <3>. QED BY <1>1, <2>1, <3>1, <3>2, <3>3, <3>4 DEF NoDoubles, OnePlace
  <2>3. ASSUME NEW s \in Sid, clear_erase(s) PROVE NoDoubles' /\ OnePlace'
    <3>1. m_session_map[s] # Nil
      BY <2>3 DEF clear_erase, Record, PushedWell
    <3>2. /\ clr # Nil /\ clr \in Clearance /\ clr.sid = 0 /\ clr' # Nil
          /\ clr' = [clr EXCEPT !.todo = @ \ {s}, !.sid = s, !.at = "push"]
      <4>1. /\ clr # Nil /\ clr \in Clearance /\ clr.sid = 0
            /\ clr' = [clr EXCEPT !.todo = @ \ {s}, !.sid = s, !.at = "push"]
        BY <2>3 DEF clear_erase, TInv, Types, TypeOK, IdInHand
      <4>2. clr' \in Clearance BY <4>1 DEF Clearance
      <4>. QED BY <4>1, <4>2
    <3>3. clr'.sid = s BY <3>2 DEF Clearance
    <3>4. \A r \in Sid : Clearing(r)' <=> Clearing(r) \/ r = s
      BY <3>2, <3>3 DEF Clearing, Sid
    <3>. QED BY <1>3, <2>0, <2>1, <2>3, <3>1, <3>4 DEF clear_erase
  <2>4. CASE clear_push
    <3>1. clr # Nil /\ clr \in Clearance
          /\ clr' = [clr EXCEPT !.left = m_left_session_ids, !.at = "store"]
      BY <2>4 DEF clear_push, TInv, Types, TypeOK
    <3>2. clr' # Nil /\ clr'.sid = clr.sid
      BY <3>1 DEF Clearance, TInv, Types, TypeOK
    <3>. QED BY <1>2, <2>1, <2>4, <3>1, <3>2 DEF clear_push, sessVars, Clearing
  <2>5. CASE clear_store
    <3>1. m_left_session_ids = clr.left
      BY <2>5 DEF clear_store, Record, PushedWell
    <3>2. /\ clr # Nil /\ clr \in Clearance /\ clr.sid \in Sid
          /\ clr' = [clr EXCEPT !.left = <<>>, !.sid = 0, !.at = "erase"]
          /\ m_left_session_ids' = Append(m_left_session_ids, clr.sid)
          /\ UNCHANGED <<m_next_session_id, m_session_map>>
      BY <2>5, <3>1 DEF clear_store, TInv, Types, TypeOK, IdInHand, Clearance
    <3>3. clr'.sid = 0 BY <3>2 DEF Clearance
    <3>4. \A r \in Sid : ~Clearing(r)' /\ (Clearing(r) <=> r = clr.sid)
      BY <3>2, <3>3 DEF Clearing, Sid
    <3>5. ~Stacked(clr.sid) /\ ~Making(clr.sid) /\ m_session_map[clr.sid] = Nil
          /\ clr.sid <= m_next_session_id
      BY <1>1, <3>2, <3>4 DEF OnePlace, Sid, TInv, Types, TypeOK
    <3>6. /\ \A i, j \in DOMAIN m_left_session_ids' :
               m_left_session_ids'[i] = m_left_session_ids'[j] => i = j
          /\ \A r \in Sid : Stacked(r)' <=> Stacked(r) \/ r = clr.sid
      BY <1>1, <3>2, <3>5, Pushed
    <3>7. NoDoubles' BY <1>1, <2>1, <3>6 DEF NoDoubles
    <3>8. \A r : Making(r)' <=> Making(r) BY <2>1 DEF Making, Doing
    <3>. QED BY <1>1, <3>2, <3>4, <3>5, <3>6, <3>7, <3>8 DEF OnePlace
  <2>6. CASE clear_end
    <3>1. clr # Nil /\ clr.sid = 0 /\ clr' = Nil
          /\ UNCHANGED <<m_left_session_ids, m_next_session_id, m_session_map>>
      BY <2>6 DEF clear_end, TInv, IdInHand
    <3>2. \A r \in Sid : ~Clearing(r) /\ ~Clearing(r)' BY <3>1 DEF Clearing, Sid
    <3>3. \A r : Stacked(r)' <=> Stacked(r) BY <3>1 DEF Stacked
    <3>4. \A r : Making(r)' <=> Making(r) BY <2>1 DEF Making, Doing
    <3>. QED BY <1>1, <2>1, <3>1, <3>2, <3>3, <3>4 DEF NoDoubles, OnePlace
  <2>. QED BY <1>5, <2>2, <2>3, <2>4, <2>5, <2>6 DEF ClearStep
<1>6. ASSUME NEW t \in m_option.threads, ThreadStep(t) PROVE NoDoubles' /\ OnePlace'
  <2>0. /\ t \in Threads /\ \A u \in Threads : u # t => thr'[u] = thr[u]
        /\ Placed(thr[t]) /\ clr' = clr /\ \A r : Clearing(r)' <=> Clearing(r)
    <3>1. clr' = clr BY <1>6, Steps, ThreadTypes DEF vars, ThreadStep, operator,
            handle_server_context, add_session, next_session_id, set_session, add_conn_session,
            erase_session, erase_conn_session
    <3>. QED BY <1>6, <3>1, ThreadMoves, Workers DEF Clearing
  <2>1. ASSUME thr[t].at # "set", thr'[t].at # "set"
        PROVE  Doing("set")' = Doing("set") /\ \A u \in Doing("set") : thr'[u].sid = thr[u].sid
    BY <2>0, <2>1 DEF Doing
  <2>2. CASE next_session_id(t) BY <1>1, <2>2, NextId
  <2>3. CASE set_session(t)
    <3>1. /\ thr[t].at = "set" /\ thr[t].sid \in Sid /\ thr[t].conn \in Conns
          /\ thr'[t].at = "index"
          /\ m_session_map' = [m_session_map EXCEPT ![thr[t].sid] = thr[t].conn]
          /\ UNCHANGED <<m_left_session_ids, m_next_session_id>>
      BY <2>0, <2>3, SetMoves DEF set_session, Placed, Idle
    <3>2. /\ t \in Doing("set") /\ Doing("set")' = Doing("set") \ {t}
          /\ \A u \in Doing("set")' : thr'[u] = thr[u]
      BY <2>0, <3>1 DEF Doing
    <3>3. \A r : Making(r)' <=> Making(r) /\ r # thr[t].sid
      BY <1>1, <3>2 DEF Making, Doing, NoDoubles
    <3>4. /\ Making(thr[t].sid) /\ thr[t].sid <= m_next_session_id
          /\ ~Stacked(thr[t].sid) /\ ~Clearing(thr[t].sid)
      <4>1. Making(thr[t].sid) BY <2>0, <3>1 DEF Making
      <4>. QED BY <1>1, <3>1, <4>1 DEF OnePlace, Sid, TInv, Types, TypeOK
    <3>5. \A r : Stacked(r)' <=> Stacked(r) BY <3>1 DEF Stacked
    <3>6. \A r \in Sid : m_session_map'[r] =
            IF r = thr[t].sid THEN thr[t].conn ELSE m_session_map[r]
      BY <3>1 DEF TInv, Types, TypeOK
    <3>7. NoDoubles' BY <1>1, <3>1, <3>2 DEF NoDoubles
    <3>8. thr[t].conn # Nil BY <3>1
    <3>. QED BY <1>1, <2>0, <3>1, <3>3, <3>4, <3>5, <3>6, <3>7, <3>8 DEF OnePlace
  <2>4. CASE erase_session(t)
    <3>1. thr[t].at = "close" /\ thr'[t].at = "unindex" /\ thr[t].sid \in Sid
      BY <2>0, <2>4, SetMoves DEF erase_session, Placed, Idle
    <3>2. CASE m_session_map[thr[t].sid] # Nil
      BY <1>3, <2>0, <2>1, <2>4, <3>1, <3>2 DEF erase_session
    <3>3. CASE m_session_map[thr[t].sid] = Nil
      <4>1. m_session_map' = m_session_map
        BY <2>4, <3>1, <3>3 DEF erase_session, TInv, Types, TypeOK
      <4>. QED BY <1>2, <2>0, <2>1, <2>4, <3>1, <3>3, <4>1 DEF erase_session
    <3>. QED BY <3>2, <3>3
  <2>5. CASE add_session(t) \/ handle_server_context(t) \/ operator(t) \/ add_conn_session(t)
             \/ erase_conn_session(t)
    <3>1. UNCHANGED <<m_left_session_ids, m_next_session_id, m_session_map>>
      BY <2>5 DEF add_session, handle_server_context, operator, add_conn_session,
                  erase_conn_session, sessVars
    <3>2. thr[t].at # "set"
      BY <2>5 DEF add_session, handle_server_context, operator, add_conn_session,
                  erase_conn_session, Idle
    <3>3. thr'[t].at # "set"
      <4>1. CASE operator(t)
        <5>1. thr'[t] = Idle \/ thr'[t].at = "open"
          BY <2>0, <4>1 DEF operator, TInv, Types
        <5>. QED BY <5>1 DEF Idle
      <4>2. CASE handle_server_context(t) \/ add_session(t)
        BY <4>2, SetMoves DEF handle_server_context, add_session
      <4>3. CASE add_conn_session(t) \/ erase_conn_session(t)
        BY <4>3, SetMoves DEF add_conn_session, erase_conn_session
      <4>. QED BY <2>5, <4>1, <4>2, <4>3
    <3>. QED BY <1>2, <2>0, <2>1, <3>1, <3>2, <3>3
  <2>. QED BY <1>6, <2>2, <2>3, <2>4, <2>5 DEF ThreadStep
<1>. QED BY <1>4, <1>5, <1>6, Steps
\* next_session_id(), add_session(), erase_session() and clear_conn_session()
\* neither lose an id nor have it in two places, in whichever order threads and
\* connections take their steps, but by a push_back() that is known.
THEOREM NoIdIsLost == Spec => []IdsConserved
<1>1. Init => IdInv
  BY TcpServerConstants
     DEF Init, IdInv, NoDoubles, OnePlace, Doing, Idle, Stacked, Making, Clearing, Sid
<1>2. TInv /\ IdInv => IdsConserved
  <2>. SUFFICES ASSUME TInv, NoDoubles, OnePlace, NEW s \in 1..m_next_session_id
                PROVE  Cardinality({i \in DOMAIN m_left_session_ids : m_left_session_ids[i] = s})
                     + Cardinality({t \in Doing("set") : thr[t].sid = s})
                     + (IF m_session_map[s] # Nil THEN 1 ELSE 0)
                     + (IF clr # Nil /\ clr.sid = s THEN 1 ELSE 0)
                     = 1
    BY DEF IdsConserved, IdInv, PushedWell
  <2>. DEFINE A == {i \in DOMAIN m_left_session_ids : m_left_session_ids[i] = s}
              B == {t \in Doing("set") : thr[t].sid = s}
  <2>1. s \in Sid /\ s <= m_next_session_id
    BY TcpServerConstants DEF TInv, Types, TypeOK, Sid
  <2>2. (A # {} <=> Stacked(s)) /\ (B # {} <=> Making(s))
    BY DEF Stacked, Making, Doing
  <2>3. \A x, y \in A : x = y
    BY DEF NoDoubles
  <2>4. \A x, y \in B : x = y
    BY DEF NoDoubles
  <2>5. (A = {} \/ \E x : A = {x}) /\ (B = {} \/ \E x : B = {x})
    <3>. HIDE DEF A, B
    <3>1. A = {} \/ \E x : A = {x}
      <4>1. ASSUME NEW x \in A PROVE A = {x} BY <2>3, <4>1
      <4>. QED BY <4>1
    <3>2. B = {} \/ \E x : B = {x}
      <4>1. ASSUME NEW x \in B PROVE B = {x} BY <2>4, <4>1
      <4>. QED BY <4>1
    <3>. QED BY <3>1, <3>2
  <2>6. /\ Cardinality(A) = IF Stacked(s) THEN 1 ELSE 0
        /\ Cardinality(B) = IF Making(s) THEN 1 ELSE 0
    <3>. HIDE DEF A, B
    <3>. QED BY <2>2, <2>5, FS_EmptySet, FS_Singleton
  <2>. HIDE DEF A, B
  <2>7. Cardinality(A) + Cardinality(B)
        + (IF m_session_map[s] # Nil THEN 1 ELSE 0)
        + (IF Clearing(s) THEN 1 ELSE 0) = 1
    BY <2>1, <2>6 DEF OnePlace
  <2>. QED BY <2>7 DEF A, B, Clearing
<1>. QED BY <1>1, <1>2, IdsKept, TypesAlways, PTL DEF Spec

-----------------------------------------------------------------------------
(* Sessions and the index by connection *)

KeptWell == known \cap {"swept", "late", "unindexed"} = {}
\* A session is indexed, or about to be; its connection is there, or its
\* on_close() has yet to come to the session.
Owned(s, c) ==
  /\ s \in m_conn_session[c]
  /\ \/ c \in peers \cup closed
     \/ clr # Nil /\ clr.conn = c /\ s \in clr.todo
     \/ acceptor = "stopped"
\* What on_close() has erased of its connection is nobody's, or is being made.
ErasedIsGone(s, c) ==
  (clr # Nil /\ clr.conn = c /\ s \in m_conn_session[c] /\ s \notin clr.todo)
     => m_session_map[s] # c \/ Indexing(s, c) # {}
Accounted(s, c) ==
  /\ m_session_map[s] = c => Indexing(s, c) # {} \/ Owned(s, c)
  /\ ErasedIsGone(s, c)
OwnerInv == KeptWell => \A s \in Sid, c \in Conns : Accounted(s, c)

\* on_close() in progress stays so until its end.
LEMMA ClearAtWork ==
  ASSUME TInv, TInv', clr # Nil,
         \/ clr' = [clr EXCEPT !.left = m_left_session_ids, !.at = "store"]
         \/ clr' = [clr EXCEPT !.left = <<>>, !.sid = 0, !.at = "erase"]
  PROVE  clr' # Nil
<1>1. clr \in Clearance BY DEF TInv, Types, TypeOK
<1>2. CASE clr' = [clr EXCEPT !.left = m_left_session_ids, !.at = "store"]
  <2>1. clr' \in Clearance BY <1>1, <1>2 DEF Clearance, TInv, Types, TypeOK
  <2>. QED BY <2>1, NilAssumption
<1>3. CASE clr' = [clr EXCEPT !.left = <<>>, !.sid = 0, !.at = "erase"]
  <2>1. clr' = [conn |-> clr.conn, todo |-> clr.todo, sid |-> 0, at |-> "erase", left |-> <<>>]
    BY <1>1, <1>3 DEF Clearance
  <2>2. clr.conn \in Conns /\ clr.todo \in SUBSET Sid /\ <<>> \in Seq(Sid)
    BY <1>1 DEF Clearance
  <2>3. clr' \in Clearance BY <2>1, <2>2 DEF Clearance
  <2>. QED BY <2>3, NilAssumption
<1>. QED BY <1>2, <1>3

\* Threads that are about to index a session stay so, but by indexing it.
LEMMA IndexingStays ==
  ASSUME TInv, NEW t \in m_option.threads, ThreadStep(t), thr[t].at # "index"
  PROVE  \A s, c : Indexing(s, c) # {} => Indexing(s, c)' # {}
<1>1. /\ t \in Threads /\ \A u \in Threads : u # t => thr'[u] = thr[u] BY ThreadMoves
<1>2. \A s, c : t \notin Indexing(s, c) BY DEF Indexing
<1>. QED BY <1>1, <1>2 DEF Indexing

LEMMA OwnerKept == ASSUME TInv, TInv', OwnerInv, [Next]_vars PROVE OwnerInv'
<1>. USE TcpServerConstants, NilAssumption
<1>. SUFFICES ASSUME KeptWell', NEW s \in Sid, NEW c \in Conns PROVE Accounted(s, c)'
  BY DEF OwnerInv, Sid
<1>1. Accounted(s, c)
  BY KnownGrows DEF OwnerInv, KeptWell
<1>2. /\ m_session_map \in [Sid -> Conns \cup {Nil}] /\ m_conn_session \in [Conns -> SUBSET Sid]
      /\ clr \in Clearance \cup {Nil} /\ clr' \in Clearance \cup {Nil}
      /\ c # Nil
  BY DEF TInv, Types, TypeOK
<1>4. CASE ConnectionStep \/ UNCHANGED vars
  <2>1. UNCHANGED <<sessVars, thr, clr>>
    BY <1>4, ConnectionTypes, Steps DEF SessionsKept, vars
  <2>2. m_session_map[s] = c /\ Owned(s, c) => Owned(s, c)'
    <3>1. UNCHANGED <<m_conn_session, clr, m_session_map>> BY <2>1 DEF sessVars
    <3>2. CASE on_timer
      <4>1. m_session_map[s] = c => c \notin peers \ active
        BY <1>2, <3>2 DEF on_timer, Record, KeptWell, Sessions
      <4>. QED BY <3>1, <3>2, <4>1 DEF Owned, on_timer, clean_inactive_peer
    <3>3. CASE ~on_timer
      <4>1. (c \in peers \cup closed => c \in peers' \cup closed' \/ acceptor' = "stopped")
            /\ (acceptor = "stopped" => acceptor' = "stopped")
        BY <1>4, <3>3 DEF ConnectionStep, on_accept, add, on_close, on_read, on_accept_error, stop,
                          vars, connVars
      <4>. QED BY <3>1, <4>1 DEF Owned
    <3>. QED BY <3>2, <3>3
  <2>. QED BY <1>1, <2>1, <2>2 DEF sessVars, Accounted, ErasedIsGone, Indexing
<1>5. CASE ClearStep
  <2>0. peers' = peers /\ acceptor' = acceptor /\ Indexing(s, c)' = Indexing(s, c)
    BY <1>5, Steps, ClearTypes DEF vars, connVars, Indexing
  <2>1. ASSUME NEW d \in closed, clear_conn_session(d) PROVE Accounted(s, c)'
    <3>1. /\ clr = Nil /\ closed' = closed \ {d}
          /\ clr'.conn = d /\ clr'.todo = m_conn_session[d] /\ clr' # Nil
          /\ UNCHANGED <<m_session_map, m_conn_session>>
      <4>1. /\ clr' = [conn |-> d, todo |-> m_conn_session[d], sid |-> 0, at |-> "erase",
                       left |-> <<>>]
            /\ clr = Nil
        BY <2>1 DEF clear_conn_session
      <4>2. clr' \in Clearance BY <1>2, <2>1, <4>1 DEF Clearance, TInv, Types, TypeOK
      <4>. QED BY <2>1, <4>1, <4>2 DEF clear_conn_session, sessVars
    <3>. QED BY <1>1, <2>0, <3>1 DEF Accounted, ErasedIsGone, Owned
  <2>2. ASSUME NEW r \in Sid, clear_erase(r) PROVE Accounted(s, c)'
    <3>1. /\ clr # Nil /\ clr \in Clearance /\ closed' = closed
          /\ clr' = [clr EXCEPT !.todo = @ \ {r}, !.sid = r, !.at = "push"]
          /\ m_session_map' = [m_session_map EXCEPT ![r] = Nil]
          /\ m_conn_session' = m_conn_session
      BY <1>2, <2>2 DEF clear_erase
    <3>2. clr'.conn = clr.conn /\ clr'.todo = clr.todo \ {r} /\ clr' # Nil
      <4>1. clr'.conn = clr.conn /\ clr'.todo = clr.todo \ {r} /\ clr' \in Clearance
        BY <3>1 DEF Clearance
      <4>. QED BY <1>2, <3>1, <4>1
    <3>3. m_session_map'[s] = IF s = r THEN Nil ELSE m_session_map[s] BY <1>2, <3>1
    <3>4. CASE s = r BY <1>2, <3>3, <3>4 DEF Accounted, ErasedIsGone
    <3>5. CASE s # r
      BY <1>1, <2>0, <3>1, <3>2, <3>3, <3>5 DEF Accounted, ErasedIsGone, Owned
    <3>. QED BY <3>4, <3>5
  <2>3. CASE clear_push \/ clear_store
    <3>1. /\ clr # Nil /\ clr \in Clearance /\ closed' = closed
          /\ UNCHANGED <<m_session_map, m_conn_session>>
          /\ \/ clr' = [clr EXCEPT !.left = m_left_session_ids, !.at = "store"]
             \/ clr' = [clr EXCEPT !.left = <<>>, !.sid = 0, !.at = "erase"]
      BY <1>2, <2>3 DEF clear_push, clear_store, sessVars
    <3>2. clr'.conn = clr.conn /\ clr'.todo = clr.todo BY <3>1 DEF Clearance
    <3>3. clr' # Nil BY <2>3, <3>1, ClearAtWork DEF clear_push, clear_store
    <3>. QED BY <1>1, <2>0, <3>1, <3>2, <3>3 DEF Accounted, ErasedIsGone, Owned
  <2>4. CASE clear_end
    <3>1. /\ clr # Nil /\ clr \in Clearance /\ clr.todo = {} /\ closed' = closed /\ clr' = Nil
          /\ m_session_map' = m_session_map
          /\ m_conn_session' = [m_conn_session EXCEPT ![clr.conn] = {}]
      BY <1>2, <2>4 DEF clear_end
    <3>2. ErasedIsGone(s, c)' BY <3>1 DEF ErasedIsGone
    <3>3. CASE c = clr.conn
      <4>1. m_session_map[s] = c => Indexing(s, c) # {}
        BY <1>1, <3>1, <3>3 DEF Accounted, ErasedIsGone, Owned
      <4>. QED BY <2>0, <3>1, <3>2, <4>1 DEF Accounted
    <3>4. CASE c # clr.conn
      <4>1. m_conn_session'[c] = m_conn_session[c] BY <1>2, <3>1, <3>4
      <4>2. Owned(s, c) => Owned(s, c)' BY <2>0, <3>1, <3>4, <4>1 DEF Owned
      <4>. QED BY <1>1, <2>0, <3>1, <3>2, <4>2 DEF Accounted
    <3>. QED BY <3>3, <3>4
  <2>. QED BY <1>5, <2>1, <2>2, <2>3, <2>4 DEF ClearStep
<1>6. ASSUME NEW t \in m_option.threads, ThreadStep(t) PROVE Accounted(s, c)'
  <2>0. /\ t \in Threads /\ \A u \in Threads : u # t => thr'[u] = thr[u]
        /\ Placed(thr[t]) /\ UNCHANGED <<clr, peers, closed, acceptor>>
    BY <1>6, ThreadMoves, Workers, Steps DEF ThreadStep, operator,
       handle_server_context, add_session, next_session_id, set_session, add_conn_session,
       erase_session, erase_conn_session, connVars
  <2>i. thr[t].at # "index" => (Indexing(s, c) # {} => Indexing(s, c)' # {})
    BY <1>6, IndexingStays
\* The index and this session stay, and nobody stops being about to index it.
  <2>1. ASSUME m_conn_session'[c] = m_conn_session[c], thr[t].at # "index",
               m_session_map'[s] = c => m_session_map[s] = c
        PROVE  Accounted(s, c)'
    <3>1. Owned(s, c) => Owned(s, c)' BY <2>0, <2>1 DEF Owned
    <3>2. ErasedIsGone(s, c)' BY <1>1, <2>0, <2>i, <2>1 DEF Accounted, ErasedIsGone
    <3>. QED BY <1>1, <2>i, <2>1, <3>1, <3>2 DEF Accounted
  <2>2. CASE operator(t) \/ handle_server_context(t) \/ add_session(t) \/ next_session_id(t)
    BY <2>1, <2>2 DEF operator, handle_server_context, add_session, next_session_id, sessVars, Idle
  <2>3. CASE set_session(t)
    <3>1. /\ thr[t].at = "set" /\ thr[t].sid \in Sid /\ thr[t].conn \in Conns
          /\ m_session_map' = [m_session_map EXCEPT ![thr[t].sid] = thr[t].conn]
          /\ m_conn_session' = m_conn_session /\ Set(t, "index", thr[t].sid)
      BY <2>0, <2>3 DEF set_session, Placed, Idle
    <3>2. CASE s = thr[t].sid /\ c = thr[t].conn
      <4>1. thr'[t] = [at |-> "index", conn |-> c, sid |-> s]
        BY <2>0, <3>1, <3>2 DEF Set, TInv, Types, Thread
      <4>2. Indexing(s, c)' # {} BY <2>0, <4>1 DEF Indexing
      <4>. QED BY <4>2 DEF Accounted, ErasedIsGone
    <3>3. CASE ~(s = thr[t].sid /\ c = thr[t].conn)
      <4>1. m_session_map'[s] = c => m_session_map[s] = c BY <1>2, <3>1, <3>3
      <4>. QED BY <2>1, <3>1, <4>1
    <3>. QED BY <3>2, <3>3
  <2>4. CASE add_conn_session(t)
    <3>1. /\ thr[t].at = "index" /\ thr[t].sid \in Sid /\ thr[t].conn \in Conns /\ clr = Nil
          /\ m_conn_session' = [m_conn_session EXCEPT ![thr[t].conn] = @ \cup {thr[t].sid}]
          /\ m_session_map' = m_session_map
          /\ m_session_map[thr[t].sid] = thr[t].conn => thr[t].conn \in peers \cup closed
      BY <2>0, <2>4 DEF add_conn_session, Placed, Idle, Record, KeptWell
    <3>2. m_conn_session[c] \subseteq m_conn_session'[c] BY <1>2, <3>1
    <3>3. ErasedIsGone(s, c)' BY <2>0, <3>1 DEF ErasedIsGone
    <3>4. Owned(s, c) => Owned(s, c)' BY <2>0, <3>2 DEF Owned
    <3>5. CASE s = thr[t].sid /\ c = thr[t].conn
      <4>1. m_session_map'[s] = c => Owned(s, c)' BY <1>2, <2>0, <3>1, <3>5 DEF Owned
      <4>. QED BY <3>3, <4>1 DEF Accounted
    <3>6. CASE ~(s = thr[t].sid /\ c = thr[t].conn)
      <4>1. t \notin Indexing(s, c) BY <3>6 DEF Indexing
      <4>2. Indexing(s, c) # {} => Indexing(s, c)' # {} BY <2>0, <4>1 DEF Indexing
      <4>. QED BY <1>1, <3>1, <3>3, <3>4, <4>2 DEF Accounted
    <3>. QED BY <3>5, <3>6
  <2>5. CASE erase_session(t)
    <3>1. /\ thr[t].at = "close" /\ m_conn_session' = m_conn_session
          /\ m_session_map' = [m_session_map EXCEPT ![thr[t].sid] = Nil]
      BY <2>5 DEF erase_session
    <3>2. m_session_map'[s] = c => m_session_map[s] = c BY <1>2, <3>1
    <3>. QED BY <2>1, <3>1, <3>2
  <2>6. CASE erase_conn_session(t)
    <3>1. /\ thr[t].at = "unindex" /\ thr[t].conn \in Conns /\ clr = Nil
          /\ m_conn_session' = [m_conn_session EXCEPT ![thr[t].conn] = @ \ {thr[t].sid}]
          /\ m_session_map' = m_session_map
          /\ m_session_map[thr[t].sid] = thr[t].conn => Indexing(thr[t].sid, thr[t].conn) # {}
      BY <2>0, <2>6 DEF erase_conn_session, Placed, Idle, Record, KeptWell
    <3>2. ErasedIsGone(s, c)' BY <2>0, <3>1 DEF ErasedIsGone
    <3>3. CASE s = thr[t].sid /\ c = thr[t].conn
      BY <2>i, <3>1, <3>2, <3>3 DEF Accounted
    <3>4. CASE ~(s = thr[t].sid /\ c = thr[t].conn)
      <4>1. s \in m_conn_session[c] => s \in m_conn_session'[c] BY <1>2, <3>1, <3>4
      <4>2. Owned(s, c) => Owned(s, c)' BY <2>0, <4>1 DEF Owned
      <4>. QED BY <1>1, <2>i, <3>1, <3>2, <4>2 DEF Accounted
    <3>. QED BY <3>3, <3>4
  <2>. QED BY <1>6, <2>2, <2>3, <2>4, <2>5, <2>6 DEF ThreadStep
<1>. QED BY <1>4, <1>5, <1>6, Steps

\* When a connection goes, its sessions go with it, in whichever order threads
\* and connections take their steps, unless the sweep or a late change of the
\* index, which are known, left one behind.
THEOREM SessionsGoAlong == Spec => []NoOrphanSession
<1>1. Init => OwnerInv
  BY NilAssumption DEF Init, OwnerInv, Accounted, ErasedIsGone
<1>2. TInv /\ OwnerInv => NoOrphanSession
  BY DEF OwnerInv, NoOrphanSession, KeptWell, Accounted, Owned, Sessions, TInv, Types, TypeOK
<1>. QED BY <1>1, <1>2, OwnerKept, TypesAlways, PTL DEF Spec

=============================================================================
