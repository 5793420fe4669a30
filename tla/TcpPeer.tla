------------------------------ MODULE TcpPeer ------------------------------
(***************************************************************************)
(* One connection: TcpPeer::Impl (prj/src/net/TcpPeer.ipp, TcpPeer.cpp) on  *)
(* its TcpConnector (prj/src/net/asio/TcpConnector.cpp), as a client that   *)
(* connects and reconnects or as a peer that a server has accepted, with or *)
(* without the websocket handshake.                                         *)
(*                                                                         *)
(* An io thread runs the handlers of completed reads, writes and connects;  *)
(* other threads send, and sweep.  What a thread has still to do is a       *)
(* sequence of operations: a change of the state word, which takes three    *)
(* accesses, or a call of the connector or of the handler, which is one     *)
(* step.  The socket and the remote end are external.                       *)
(*                                                                         *)
(* What a handler of the messages read sends in the io thread falls between *)
(* the same steps as a message that another thread sends, and is one here.  *)
(* Threads meet at every step, as in the code; where that goes wrong the    *)
(* step says so in known, and the properties name the steps they do not     *)
(* survive.                                                                 *)
(***************************************************************************)
EXTENDS TcpState, Sequences, SequencesExt

CONSTANTS
  Users,         \* threads that send, handle messages, connect and sweep
  Roles,         \* the peer is one of these: <<"client" or "server", websocket>>
  MaxConnects,   \* bound: connects tried
  MaxFrames,     \* bound: frames the remote end sends
  MaxCalls,      \* bound: messages sent and handled by the users
  Nil

ASSUME PeerConstants ==
  /\ Roles \subseteq ({"client", "server"} \X BOOLEAN)
  /\ {MaxConnects, MaxFrames, MaxCalls} \subseteq Nat

Io == "io"
Threads == Users \cup {Io}
ASSUME IoAssumption == Io \notin Users

VARIABLES
  role,      \* <<TcpState::server(), TcpPeerHandler::websocket()>>
  m_state,   \* the state word
  todo,      \* thread -> the operations left of the call or handler it is in
  load,      \* thread -> its Atomic::load() in progress, or Nil
  socket,    \* "none", "connecting", "open", or "broken" by the remote end
  reads,     \* asynchronous reads under way: "head", "data", "until"
  writes,    \* number of asynchronous writes under way
  done,      \* completed operations whose handler has not run
  up,        \* has the handler been told of a connection it thinks is there?
  met,       \* has the handler been given a message, and with it the peer?
  erased,    \* has the peer left the server's set, and so been destroyed?
  counts,    \* bounds: connects, frames, calls so far
  known      \* history: the Faults that have happened

\* Steps that the code takes and must not:
Faults == {
  "update lost",  \* a change of the state word overwrites that of another thread
  "alien",        \* a handshake without its prefix is logged, and no more is read
  "cut",          \* a client connects anew and closes the connection just made
  "late read",    \* a message of the last connection begins a read on the next
  "swept"}        \* the sweep closes a connection and does not tell the handler

ioVars == <<socket, reads, writes, done>>
vars == <<role, m_state, todo, load, ioVars, up, met, erased, counts, known>>

Record(fault, happens) == known' = known \cup IF happens THEN {fault} ELSE {}

\* The server's on_accept() on a connection of its own: set_connected(),
\* set_server(), into the set of peers, then the first read.
on_accept(ws) ==
  <<set_connected, set_peer_live(TRUE), set_server, <<"add_peer", {}>> >> \o
  (IF ws THEN <<set_websocket, <<"async_read", "until">> >>
   ELSE <<set_ready, <<"async_read", "head">> >>)

\* A client's first async_connect() has made the peer and connects it.
Init ==
  /\ role \in Roles
  /\ m_state = 0
  /\ load = [t \in Threads |-> Nil]
  /\ reads = <<>> /\ writes = 0 /\ done = <<>>
  /\ up = FALSE /\ met = FALSE /\ erased = FALSE
  /\ known = {}
  /\ IF role[1] = "server"
     THEN /\ socket = "open"
          /\ todo = [t \in Threads |-> IF t = Io THEN on_accept(role[2]) ELSE <<>>]
          /\ counts = [connects |-> 0, frames |-> 0, calls |-> 0]
     ELSE /\ socket = "connecting"
          /\ todo = [t \in Threads |-> <<>>]
          /\ counts = [connects |-> 1, frames |-> 0, calls |-> 0]

Is(bit) == has(m_state, bit)
Free(t) == todo[t] = <<>>
Does(t, ops) == todo' = [todo EXCEPT ![t] = ops]
\* The names of what a thread has left to do.
Left(t) == {todo[t][i][1] : i \in DOMAIN todo[t]}
Rest(t) == [todo EXCEPT ![t] = Tail(@)]
Count(x) == counts' = [counts EXCEPT ![x] = @ + 1]

-----------------------------------------------------------------------------
(* The connector and the remote end *)

Failed(kind) == [of |-> kind, what |-> "error"]
\* Closing a socket completes what is under way on it with an error.
Aborted ==
  [i \in DOMAIN reads |-> Failed(reads[i])] \o
  [i \in 1..writes |-> Failed("write")] \o
  (IF socket = "connecting" THEN <<Failed("connect")>> ELSE <<>>)

\* TcpConnector::close(), then a new connect if there is one.
close_socket(next) ==
  /\ socket' = next
  /\ reads' = <<>> /\ writes' = 0 /\ done' = done \o Aborted

\* The server is reached, or not.
Establish ==
  /\ socket = "connecting"
  /\ \/ socket' = "open" /\ done' = Append(done, [of |-> "connect", what |-> "ok"])
     \/ socket' = "none" /\ done' = Append(done, Failed("connect"))
  /\ UNCHANGED <<role, m_state, todo, load, reads, writes, up, met, erased, counts, known>>

\* What the remote end may send where the peer reads a head, data, or the handshake.
Frames(kind) ==
  CASE kind = "head" -> {"empty", "sized", "malformed"}
    [] kind = "data" -> {"body"}
    [] kind = "until" -> {"hello", "unparsable", "alien"}

\* What was sent before the remote end went away may still be read.
Arrive ==
  /\ socket \in {"open", "broken"} /\ reads # <<>> /\ counts.frames < MaxFrames
  /\ \E f \in Frames(Head(reads)) :
       done' = Append(done, [of |-> Head(reads), what |-> f])
  /\ reads' = Tail(reads)
  /\ Count("frames")
  /\ UNCHANGED <<role, m_state, todo, load, socket, writes, up, met, erased, known>>

\* The remote end goes away.
Break ==
  /\ socket = "open" /\ socket' = "broken"
  /\ UNCHANGED <<role, m_state, todo, load, reads, writes, done, up, met, erased, counts, known>>

ReadFails ==
  /\ socket = "broken" /\ reads # <<>>
  /\ done' = Append(done, Failed(Head(reads)))
  /\ reads' = Tail(reads)
  /\ UNCHANGED <<role, m_state, todo, load, socket, writes, up, met, erased, counts, known>>

Written ==
  /\ socket \in {"open", "broken"} /\ writes > 0
  /\ writes' = writes - 1
  /\ done' = Append(done, [of |-> "write",
                           what |-> IF socket = "open" THEN "ok" ELSE "error"])
  /\ UNCHANGED <<role, m_state, todo, load, socket, reads, up, met, erased, counts, known>>

-----------------------------------------------------------------------------
(* The state word: Atomic::load() in three accesses *)

Loading(t) == ~Free(t) /\ Head(todo[t])[1] \in {"load", "add", "del"}

load_target(t) ==
  /\ Loading(t) /\ load[t] = Nil
  /\ load' = [load EXCEPT ![t] = [v |-> Target(Head(todo[t]), m_state), diff |-> Nil]]
  /\ UNCHANGED <<role, m_state, todo, ioVars, up, met, erased, counts, known>>

load_diff(t) ==
  /\ Loading(t) /\ load[t] # Nil /\ load[t].diff = Nil
  /\ load' = [load EXCEPT ![t].diff = load[t].v - m_state]
  /\ UNCHANGED <<role, m_state, todo, ioVars, up, met, erased, counts, known>>

load_add(t) ==
  /\ Loading(t) /\ load[t] # Nil /\ load[t].diff # Nil
  /\ m_state' = exchange_add(m_state, load[t].diff)
  /\ Record("update lost", m_state' # Target(Head(todo[t]), m_state))
  /\ load' = [load EXCEPT ![t] = Nil]
  /\ todo' = Rest(t)
  /\ UNCHANGED <<role, ioVars, up, met, erased, counts>>

-----------------------------------------------------------------------------
(* The steps of calls and handlers *)

Calls(t, name) == ~Free(t) /\ Head(todo[t])[1] = name

\* async_send(): set_self_live(true), async_write().
async_send == <<set_self_live(TRUE), <<"async_write", {}>> >>
\* Fault: the handler is not told.
close_quietly == <<<<"close", {}>> >>
\* close_and_notify(): close(), then on_close() in any case.
close_and_notify == <<<<"close", {}>>, <<"on_close", {}>> >>
\* async_recv_by_client(): set_ready(), on_connect(), async_recv().
async_recv_by_client == <<set_ready, <<"on_connect", {}>>, <<"async_read", "head">> >>
async_recv_by_server == <<set_ready, <<"async_read", "head">> >>

\* A read or write on a socket that is not open fails at once.
async_read(t) ==
  /\ Calls(t, "async_read")
  /\ LET kind == Head(todo[t])[2]
     IN  IF socket \in {"open", "broken"}
         THEN reads' = Append(reads, kind) /\ UNCHANGED done
         ELSE done' = Append(done, Failed(kind)) /\ UNCHANGED reads
  /\ Record("late read", role[1] = "client" /\ socket \in {"open", "broken"} /\ ~Is("connected"))
  /\ todo' = Rest(t)
  /\ UNCHANGED <<role, m_state, load, socket, writes, up, met, erased, counts>>

async_write(t) ==
  /\ Calls(t, "async_write")
  /\ IF socket \in {"open", "broken"}
     THEN writes' = writes + 1 /\ UNCHANGED done
     ELSE done' = Append(done, Failed("write")) /\ UNCHANGED writes
  /\ todo' = Rest(t)
  /\ UNCHANGED <<role, m_state, load, socket, reads, up, met, erased, counts, known>>

\* close(): unless the state is closed, set_closed() and close the socket.
close(t) ==
  /\ Calls(t, "close")
  /\ Does(t, (IF m_state = 0 THEN <<>> ELSE <<set_closed, <<"shutdown", {}>> >>)
             \o Tail(todo[t]))
  /\ UNCHANGED <<role, m_state, load, ioVars, up, met, erased, counts, known>>

shutdown(t) ==
  /\ Calls(t, "shutdown")
  /\ close_socket("none")
  /\ todo' = Rest(t)
  /\ UNCHANGED <<role, m_state, load, up, met, erased, counts, known>>

\* The mutex of the client: a user has it while it sends or connects, the
\* timer while it connects.
Locks(t) ==
  role[1] = "client" /\ Left(t) \cap (IF t = Io THEN {"connect"} ELSE {"connect", "async_write"}) # {}
Unlocked == \A t \in Threads : ~Locks(t)
\* The mutex of the server's set of peers, which the sweep has while it runs.
Sweeps(t) == "erase" \in Left(t) \/ (~Free(t) /\ Head(todo[t]) = set_peer_active(FALSE))
PeersUnlocked == \A t \in Threads : ~Sweeps(t)

\* The client's on_connect().
notify_connect(t) ==
  /\ Calls(t, "on_connect") /\ Unlocked
  /\ up' = TRUE
  /\ todo' = Rest(t)
  /\ UNCHANGED <<role, m_state, load, ioVars, met, erased, counts, known>>

\* The handler's on_close(); the server erases the peer.
notify_close(t) ==
  /\ Calls(t, "on_close") /\ PeersUnlocked
  /\ up' = FALSE
  /\ erased' = (erased \/ role[1] = "server")
  /\ todo' = Rest(t)
  /\ UNCHANGED <<role, m_state, load, ioVars, met, counts, known>>

\* on_read() of the handler: threads that handle messages get to know the peer.
on_read(t) ==
  /\ Calls(t, "on_read")
  /\ met' = TRUE
  /\ todo' = Rest(t)
  /\ UNCHANGED <<role, m_state, load, ioVars, up, erased, counts, known>>

\* TcpPeerSet::add(): where the set is full, the server closes the connection.
add_peer(t) ==
  /\ Calls(t, "add_peer")
  /\ \/ up' = TRUE /\ todo' = Rest(t)
     \/ up' = up /\ Does(t, <<<<"close", {}>>, <<"erase", {}>> >>)
  /\ UNCHANGED <<role, m_state, load, ioVars, met, erased, counts, known>>

\* The peer is erased; its handler is not told.
erase(t) ==
  /\ Calls(t, "erase")
  /\ erased' = TRUE
  /\ Record("swept", up /\ ~erased /\ "on_close" \notin Left(Io))
  /\ todo' = Rest(t)
  /\ UNCHANGED <<role, m_state, load, ioVars, up, met, counts>>

\* TcpConnector::async_connect() closes the old socket first; a name that is
\* not found leaves it closed (and ends a timer's io thread: see TcpClient).
connect(t) ==
  /\ Calls(t, "connect")
  /\ \E next \in {"connecting", "none"} : close_socket(next)
  /\ Record("cut", Is("connected") \/ set_connected \in Range(todo[Io])
                   \/ [of |-> "connect", what |-> "ok"] \in Range(done))
  /\ todo' = Rest(t)
  /\ UNCHANGED <<role, m_state, load, up, met, erased, counts>>

-----------------------------------------------------------------------------
(* The handlers: what the io thread does about a completed operation *)

\* on_connect() of a client.
on_connect(c) ==
  IF c.what = "error" THEN <<>>
  ELSE <<set_connected, set_peer_live(TRUE)>> \o
       (IF role[2] THEN <<set_websocket>> \o async_send \o
                        <<set_websocket, <<"async_read", "until">> >>
        ELSE async_recv_by_client)

\* Fault: after an empty message, a heartbeat, nothing more is read.
on_read_head_once(c) ==
  CASE c.what \in {"error", "malformed"} -> close_and_notify
    [] c.what = "empty" -> <<set_peer_live(TRUE), <<"on_read", {}>> >>
    [] c.what = "sized" -> <<set_peer_live(TRUE), <<"async_read", "data">> >>
\* Fault: a read that fails is only logged.
on_read_head_logged(c) ==
  CASE c.what = "error" -> <<>>
    [] c.what = "malformed" -> close_and_notify
    [] c.what = "empty" -> <<set_peer_live(TRUE), <<"on_read", {}>>, <<"async_read", "head">> >>
    [] c.what = "sized" -> <<set_peer_live(TRUE), <<"async_read", "data">> >>
\* on_read_head(): an error or a malformed head ends the connection.
on_read_head(c) ==
  CASE c.what \in {"error", "malformed"} -> close_and_notify
    [] c.what = "empty" -> <<set_peer_live(TRUE), <<"on_read", {}>>, <<"async_read", "head">> >>
    [] c.what = "sized" -> <<set_peer_live(TRUE), <<"async_read", "data">> >>

\* handle_websocket_shakehand_req() and _rsp(): one without the prefix is
\* logged, one that cannot be parsed ends the connection.
handle_websocket_shakehand(c) ==
  CASE c.what = "unparsable" -> close_and_notify
    [] c.what = "hello" -> IF Is("server") THEN async_send \o async_recv_by_server
                           ELSE async_recv_by_client
    [] OTHER -> <<>>

\* on_read_data(): what is read before the peer is ready is the handshake.
on_read_data(c) ==
  IF c.what = "error" THEN close_and_notify
  ELSE IF Is("ready") THEN <<set_peer_active(TRUE), <<"on_read", {}>>, <<"async_read", "head">> >>
  ELSE IF Is("websocket") THEN handle_websocket_shakehand(c)
  ELSE <<>>

on_write(c) == IF c.what = "error" THEN close_and_notify ELSE <<>>

\* A handler locks the weak pointer to its peer first.
Handle ==
  /\ Free(Io) /\ done # <<>>
  /\ done' = Tail(done)
  /\ LET c == Head(done)
     IN  /\ Does(Io, IF erased THEN <<>>
                     ELSE CASE c.of = "connect" -> on_connect(c)
                            [] c.of = "head" -> on_read_head(c)
                            [] c.of \in {"data", "until"} -> on_read_data(c)
                            [] c.of = "write" -> on_write(c))
         /\ Record("alien", c.what = "alien" /\ ~erased)
  /\ UNCHANGED <<role, m_state, load, socket, reads, writes, up, met, erased, counts>>

-----------------------------------------------------------------------------
(* Calls of other threads, and of timers *)

\* LoadBalancer::connect() of a client that is not connected: by its owner,
\* or by the timer in the io thread.
async_connect(t) ==
  /\ role[1] = "client" /\ Free(t) /\ Unlocked /\ counts.connects < MaxConnects
  /\ ~Is("connected")
  /\ Does(t, <<<<"connect", {}>> >>)
  /\ Count("connects")
  /\ UNCHANGED <<role, m_state, load, ioVars, up, met, erased, known>>

\* Who has been given a message, or owns the client, may send at any time: the
\* state is not looked at.
send(t) ==
  /\ Free(t) /\ Unlocked /\ ~erased /\ counts.calls < MaxCalls
  /\ role[1] = "server" => met
  /\ Does(t, async_send)
  /\ Count("calls")
  /\ UNCHANGED <<role, m_state, load, ioVars, up, met, erased, known>>

\* A thread that handles a message says that the peer is active, or is alive.
handle_message(t) ==
  /\ Free(t) /\ met /\ ~erased /\ counts.calls < MaxCalls
  /\ \E change \in {set_peer_active(TRUE), set_peer_live(TRUE)} : Does(t, <<change>>)
  /\ Count("calls")
  /\ UNCHANGED <<role, m_state, load, ioVars, up, met, erased, known>>

\* TcpPeerSet::clean_inactive_peer(), in the thread of the server's timer: a
\* peer of the set that was silent is closed and destroyed.
clean_inactive_peer(t) ==
  /\ role[1] = "server" /\ Free(t) /\ PeersUnlocked /\ up /\ ~erased
  /\ Does(t, IF Is("peer_active") THEN <<set_peer_active(FALSE)>>
             ELSE <<<<"close", {}>>, <<"erase", {}>> >>)
  /\ UNCHANGED <<role, m_state, load, ioVars, up, met, erased, counts, known>>

-----------------------------------------------------------------------------
Step(t) ==
  \/ load_target(t) \/ load_diff(t) \/ load_add(t)
  \/ async_read(t) \/ async_write(t) \/ close(t) \/ shutdown(t) \/ connect(t)
  \/ notify_connect(t) \/ notify_close(t) \/ on_read(t) \/ add_peer(t) \/ erase(t)

Network == Establish \/ Arrive \/ ReadFails \/ Written

Next ==
  \/ \E t \in Threads : Step(t) \/ async_connect(t)
  \/ \E t \in Users : send(t) \/ handle_message(t) \/ clean_inactive_peer(t)
  \/ Handle \/ Network \/ Break

\* Threads run, operations on a broken socket fail, a connect succeeds or
\* fails.  Nothing makes the remote end speak, or anybody send or connect.
Fairness ==
  /\ \A t \in Threads : WF_vars(Step(t))
  /\ WF_vars(Handle) /\ WF_vars(Establish) /\ WF_vars(ReadFails) /\ WF_vars(Written)

Spec == Init /\ [][Next]_vars
FairSpec == Spec /\ Fairness

-----------------------------------------------------------------------------
(* Properties *)

TypeOK ==
  /\ role \in Roles /\ m_state \in Word
  /\ socket \in {"none", "connecting", "open", "broken"}
  /\ reads \in Seq({"head", "data", "until"}) /\ writes \in Nat
  /\ \A i \in DOMAIN done : done[i].of \in {"connect", "head", "data", "until", "write"}
  /\ {up, met, erased} \subseteq BOOLEAN
  /\ \A t \in Threads : load[t] # Nil => Loading(t)
  /\ known \subseteq Faults

ReadsDone == {i \in DOMAIN done : done[i].of \in {"head", "data", "until"}}
Quiet == \A t \in Threads : Free(t)
Open == socket \in {"open", "broken"}
Served == Is("connected") \/ Is("server")

\* A connection that is there is read: one read is under way, or has come to
\* its end and has its handler to run, and never two, which would share the
\* bytes of a message between them, wherever other threads send, handle
\* messages, connect and sweep, and whatever the socket refuses.
ReadArmed ==
  Quiet /\ ~erased /\ Open /\ Served
  /\ known \cap {"update lost", "alien", "cut", "late read"} = {} =>
    Len(reads) + Cardinality(ReadsDone) = 1

\* At rest without a connection, a client's state has none of the bits of one,
\* so that connect() connects again and the next handshake is not skipped.
ClosedIsDown ==
  Quiet /\ ~Open /\ done = <<>> /\ ~erased /\ known \cap {"update lost", "cut"} = {} =>
    ~Served /\ ~Is("ready") /\ ~Is("websocket")

\* A connection the handler was told of does not go without on_close().
CloseIsTold ==
  up /\ Quiet /\ known \cap {"update lost", "swept"} = {} => Open \/ done # <<>>

\* A connection broken by the remote end is noticed: closed, or made anew.
BrokenIsNoticed ==
  socket = "broken" ~> (socket # "broken" \/ erased \/ known \cap {"update lost", "alien"} # {})

=============================================================================
