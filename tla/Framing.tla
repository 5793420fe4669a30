------------------------------- MODULE Framing -------------------------------
(***************************************************************************)
(* What a client and a server say to each other through their codecs: the   *)
(* head and the data of each frame read one after the other (TcpPeer.cpp),  *)
(* on_read() of client and server, the dispatcher's decoding and handling   *)
(* (DispatchServer.cpp), and the answers, which return the request data.    *)
(*                                                                         *)
(* Connections are up and ready (TcpPeer has their life) until a codec      *)
(* refuses a frame.  What travels is a sequence of frames; a reader that    *)
(* leaves the frames' boundaries does not find them again, and stops here.  *)
(***************************************************************************)
EXTENDS Codecs, FiniteSets, SequencesExt

CONSTANTS
  Conns,        \* connections of clients to one server
  Protocols,    \* options websocket() of both ends: "tcp" or "websocket"
  Payloads,     \* sizes of messages as the head states them
  Replies,      \* those of the server's answers
  Logins,       \* request data of a login before async_auth(): "none", "req4" or "req8"
  Sessions,     \* protocols over which users log in
  MaxMessages,  \* bound: messages a client sends
  MaxPushes     \* bound: heartbeats of a client, and messages a server sends unasked

ASSUME FramingConstants ==
  /\ Protocols \subseteq {"tcp", "websocket"} /\ Logins \subseteq {"none", "req4", "req8"}
  /\ {MaxMessages, MaxPushes} \subseteq Nat /\ Payloads \cup Replies \subseteq Nat

Ends == Conns \X {"client", "server"}
Other(e) == <<e[1], IF e[2] = "client" THEN "server" ELSE "client">>
\* The io thread that runs an end's handlers: one for all of a server's, however
\* many it has, as get_io_service() prefers the worker with the most connections.
Thread(e) == IF e[2] = "client" THEN e[1] ELSE "worker"
Buffers == Conns \cup {"worker", "acceptor"}

VARIABLES
  prot,          \* the protocol both ends were set up with
  io_heartbeat,  \* the server's option: heartbeats are handled by the io thread
  response_heartbeat, \* the server's option, false unless set: they are returned
  open,          \* connections that are up
  wire,          \* end -> the frames on their way to it
  s_data_head,   \* thread -> its buffer for the head of a message
  reader,        \* end -> its read: head, handler of the head, or data
  tasks,         \* end -> its dispatcher's queue: [category, data]
  m_async_manager,    \* connection -> ids of requests that wait for a response
  m_authority_map,    \* connection -> its login: "none", "requested" or "opened"
  m_session_map,      \* end -> ids of sessions it knows
  counts,        \* connection -> messages, pushes, beats, and heartbeats returned
  due            \* history, end -> metas on their way to its handler

wires == <<open, wire, s_data_head, reader>>
tables == <<m_async_manager, m_authority_map, m_session_map>>
options == <<prot, io_heartbeat, response_heartbeat>>
vars == <<options, wires, tasks, tables, counts, due>>

AtHead(buffer) == [at |-> "head", buffer |-> buffer, data |-> <<>>, need |-> 0]

\* The first async_recv() of an accepted tcp connection is called by the thread
\* of the acceptor; a websocket's follows its handshake, in its own thread.
Init ==
  /\ prot \in Protocols /\ io_heartbeat \in BOOLEAN /\ response_heartbeat \in BOOLEAN
  /\ open = Conns
  /\ wire = [e \in Ends |-> <<>>]
  /\ s_data_head = [b \in Buffers |-> <<>>]
  /\ reader = [e \in Ends |->
       AtHead(IF prot = "tcp" /\ e[2] = "server" THEN "acceptor" ELSE Thread(e))]
  /\ tasks = [e \in Ends |-> <<>>]
  /\ m_async_manager = [c \in Conns |-> {}]
  /\ m_authority_map = [c \in Conns |-> "none"]
  /\ m_session_map = [e \in Ends |-> {}]
  /\ counts = [c \in Conns |-> [messages |-> 0, pushes |-> 0, beats |-> 0, returned |-> 0]]
  /\ due = [e \in Ends |-> <<>>]

-----------------------------------------------------------------------------
(* The codecs of the protocol: the client masks, the server must not *)

encode(e, meta) ==
  IF prot = "tcp" THEN tcp_encode(meta) ELSE ws_encode(meta, e[2] = "client")
encode_heartbeat == IF prot = "tcp" THEN tcp_encode_heartbeat ELSE ws_encode_heartbeat
decode_data_size(head) ==
  IF prot = "tcp" THEN tcp_decode_data_size(head) ELSE ws_decode_data_size(head)
decode_head_of(data) == IF prot = "tcp" THEN tcp_head(data) ELSE ws_head(data)
decode(data, category) ==
  IF prot = "tcp" THEN tcp_decode(data, category) ELSE ws_decode(data, category)

\* The code that fills a message up to a size; over websockets the payload
\* has version and category too.
CodeSize(meta, n) ==
  n - get_meta_size(meta, prot = "tcp") - (IF prot = "tcp" THEN 0 ELSE 2)
WithCode(meta, n) == [meta EXCEPT !.code = CodeSize(meta, n)]

\* async_send() at end e, onto w.
Sent(e, bytes, w) == [w EXCEPT ![Other(e)] = Append(@, bytes)]
Write(e, meta) ==
  /\ wire' = Sent(e, encode(e, meta), wire)
  /\ due' = [due EXCEPT ![Other(e)] = Append(@, meta)]

Type == 258
SessionKey == <<1, 7>>    \* the address of a user object
Count(c, what) == counts' = [counts EXCEPT ![c][what] = @ + 1]

-----------------------------------------------------------------------------
(* The users: both ends send *)

\* A message of the client, with the size n.
Say(c, meta, n) ==
  /\ c \in open /\ counts[c].messages < MaxMessages
  /\ CodeSize(meta, n) >= 0
  /\ Write(<<c, "client">>, WithCode(meta, n))
  /\ Count(c, "messages")
  /\ UNCHANGED <<options, open, s_data_head, reader, tasks>>

\* TcpClient::async_send(), with or without request data.
async_send(c, n) ==
  /\ \/ Say(c, MessageMeta(none_session, Type, FALSE), n)
     \/ Say(c, set_request4(MessageMeta(none_session, Type, TRUE), 5), n)
  /\ UNCHANGED tables

\* request().
request(c, n) ==
  LET id == counts[c].messages + 1
      req == set_request4(MessageMeta(none_session, Type, TRUE), id)
  IN  /\ Say(c, [req EXCEPT !.category = add(@, "sync")], n)
      /\ m_async_manager' = [m_async_manager EXCEPT ![c] = @ \cup {id}]
      /\ UNCHANGED <<m_authority_map, m_session_map>>

\* async_auth(): the user's request data makes way for the key of the session,
\* a pointer of eight bytes.
async_auth(c, before, n) ==
  LET meta == MessageMeta(none_session, Type, TRUE)
      user == CASE before = "none" -> meta
                [] before = "req4" -> set_request4(meta, 5)
                [] before = "req8" -> set_request8(meta, <<0, 5>>)
      login == [user EXCEPT !.category = add(add(@, "authority"), "session")]
  IN  /\ prot \in Sessions /\ m_authority_map[c] = "none"
      /\ Say(c, set_request8(login, SessionKey), n)
      /\ m_authority_map' = [m_authority_map EXCEPT ![c] = "requested"]
      /\ UNCHANGED <<m_async_manager, m_session_map>>

\* TcpSession::async_send() of a session that is logged in.
session_send(c, n) ==
  /\ \E sid \in m_session_map[<<c, "client">>] :
       Say(c, set_session_id(MessageMeta(none_session, Type, TRUE), sid), n)
  /\ UNCHANGED tables

Push(c) == c \in open /\ counts[c].pushes < MaxPushes
\* The server sends to a connection, or to a session of it.
publish(c, n) ==
  /\ Push(c)
  /\ \E sid \in m_session_map[<<c, "server">>] \cup {none_session} :
       LET meta == MessageMeta(sid, Type, TRUE) IN
       /\ CodeSize(meta, n) >= 0
       /\ Write(<<c, "server">>, WithCode(meta, n))
  /\ Count(c, "pushes")
  /\ UNCHANGED <<options, open, s_data_head, reader, tasks, tables>>

\* async_send_heartbeat() of the client's tick.
heartbeat(c) ==
  /\ Push(c)
  /\ wire' = Sent(<<c, "client">>, encode_heartbeat, wire)
  /\ counts' = [counts EXCEPT ![c].pushes = @ + 1, ![c].beats = @ + 1]
  /\ UNCHANGED <<options, open, s_data_head, reader, tasks, tables, due>>

-----------------------------------------------------------------------------
(* The io threads: heads and data are read *)

\* The socket: four bytes have come, into the buffer given to async_read_head().
ReadHead(e) ==
  /\ e[1] \in open /\ reader[e].at = "head" /\ wire[e] # <<>>
  /\ s_data_head' = [s_data_head EXCEPT ![reader[e].buffer] = SubSeq(Head(wire[e]).b, 1, size_head)]
  /\ wire' = [wire EXCEPT ![e][1].b = SubSeq(@, size_head + 1, Len(@))]
  /\ reader' = [reader EXCEPT ![e].at = "handler"]
  /\ UNCHANGED <<options, open, tasks, tables, counts, due>>

\* strncpy() of a head: what follows a zero is zero.
strncpy(head) ==
  [i \in DOMAIN head |-> IF \E j \in 1..i : head[j] = 0 THEN 0 ELSE head[i]]

\* close_and_notify(): the messages queued will find their peer expired.
close_and_notify(c) ==
  /\ open' = open \ {c}
  /\ wire' = [e \in Ends |-> IF e[1] = c THEN <<>> ELSE wire[e]]
  /\ tasks' = [e \in Ends |-> IF e[1] = c THEN <<>> ELSE tasks[e]]

\* A server returns a heartbeat, if it was set up to; a client never does.
Returned(e, w) ==
  IF e[2] = "server" /\ response_heartbeat
  THEN wire' = Sent(e, encode_heartbeat, w) /\ Count(e[1], "returned")
  ELSE wire' = w /\ UNCHANGED counts

\* TcpServer::on_read() and TcpClient::on_read(); w is what remains on the wire.
on_read(e, data, w) ==
  LET head == decode_head_of(data)
      beat == has(head.category, "heartbeat")
  IN  \/ /\ ~head.ok \/ (e[2] = "server" /\ ~beat /\ head.version # version)
         /\ wire' = w /\ UNCHANGED <<tasks, counts>>
      \/ /\ head.ok /\ e[2] = "server" /\ beat /\ io_heartbeat
         /\ Returned(e, w) /\ UNCHANGED tasks
      \/ /\ head.ok
         /\ e[2] = "server" => IF beat THEN ~io_heartbeat ELSE head.version = version
         /\ tasks' = [tasks EXCEPT ![e] = Append(@, [category |-> head.category, data |-> data])]
         /\ wire' = w /\ UNCHANGED counts

Rest(e) == [wire EXCEPT ![e] = Tail(@)]
\* on_read_head(): the size of the data, from the buffer as it is by now, which
\* is forgotten once no handler will read it.
on_read_head(e) ==
  LET head == s_data_head[reader[e].buffer]
      frame == decode_data_size(String(head, 0))
  IN  /\ reader[e].at = "handler" /\ e[1] \in open
      /\ IF ~frame.ok
         THEN close_and_notify(e[1]) /\ UNCHANGED <<reader, counts>>
         ELSE \/ /\ frame.data_size = 0
                 /\ reader' = [reader EXCEPT ![e] =
                      IF size(Head(wire[e])) = 0 THEN AtHead(Thread(e)) ELSE [@ EXCEPT !.at = "astray"]]
                 /\ on_read(e, String(strncpy(head), 0), Rest(e)) /\ UNCHANGED open
              \/ /\ frame.data_size # 0
                 /\ reader' = [reader EXCEPT ![e].at = "data", ![e].data = strncpy(head),
                                             ![e].need = frame.data_size]
                 /\ UNCHANGED <<open, wire, tasks, counts>>
      /\ s_data_head' = IF \E r \in Ends \ {e} : /\ reader[r].at = "handler"
                                               /\ reader[r].buffer = reader[e].buffer
                       THEN s_data_head ELSE [s_data_head EXCEPT ![reader[e].buffer] = <<>>]
      /\ UNCHANGED <<options, tables, due>>

\* on_read_data(), when the data ends with the frame.
on_read_data(e) ==
  LET rest == Head(wire[e]) IN
  /\ reader[e].at = "data" /\ e[1] \in open
  /\ reader[e].need = size(rest)
  /\ on_read(e, String(reader[e].data \o rest.b, rest.code), Rest(e))
  /\ reader' = [reader EXCEPT ![e] = AtHead(Thread(e))]
  /\ UNCHANGED <<options, open, s_data_head, tables, due>>

-----------------------------------------------------------------------------
(* The dispatchers: messages are decoded and handled *)

\* TcpPeer::async_response(): the request's categories and request data return.
async_response(meta, sid, is_last) ==
  LET rsp == [MessageMeta(sid, Type, TRUE) EXCEPT !.category = @ | meta.category]
  IN  set_last(set_request_opt(rsp, meta.request_data, meta.option), is_last)

\* The server's handler (the user's): a login opens a session; the answer is
\* one message, or two of which the second is the last.
Answers(meta, sid) ==
  {<<WithCode(async_response(meta, sid, TRUE), n)>> : n \in Replies} \cup
  {<<WithCode(async_response(meta, sid, FALSE), n), WithCode(async_response(meta, sid, TRUE), n)>> :
     n \in Replies}

\* handle_server_context() and the handler.
handle_server_context(e, meta) ==
  IF meta.session_id # none_session /\ meta.session_id \notin m_session_map[e]
  THEN due' = [due EXCEPT ![e] = Tail(@)] /\ UNCHANGED <<wire, tables>>
  ELSE LET login == has(meta.category, "authority")
           sid == IF login THEN 1 ELSE meta.session_id
       IN  \E a \in Answers(meta, sid) :
             /\ wire' = [wire EXCEPT ![Other(e)] = @ \o [i \in DOMAIN a |-> encode(e, a[i])]]
             /\ due' = [due EXCEPT ![Other(e)] = @ \o a, ![e] = Tail(@)]
             /\ m_session_map' = [m_session_map EXCEPT ![e] = @ \cup (IF login THEN {sid} ELSE {})]
             /\ UNCHANGED <<m_async_manager, m_authority_map>>

\* handle_client_context(): a login's answer is known by its key, which must be
\* the address of a user; a call's by the low half of its request data.
handle_client_context(e, meta) ==
  LET c == e[1]
      login == has(meta.category, "authority") /\ has(meta.category, "session")
      found == login /\ meta.request_data = SessionKey /\ m_authority_map[c] # "none"
      expired == IF login THEN ~found
                 ELSE meta.session_id # none_session /\ meta.session_id \notin m_session_map[e]
      sid == meta.session_id
  IN  /\ m_authority_map' = IF found /\ sid # none_session
                            THEN [m_authority_map EXCEPT ![c] = "opened"] ELSE m_authority_map
      /\ m_session_map' = IF found /\ sid # none_session
                          THEN [m_session_map EXCEPT ![e] = @ \cup {sid}] ELSE m_session_map
      /\ m_async_manager' = IF has(meta.category, "sync") /\ ~expired
                            THEN [m_async_manager EXCEPT ![c] = @ \ {meta.request_data[2]}]
                            ELSE m_async_manager

\* DispatchHandler::operator() on a heartbeat.
dispatch_heartbeat(e) ==
  /\ tasks[e] # <<>> /\ has(Head(tasks[e]).category, "heartbeat")
  /\ tasks' = [tasks EXCEPT ![e] = Tail(@)]
  /\ Returned(e, wire)
  /\ UNCHANGED <<options, open, s_data_head, reader, tables, due>>

\* DispatchHandler::operator() on a message.
dispatch(e) ==
  /\ tasks[e] # <<>> /\ ~has(Head(tasks[e]).category, "heartbeat")
  /\ LET t == Head(tasks[e])
         meta == decode(t.data, t.category)
     IN  /\ tasks' = [tasks EXCEPT ![e] = Tail(@)]
         /\ IF ~meta.ok \/ due[e] = <<>> THEN UNCHANGED <<wire, tables, due>> ELSE
            IF e[2] = "server" THEN handle_server_context(e, meta)
            ELSE /\ handle_client_context(e, meta)
                 /\ due' = [due EXCEPT ![e] = Tail(@)] /\ UNCHANGED wire
  /\ UNCHANGED <<options, open, s_data_head, reader, counts>>

-----------------------------------------------------------------------------
Next ==
  \/ \E c \in Conns, n \in Payloads :
       \/ async_send(c, n) \/ request(c, n) \/ session_send(c, n) \/ publish(c, n)
       \/ \E before \in Logins : async_auth(c, before, n)
  \/ \E c \in Conns : heartbeat(c)
  \/ \E e \in Ends :
       \/ ReadHead(e) \/ on_read_head(e) \/ on_read_data(e)
       \/ dispatch_heartbeat(e) \/ dispatch(e)

Spec == Init /\ [][Next]_vars

-----------------------------------------------------------------------------
(* Properties *)

\* "parse message body length from protocol head" (TcpPeer.cpp:142): what an
\* end reads as the data of a message is what is left of the frame its head
\* came from, and no frame the other end's codec made is refused.
Framed ==
  /\ open = Conns
  /\ \A e \in Ends :
       /\ reader[e].at # "astray"
       /\ reader[e].at = "data" => reader[e].need = size(Head(wire[e]))

\* The options of a message announce fields that it carries: the dispatcher at
\* the other end (TcpProtocol.h:213, WebSocketProtocol.h:501) finds the type,
\* the session, the request data and the size of the code that were sent, of
\* the messages in the order they were sent in.
DecodedAsSent ==
  \A e \in Ends : (tasks[e] # <<>> /\ ~has(Head(tasks[e]).category, "heartbeat")) =>
    LET sent == Head(due[e])
        got == decode(Head(tasks[e]).data, Head(tasks[e]).category)
    IN
    /\ got.ok /\ got.option = sent.option /\ got.code = sent.code
    /\ \A f \in {"session_id", "message_type", "request_data"} : got[f] = sent[f]
    /\ \A f \in {"message", "sync", "authority", "session"} :
         has(got.category, f) = has(sent.category, f)

NothingUnderWay(c) ==
  \A e \in {<<c, "client">>, <<c, "server">>} :
    wire[e] = <<>> /\ tasks[e] = <<>> /\ reader[e].at = "head"
\* Once nothing is under way, everything sent was handled: each call and each
\* login has found its answer by the request data that came back (by
\* TcpPeer.cpp:309), across both codecs; each heartbeat of TcpProtocol was
\* returned once if the server was set up to ("server will response a heartbeat
\* when it receive a heartbeat from peer", TcpServerOption.h:110), and by default
\* none was; over websockets heartbeats disturb nothing else.
AllAnswered ==
  \A c \in open : NothingUnderWay(c) =>
    /\ m_async_manager[c] = {} /\ m_authority_map[c] # "requested"
    /\ \A e \in {<<c, "client">>, <<c, "server">>} : due[e] = <<>>
    /\ prot = "tcp" =>
         counts[c].returned = IF response_heartbeat THEN counts[c].beats ELSE 0

-----------------------------------------------------------------------------
(* What comments say and the code does not do *)

\* "server will response a heartbeat when it receive a heartbeat from peer"
\* (TcpServerOption.h:110): that of a websocket begins with a zero, at which
\* strncpy() of its head stops (TcpPeer.cpp:158).
HeartbeatsReturned ==
  \A c \in open : (response_heartbeat /\ NothingUnderWay(c)) =>
    counts[c].returned = counts[c].beats

=============================================================================
