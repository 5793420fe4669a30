----------------------------- MODULE TcpClient -----------------------------
(***************************************************************************)
(* The TCP client's connection and its sessions (prj/src/net/TcpClient.cpp, *)
(* TcpClient.ipp): the addresses of the load balancer, the tick that makes  *)
(* the connection anew, and the sessions, which users open and log in and   *)
(* which the client logs in again on every new connection.                  *)
(*                                                                         *)
(* Users, the owner, the io thread and the dispatcher's thread are the      *)
(* actors.  The connection itself is in TcpPeer, the blocking calls are in  *)
(* ClientRequest; here the connection is made, refused or lost.  The server *)
(* is external: it answers a login with a session id it has not in use.      *)
(*                                                                         *)
(* The io thread does not wait for the dispatcher, nor users for either.    *)
(* Where that, or a counter's width, goes wrong, the step says so in known,  *)
(* and the properties name the steps they do not survive.                    *)
(***************************************************************************)
EXTENDS Integers, Sequences, FiniteSets, SequencesExt

CONSTANTS
  Keys,         \* sessions, by the address of their user object
  Sids,         \* bound: ids of sessions the server may give on a connection
  AddressSets,  \* what the owner may give to set_address()
  MaxEvents,    \* bound: calls of set_address(), and mishaps: connections
                \* refused, lost, and tried again early
  MaxAuths,     \* bound: calls of async_auth()
  LoadSize,     \* a uint16_t counts the connects of an address: 2^16
  Nil

Addresses == UNION {ToSet(a) : a \in AddressSets}
ASSUME ClientAssumption ==
  /\ LoadSize \in Nat \ {0}
  /\ {MaxEvents, MaxAuths} \subseteq Nat
  /\ \A a \in AddressSets : a \in Seq(Addresses)
ASSUME KeysFinite == IsFiniteSet(Keys)
ASSUME NilAssumption == Nil \notin Keys \cup Sids

VARIABLES
  m_address_set,    \* LoadBalancer: <<[addr, load]>>
  m_address_cur,    \* the address connected to last, or Nil
  link,             \* "down", "connecting", or "connected": the state's bit
  io,               \* the io thread: "idle", has "on_connect" or "on_close" to run, "ended"
  timer,            \* is the tick timer set?
  m_authority_map,  \* key -> "none", "opened", or "requested": has a login to send
  at,               \* key -> its user's place in async_auth()
  user,             \* key -> "none", "open", "closed", or "gone" with its object
  held,             \* key -> the session id its user's TcpSession has, or Nil
  m_session_map,    \* session id -> key, or Nil
  wire,             \* logins on their way to the server, Nil for a torn one
  dispatch,         \* the dispatcher's queue: [key, sid] of answers
  srv,              \* the server's sessions on this connection: id -> key, or Nil
  counts,           \* bounds: mishaps, updates, auths so far
  known             \* history: the Faults that have happened

\* Steps that the code takes and must not:
Faults == {
  "late",         \* a session is known that its connection has taken along
  "stale close",  \* a TcpSession of an earlier connection closes another's session
  "wrap",         \* a count of connects starts again at 0
  "resolve"}      \* a host name that is not found ends the io thread

balanceVars == <<m_address_set, m_address_cur>>
sessVars == <<m_authority_map, at, user, held, m_session_map>>
netVars == <<wire, dispatch, srv>>
vars == <<balanceVars, link, io, timer, sessVars, netVars, counts, known>>

Record(fault, happens) == known' = known \cup IF happens THEN {fault} ELSE {}

Init ==
  /\ m_address_set = <<>> /\ m_address_cur = Nil
  /\ link = "down" /\ io = "idle" /\ timer = FALSE
  /\ m_authority_map = [k \in Keys |-> "none"]
  /\ at = [k \in Keys |-> "idle"]
  /\ user = [k \in Keys |-> "none"]
  /\ held = [k \in Keys |-> Nil]
  /\ m_session_map = [s \in Sids |-> Nil]
  /\ wire = <<>> /\ dispatch = <<>>
  /\ srv = [s \in Sids |-> Nil]
  /\ counts = [mishaps |-> 0, updates |-> 0, auths |-> 0]
  /\ known = {}

Eventful == counts.mishaps + counts.updates < MaxEvents
Count(x) == counts' = [counts EXCEPT ![x] = @ + 1]
Started == timer \/ io = "ended"

-----------------------------------------------------------------------------
(* The load balancer *)

Listed == {m_address_set[i].addr : i \in DOMAIN m_address_set}
\* The elements of s that are in S, in their order.
Among(s, S) ==
  LET upto[n \in 0..Len(s)] ==
        IF n = 0 THEN <<>>
        ELSE IF s[n] \in S THEN Append(upto[n - 1], s[n]) ELSE upto[n - 1]
  IN  upto[Len(s)]

\* Addresses kept with their load, then the new ones without any.
NewAmong(addrs) == Among(addrs, ToSet(addrs) \ Listed)
Updated(addrs) ==
  Among(m_address_set, {a \in ToSet(m_address_set) : a.addr \in ToSet(addrs)}) \o
  [i \in DOMAIN NewAmong(addrs) |-> [addr |-> NewAmong(addrs)[i], load |-> 0]]

\* After each erased element the next one is compared with the current
\* address; behind the last one there is nothing that could be read.
AfterErased(addrs) ==
  LET all == [i \in DOMAIN m_address_set |-> m_address_set[i].addr] \o NewAmong(addrs)
  IN  {IF i = Len(all) THEN Nil ELSE all[i + 1] :
         i \in {j \in DOMAIN all : all[j] \notin ToSet(addrs)}}

\* LoadBalancer::update_address(), under m_mutex.
update_address(addrs) ==
  /\ Eventful
  /\ m_address_set' = Updated(addrs)
  /\ \/ m_address_cur \notin AfterErased(addrs) /\ UNCHANGED m_address_cur
     \/ AfterErased(addrs) \cap {m_address_cur, Nil} # {} /\ m_address_cur' = Nil
  /\ Count("updates")
  /\ UNCHANGED <<link, io, timer, sessVars, netVars, known>>

\* Fault: the address with the most connects is taken.
min_workload_max ==
  CHOOSE i \in DOMAIN m_address_set :
    /\ \A j \in DOMAIN m_address_set : m_address_set[i].load >= m_address_set[j].load
    /\ \A j \in 1..(i - 1) : m_address_set[i].load > m_address_set[j].load
\* The first of the addresses that have the fewest connects.
min_workload ==
  CHOOSE i \in DOMAIN m_address_set :
    /\ \A j \in DOMAIN m_address_set : m_address_set[i].load <= m_address_set[j].load
    /\ \A j \in 1..(i - 1) : m_address_set[i].load < m_address_set[j].load

\* LoadBalancer::connect() and TcpConnector::async_connect(), under m_mutex,
\* of a client that is not connected: what was being connected is closed.  A
\* host that is not found is thrown as an error, which ends the caller's thread
\* if it is the io thread.
connect(caller) ==
  /\ link # "connected" /\ m_address_set # <<>>
  /\ LET used  == m_address_set[min_workload].load + 1
         wraps == IF used = LoadSize THEN {"wrap"} ELSE {}
     IN  /\ m_address_set' = [m_address_set EXCEPT ![min_workload].load = used % LoadSize]
         /\ \/ /\ link' = "connecting" /\ UNCHANGED io
               /\ IF link = "connecting" THEN Eventful /\ Count("mishaps")
                                         ELSE UNCHANGED counts
               /\ known' = known \cup wraps
            \/ /\ Eventful /\ Count("mishaps")
               /\ link' = "down"
               /\ io' = IF caller = "io" THEN "ended" ELSE io
               /\ known' = known \cup wraps \cup (IF caller = "io" THEN {"resolve"} ELSE {})
  /\ m_address_cur' = m_address_set[min_workload].addr

\* async_connect() of the owner: the first call starts the threads and the tick.
async_connect ==
  /\ connect("owner")
  /\ timer' = (timer \/ io # "ended")
  /\ UNCHANGED <<sessVars, netVars>>

\* Fault: a tick that connects forgets to set the next.
on_timer_once ==
  /\ io = "idle" /\ timer
  /\ connect("io")
  /\ timer' = FALSE
  /\ UNCHANGED <<sessVars, netVars>>
\* on_timer(): connects if there is no connection, then sets the next tick.
on_timer ==
  /\ io = "idle" /\ timer
  /\ connect("io")
  /\ timer' = (io' # "ended")
  /\ UNCHANGED <<sessVars, netVars>>

-----------------------------------------------------------------------------
(* The connection *)

\* The users whose login is not being encoded.
Whole == {k \in Keys : at[k] # "encoding"}

Established ==
  /\ link = "connecting" /\ io = "idle"
  /\ link' = "connected" /\ io' = "on_connect"
  /\ UNCHANGED <<balanceVars, timer, sessVars, netVars, counts, known>>

\* The connect fails, or a message sent too early does: a write that fails
\* closes what is being connected, and on_close() comes next.
Refused ==
  /\ link = "connecting" /\ io = "idle"
  /\ Eventful /\ Count("mishaps")
  /\ link' = "down" /\ io' \in {"idle", "on_close"}
  /\ UNCHANGED <<balanceVars, timer, sessVars, netVars, known>>

\* The connection is lost and the peer closed; on_close() comes next.
Lost ==
  /\ link = "connected" /\ io = "idle"
  /\ Eventful /\ Count("mishaps")
  /\ link' = "down" /\ io' = "on_close"
  /\ wire' = <<>> /\ srv' = [s \in Sids |-> Nil]
  /\ UNCHANGED <<balanceVars, timer, sessVars, dispatch, known>>

\* Fault: what users logged in before is not logged in again.
on_connect_plain ==
  /\ io = "on_connect" /\ io' = "idle"
  /\ UNCHANGED <<balanceVars, link, timer, sessVars, netVars, counts, known>>
\* on_connect(), under m_mutex: every login there is is sent, in the order of
\* a hash map.  One that its user is just encoding is copied while it changes:
\* nothing of it may be sent, or a torn login.
on_connect ==
  /\ io = "on_connect" /\ io' = "idle"
  /\ \E torn \in SUBSET {k \in Keys : at[k] = "encoding"} :
       \E logins \in SetToSeqs(torn \cup {k \in Whole : m_authority_map[k] = "requested"}) :
         wire' = wire \o [i \in DOMAIN logins |-> IF logins[i] \in torn THEN Nil ELSE logins[i]]
  /\ UNCHANGED <<balanceVars, link, timer, sessVars, dispatch, srv, counts, known>>

\* Fault: the sessions of the connection stay.
on_close_keep ==
  /\ io = "on_close" /\ io' = "idle"
  /\ UNCHANGED <<balanceVars, link, timer, sessVars, netVars, counts, known>>
\* on_close() does not wait for answers that the dispatcher still has.
on_close ==
  /\ io = "on_close" /\ io' = "idle"
  /\ m_session_map' = [s \in Sids |-> Nil]
  /\ UNCHANGED <<balanceVars, link, timer, m_authority_map, at, user, held, netVars, counts, known>>

\* The server opens a session and answers, and on_read() posts the answer; a
\* torn login it drops, if it does not end the connection.
on_read ==
  /\ link = "connected" /\ io = "idle" /\ wire # <<>>
  /\ wire' = Tail(wire)
  /\ \/ Head(wire) = Nil /\ UNCHANGED <<srv, dispatch>>
     \/ /\ Head(wire) # Nil
        /\ \E s \in {x \in Sids : srv[x] = Nil} :
             /\ srv' = [srv EXCEPT ![s] = Head(wire)]
             /\ dispatch' = Append(dispatch, [key |-> Head(wire), sid |-> s])
  /\ UNCHANGED <<balanceVars, link, io, timer, sessVars, counts, known>>

-----------------------------------------------------------------------------
(* Sessions *)

open_session(k) ==
  /\ Started /\ user[k] = "none"
  /\ user' = [user EXCEPT ![k] = "open"]
  /\ m_authority_map' = [m_authority_map EXCEPT ![k] = "opened"]
  /\ UNCHANGED <<balanceVars, link, io, timer, at, held, m_session_map, netVars, counts, known>>

\* async_auth() begins: find_authority().
find_authority(k) ==
  /\ user[k] = "open" /\ at[k] = "idle" /\ counts.auths < MaxAuths
  /\ at' = [at EXCEPT ![k] = "found"]
  /\ Count("auths")
  /\ UNCHANGED <<balanceVars, link, io, timer, m_authority_map, user, held, m_session_map,
                 netVars, known>>

\* The login is encoded into the pack, without a lock: from its beginning...
encode(k) ==
  /\ at[k] = "found"
  /\ at' = [at EXCEPT ![k] = "encoding"]
  /\ UNCHANGED <<balanceVars, link, io, timer, m_authority_map, user, held, m_session_map,
                 netVars, counts, known>>
\* ... to its end.
encoded(k) ==
  /\ at[k] = "encoding"
  /\ at' = [at EXCEPT ![k] = "encoded"]
  /\ m_authority_map' = [m_authority_map EXCEPT ![k] = "requested"]
  /\ UNCHANGED <<balanceVars, link, io, timer, user, held, m_session_map, netVars, counts, known>>

\* async_send(pack), under m_mutex: sent if connected, else on_connect() will.
async_send(k) ==
  /\ at[k] = "encoded"
  /\ at' = [at EXCEPT ![k] = "idle"]
  /\ wire' = IF link = "connected" THEN Append(wire, k) ELSE wire
  /\ UNCHANGED <<balanceVars, link, io, timer, m_authority_map, user, held,
                 m_session_map, dispatch, srv, counts, known>>

\* handle_client_context() of a login's answer: the session is known from here
\* on, unless its user object has gone.
handle_client_context ==
  /\ dispatch # <<>>
  /\ LET k == Head(dispatch).key
         s == Head(dispatch).sid
     IN  IF user[k] = "gone" THEN UNCHANGED <<m_session_map, held, known>>
         ELSE /\ m_session_map' = [m_session_map EXCEPT ![s] = k]
              /\ held' = [held EXCEPT ![k] = s]
              /\ Record("late", srv[s] # k /\ io # "on_close")
  /\ dispatch' = Tail(dispatch)
  /\ UNCHANGED <<balanceVars, link, io, timer, m_authority_map, at, user, wire, srv, counts>>

\* TcpSession::close() of the client: erase_session() by the id held, which is
\* of any connection.  The login stays in m_authority_map.
close_session(k) ==
  /\ user[k] = "open" /\ at[k] = "idle" /\ held[k] # Nil
  /\ m_session_map' = [m_session_map EXCEPT ![held[k]] = Nil]
  /\ Record("stale close", m_session_map[held[k]] \notin {k, Nil})
  /\ user' = [user EXCEPT ![k] = "closed"]
  /\ UNCHANGED <<balanceVars, link, io, timer, m_authority_map, at, held, netVars, counts>>

\* The user's last TcpSession is destroyed.
drop_session(k) ==
  /\ user[k] \in {"open", "closed"} /\ at[k] = "idle"
  /\ user' = [user EXCEPT ![k] = "gone"]
  /\ UNCHANGED <<balanceVars, link, io, timer, m_authority_map, at, held,
                 m_session_map, netVars, counts, known>>

-----------------------------------------------------------------------------
InIo == on_timer \/ on_connect \/ on_close
InUser(k) ==
  \/ open_session(k) \/ find_authority(k) \/ encode(k) \/ encoded(k) \/ async_send(k)
  \/ close_session(k) \/ drop_session(k)

Next ==
  \/ \E addrs \in AddressSets : update_address(addrs)
  \/ async_connect \/ InIo \/ Established \/ Refused \/ Lost \/ on_read
  \/ handle_client_context
  \/ \E k \in Keys : InUser(k)

\* Timers expire and handlers run; a connect ends, sooner than a tick at last.
Fairness ==
  WF_vars(InIo) /\ WF_vars(Established \/ Refused) /\ WF_vars(handle_client_context)

Spec == Init /\ [][Next]_vars
FairSpec == Spec /\ Fairness

-----------------------------------------------------------------------------
(* Properties *)

TypeOK ==
  /\ m_address_set \in Seq([addr : Addresses, load : 0..(LoadSize - 1)])
  /\ link \in {"down", "connecting", "connected"}
  /\ io \in {"idle", "on_connect", "on_close", "ended"}
  /\ link = "connecting" => io # "on_connect"
  /\ m_authority_map \in [Keys -> {"none", "opened", "requested"}]
  /\ at \in [Keys -> {"idle", "found", "encoding", "encoded"}]
  /\ user \in [Keys -> {"none", "open", "closed", "gone"}]
  /\ {m_session_map, srv} \subseteq [Sids -> Keys \cup {Nil}]
  /\ held \in [Keys -> Sids \cup {Nil}]
  /\ wire \in Seq(Keys \cup {Nil})
  /\ dispatch \in Seq([key : Keys, sid : Sids])
  /\ counts \in [{"mishaps", "updates", "auths"} -> Nat]
  /\ known \subseteq Faults

Up == link = "connected" /\ io = "idle"
\* The answer of session s's login is still to be handled.
Unhandled(s) == \E i \in DOMAIN dispatch : dispatch[i] = [key |-> srv[s], sid |-> s]

\* On a connection that is up no login is forgotten: each is on its way or has
\* its session at the server, wherever async_auth() was when on_connect() sent
\* what there was, even if it was in the middle of encoding the login.
LoggedIn ==
  Up => \A k \in Keys :
    m_authority_map[k] = "requested" /\ at[k] = "idle" /\ user[k] = "open" =>
      k \in ToSet(wire) \/ \E s \in Sids : srv[s] = k

\* The client and the server agree on the sessions of a connection that is up:
\* none of an earlier connection is left when its id is given to another user,
\* and none of this one is missing whose answer has been handled, until an
\* answer handled too late, or a close of an old session, has said otherwise.
SessionsCurrent ==
  Up /\ known \cap {"late", "stale close"} = {} => \A s \in Sids :
    /\ m_session_map[s] \in {Nil, srv[s]}
    /\ srv[s] # Nil /\ user[srv[s]] \notin {"closed", "gone"} =>
         m_session_map[s] = srv[s] \/ Unhandled(s)

\* Addresses that were given once are used evenly, until a count wraps.
Balanced ==
  counts.updates <= 1 /\ "wrap" \notin known =>
    \A i, j \in DOMAIN m_address_set : m_address_set[i].load <= m_address_set[j].load + 1

\* A client that was started, and has addresses, is connected again and again,
\* until a host name is not found in the io thread.
Reconnects ==
  [](Started => <>(link = "connected" \/ m_address_set = <<>> \/ "resolve" \in known))

=============================================================================
