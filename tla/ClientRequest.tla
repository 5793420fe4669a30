---------------------------- MODULE ClientRequest ----------------------------
(***************************************************************************)
(* The blocking calls of a TCP client (TcpClient::Impl of                   *)
(* prj/src/net/TcpClient.cpp and TcpClient.ipp): threads that call          *)
(* request(), the dispatcher thread that hands each response to its caller  *)
(* (handle_client_context in DispatchServer.cpp), the io thread, and the    *)
(* thread that calls close().                                               *)
(*                                                                         *)
(* Critical sections of m_mutex and of a monitor's mutex are single steps,  *)
(* except that of close(), which holds m_mutex while it joins two threads.  *)
(* The server answers a request with the request's id, at most once, in any *)
(* order and as late as it likes; requests and answers may be lost with the *)
(* connection.                                                              *)
(***************************************************************************)
EXTENDS Integers, Sequences

CONSTANTS
  Callers,      \* threads that call request()
  MaxCalls,     \* bound: calls of request(), all callers together
  Closing,      \* is close() called?
  BadResponses, \* may a response be one that the codec cannot decode?
  Nil

ASSUME ClientConstants == MaxCalls \in Nat /\ {Closing, BadResponses} \subseteq BOOLEAN

\* One call of request(): it names the caller's response codec, and also the
\* AsyncRequest object the call may have made.
Call == Callers \X (1..MaxCalls)
\* Request ids: one more with each call.
Id == 0..MaxCalls
\* A request on its way to the server, or its answer.
Packet == [id : Id, call : Call]
\* What a response codec was given: the response to which call.
Answer == [call : Call, decoded : BOOLEAN]

ASSUME NilAssumption == Nil \notin Call \cup Packet \cup Answer

VARIABLES
  m_request_id,     \* the last request id
  m_async_manager,  \* request id -> the AsyncRequest waiting for it, or Nil
  pc,               \* caller -> where it is in request()
  calls,            \* caller -> its number of calls so far
  req_id,           \* call -> the request id it read, 0 before
  async,            \* caller -> the AsyncRequest it waits on
  result,           \* call -> what request() returned, "none" before
  m_task_count,     \* AsyncRequest -> m_monitor.m_task_count
  rsp,              \* call -> what its codec was last given, and if it decoded
  wire,             \* requests sent and not yet answered
  inbox,            \* the dispatcher's message queue
  dpc, dmsg, dobj,  \* the dispatcher: its place, message and AsyncRequest
  io,               \* the io thread: "run", "lock" (at m_mutex) or "ended"
  closer            \* close(): "open", "worker", "dispatcher" or "closed"

callerVars == <<pc, calls, req_id, async, result>>
dispVars == <<dpc, dmsg, dobj>>
vars == <<m_request_id, m_async_manager, callerVars, m_task_count, rsp, wire,
          inbox, dispVars, io, closer>>

Init ==
  /\ m_request_id = 0
  /\ m_async_manager = [i \in Id |-> Nil]
  /\ pc = [c \in Callers |-> "idle"]
  /\ calls = [c \in Callers |-> 0]
  /\ req_id = [k \in Call |-> 0]
  /\ async = [c \in Callers |-> Nil]
  /\ result = [k \in Call |-> "none"]
  /\ m_task_count = [k \in Call |-> 1]
  /\ rsp = [k \in Call |-> Nil]
  /\ wire = {} /\ inbox = <<>>
  /\ dpc = "idle" /\ dmsg = Nil /\ dobj = Nil
  /\ io = "run" /\ closer = "open"

\* close() keeps m_mutex until both threads have been joined.
MutexFree == closer \notin {"worker", "dispatcher"}
\* m_balancer.m_peer, reset by close() before it joins.
HasPeer == closer = "open"

current(c) == <<c, calls[c]>>
Goto(c, l) == pc' = [pc EXCEPT ![c] = l]

-----------------------------------------------------------------------------
(* request() *)

\* Atomic::operator++ adds, and then reads the counter once more.
request_add(c) ==
  /\ pc[c] = "idle" /\ m_request_id < MaxCalls
  /\ calls' = [calls EXCEPT ![c] = @ + 1]
  /\ m_request_id' = m_request_id + 1
  /\ Goto(c, "added")
  /\ UNCHANGED <<m_async_manager, req_id, async, result, m_task_count, rsp,
                 wire, inbox, dispVars, io, closer>>

request_read(c) ==
  /\ pc[c] = "added"
  /\ req_id' = [req_id EXCEPT ![current(c)] = m_request_id]
  /\ Goto(c, "post")
  /\ UNCHANGED <<m_request_id, m_async_manager, calls, async, result,
                 m_task_count, rsp, wire, inbox, dispVars, io, closer>>

\* post_async(): an entry that is already there is used as it is.
post_async(c) ==
  /\ pc[c] = "post" /\ MutexFree
  /\ LET old == m_async_manager[req_id[current(c)]]
         obj == IF old = Nil THEN current(c) ELSE old
     IN  /\ m_async_manager' = [m_async_manager EXCEPT ![req_id[current(c)]] = obj]
         /\ async' = [async EXCEPT ![c] = obj]
  /\ Goto(c, "send")
  /\ UNCHANGED <<m_request_id, calls, req_id, result, m_task_count, rsp,
                 wire, inbox, dispVars, io, closer>>

\* async_send(): after close() there is no peer left to send with.
async_send(c) ==
  /\ pc[c] = "send" /\ MutexFree
  /\ wire' = IF HasPeer THEN wire \cup {[id |-> req_id[current(c)], call |-> current(c)]}
                        ELSE wire
  /\ Goto(c, IF HasPeer THEN "monitor" ELSE "crash")
  /\ UNCHANGED <<m_request_id, m_async_manager, calls, req_id, async, result,
                 m_task_count, rsp, inbox, dispVars, io, closer>>

\* request() has the monitor's verdict: ok ends it, else the entry is popped.
Verdict(c, r) ==
  /\ result' = [result EXCEPT ![current(c)] = r]
  /\ Goto(c, IF r = "ok" THEN "idle" ELSE "pop")
  /\ async' = IF r = "ok" THEN [async EXCEPT ![c] = Nil] ELSE async
  /\ UNCHANGED <<m_request_id, m_async_manager, calls, req_id, m_task_count,
                 rsp, wire, inbox, dispVars, io, closer>>

Counted(c) == IF m_task_count[async[c]] = 0 THEN "ok" ELSE "fail"

\* Monitor::timed_wait() that finds its task finished at once.
timed_wait_now(c) ==
  /\ pc[c] = "monitor" /\ m_task_count[async[c]] <= 0
  /\ Verdict(c, Counted(c))

timed_wait(c) ==
  /\ pc[c] = "monitor" /\ m_task_count[async[c]] > 0
  /\ Goto(c, "wait")
  /\ UNCHANGED <<m_request_id, m_async_manager, calls, req_id, async, result,
                 m_task_count, rsp, wire, inbox, dispVars, io, closer>>

\* Fault: the wait has no time limit.
timed_wait_forever(c) ==
  /\ pc[c] = "wait"
  /\ UNCHANGED vars
timed_wait_timeout(c) ==
  /\ pc[c] = "wait"
  /\ Verdict(c, "timeout")

\* A wait on a condition variable may end without a notification.
timed_wait_spurious(c) ==
  /\ pc[c] = "wait"
  /\ Goto(c, "woken")
  /\ UNCHANGED <<m_request_id, m_async_manager, calls, req_id, async, result,
                 m_task_count, rsp, wire, inbox, dispVars, io, closer>>

\* Back from the wait; it is an `if', not a loop.
timed_wait_woken(c) ==
  /\ pc[c] = "woken"
  /\ Verdict(c, Counted(c))

\* Fault: a call that failed leaves its entry behind.
pop_async_skip(c) ==
  /\ pc[c] = "pop"
  /\ async' = [async EXCEPT ![c] = Nil]
  /\ Goto(c, "idle")
  /\ UNCHANGED <<m_request_id, m_async_manager, calls, req_id, result,
                 m_task_count, rsp, wire, inbox, dispVars, io, closer>>
\* pop_async() by the caller.
pop_async(c) ==
  /\ pc[c] = "pop" /\ MutexFree
  /\ m_async_manager' = [m_async_manager EXCEPT ![req_id[current(c)]] = Nil]
  /\ async' = [async EXCEPT ![c] = Nil]
  /\ Goto(c, "idle")
  /\ UNCHANGED <<m_request_id, calls, req_id, result, m_task_count, rsp,
                 wire, inbox, dispVars, io, closer>>

-----------------------------------------------------------------------------
(* The server and the io thread *)

\* The answer to a request is read by the io thread: on_read() posts it.
on_read(p) ==
  /\ p \in wire /\ io = "run" /\ HasPeer
  /\ wire' = wire \ {p}
  /\ inbox' = Append(inbox, p)
  /\ UNCHANGED <<m_request_id, m_async_manager, callerVars, m_task_count, rsp,
                 dispVars, io, closer>>

\* A request, or its answer, is lost with the connection.
Lose(p) ==
  /\ p \in wire
  /\ wire' = wire \ {p}
  /\ UNCHANGED <<m_request_id, m_async_manager, callerVars, m_task_count, rsp,
                 inbox, dispVars, io, closer>>

IoOnly == UNCHANGED <<m_request_id, m_async_manager, callerVars, m_task_count,
                      rsp, wire, inbox, dispVars, closer>>

\* on_timer() and on_connect() take m_mutex.
on_timer == io = "run" /\ Closing /\ closer = "open" /\ io' = "lock" /\ IoOnly
on_timer_locked == io = "lock" /\ MutexFree /\ io' = "run" /\ IoOnly
\* The io service was stopped: its thread ends after the current handler.
io_end == io = "run" /\ closer = "worker" /\ io' = "ended" /\ IoOnly

-----------------------------------------------------------------------------
(* The dispatcher thread: DispatchHandler::operator(), handle_client_context *)

\* The message is dropped when its peer is gone.
dispatch(obj, l) ==
  /\ dpc = "idle" /\ inbox # <<>>
  /\ dmsg' = obj /\ dpc' = l
  /\ inbox' = Tail(inbox)
  /\ UNCHANGED <<m_request_id, m_async_manager, callerVars, m_task_count, rsp,
                 wire, dobj, io, closer>>
dispatch_begin == HasPeer /\ dispatch(Head(inbox), "pop")
dispatch_drop == ~HasPeer /\ dispatch(Nil, "idle")

\* Fault: the dispatcher looks the entry up and leaves it in the table.
dispatch_find ==
  /\ dpc = "pop" /\ MutexFree
  /\ LET obj == m_async_manager[dmsg.id]
     IN  /\ dobj' = obj
         /\ dpc' = IF obj = Nil THEN "idle" ELSE "decode"
         /\ dmsg' = IF obj = Nil THEN Nil ELSE dmsg
  /\ UNCHANGED <<m_request_id, m_async_manager, callerVars, m_task_count, rsp,
                 wire, inbox, io, closer>>
\* Fault: responses are matched to requests in order, not by their id.
dispatch_pop_first ==
  /\ dpc = "pop" /\ MutexFree
  /\ LET used == {i \in Id : m_async_manager[i] # Nil}
         i == IF used = {} THEN dmsg.id ELSE CHOOSE m \in used : \A n \in used : m <= n
         obj == m_async_manager[i]
     IN  /\ dobj' = obj
         /\ m_async_manager' = [m_async_manager EXCEPT ![i] = Nil]
         /\ dpc' = IF obj = Nil THEN "idle" ELSE "decode"
         /\ dmsg' = IF obj = Nil THEN Nil ELSE dmsg
  /\ UNCHANGED <<m_request_id, callerVars, m_task_count, rsp, wire, inbox, io,
                 closer>>
\* client->pop_async(): a response nobody waits for is ignored.
dispatch_pop ==
  /\ dpc = "pop" /\ MutexFree
  /\ LET obj == m_async_manager[dmsg.id]
     IN  /\ dobj' = obj
         /\ m_async_manager' = [m_async_manager EXCEPT ![dmsg.id] = Nil]
         /\ dpc' = IF obj = Nil THEN "idle" ELSE "decode"
         /\ dmsg' = IF obj = Nil THEN Nil ELSE dmsg
  /\ UNCHANGED <<m_request_id, callerVars, m_task_count, rsp, wire, inbox, io,
                 closer>>

\* m_rsp_codec->decode(): writes the response object of the call that made
\* the entry.  A failure is only logged.
dispatch_decode ==
  /\ dpc = "decode"
  /\ \E good \in {TRUE, ~BadResponses} :
       rsp' = [rsp EXCEPT ![dobj] = [call |-> dmsg.call, decoded |-> good]]
  /\ dpc' = "finish"
  /\ UNCHANGED <<m_request_id, m_async_manager, callerVars, m_task_count, wire,
                 inbox, dmsg, dobj, io, closer>>

\* Monitor::finish_one(): the last task wakes all who wait.
finish_one ==
  /\ dpc = "finish"
  /\ m_task_count' = [m_task_count EXCEPT ![dobj] = @ - 1]
  /\ pc' = [c \in Callers |->
              IF pc[c] = "wait" /\ async[c] = dobj /\ m_task_count'[dobj] = 0
              THEN "woken" ELSE pc[c]]
  /\ dpc' = "idle" /\ dmsg' = Nil /\ dobj' = Nil
  /\ UNCHANGED <<m_request_id, m_async_manager, calls, req_id, async, result,
                 rsp, wire, inbox, io, closer>>

\* m_dispatcher.stop(): its thread leaves when the queue is empty.
dispatch_end ==
  /\ dpc = "idle" /\ inbox = <<>> /\ closer = "dispatcher"
  /\ dpc' = "ended"
  /\ UNCHANGED <<m_request_id, m_async_manager, callerVars, m_task_count, rsp,
                 wire, inbox, dmsg, dobj, io, closer>>

-----------------------------------------------------------------------------
(* close() *)

CloseStep(at, to) ==
  /\ closer = at /\ closer' = to
  /\ UNCHANGED <<m_request_id, m_async_manager, callerVars, m_task_count, rsp,
                 wire, inbox, dispVars, io>>

\* Lock m_mutex, cancel the timer, close and reset the peer.
close == Closing /\ CloseStep("open", "worker")
\* m_worker.stop() returns.
close_worker == io = "ended" /\ CloseStep("worker", "dispatcher")
\* m_dispatcher.stop() returns; m_mutex is freed.
close_dispatcher == dpc = "ended" /\ CloseStep("dispatcher", "closed")

-----------------------------------------------------------------------------
CallerStep(c) ==
  \/ request_read(c) \/ post_async(c) \/ async_send(c)
  \/ timed_wait_now(c) \/ timed_wait(c) \/ timed_wait_timeout(c)
  \/ timed_wait_woken(c) \/ pop_async(c)
DispatchStep ==
  \/ dispatch_begin \/ dispatch_drop \/ dispatch_pop \/ dispatch_decode
  \/ finish_one \/ dispatch_end

Next ==
  \/ \E c \in Callers :
       request_add(c) \/ CallerStep(c) \/ timed_wait_spurious(c)
  \/ DispatchStep
  \/ \E p \in wire : on_read(p) \/ Lose(p)
  \/ on_timer \/ on_timer_locked \/ io_end
  \/ close \/ close_worker \/ close_dispatcher

(***************************************************************************)
(* Runnable threads run, free mutexes are obtained, and the time-out of a   *)
(* wait passes.  The server need not answer.                                *)
(***************************************************************************)
Fairness ==
  /\ \A c \in Callers : WF_vars(CallerStep(c))
  /\ WF_vars(DispatchStep)
  /\ WF_vars(on_timer_locked) /\ WF_vars(io_end)
  /\ WF_vars(close_worker) /\ WF_vars(close_dispatcher)

Spec == Init /\ [][Next]_vars
FairSpec == Spec /\ Fairness

-----------------------------------------------------------------------------
(* Properties *)

InCall(c) == pc[c] \notin {"idle", "added", "post"}

\* Types, and which caller holds an AsyncRequest.
TypeOK ==
  /\ m_request_id \in Id
  /\ m_async_manager \in [Id -> Call \cup {Nil}]
  /\ pc \in [Callers -> {"idle", "added", "post", "send", "monitor", "wait",
                         "woken", "pop", "crash"}]
  /\ calls \in [Callers -> 0..MaxCalls]
  /\ req_id \in [Call -> Id]
  /\ async \in [Callers -> Call \cup {Nil}]
  /\ \A c \in Callers : InCall(c) <=> async[c] # Nil
  /\ result \in [Call -> {"none", "ok", "fail", "timeout"}]
  /\ m_task_count \in [Call -> Int]
  /\ rsp \in [Call -> Answer \cup {Nil}]
  /\ wire \subseteq Packet /\ inbox \in Seq(Packet)
  /\ dpc \in {"idle", "pop", "decode", "finish", "ended"}
  /\ dmsg \in Packet \cup {Nil} /\ dobj \in Call \cup {Nil}
  /\ io \in {"run", "lock", "ended"}
  /\ closer \in {"open", "worker", "dispatcher", "closed"}

\* "only one" (DispatchServer.cpp:113): a monitor is finished at most once, so
\* its count never passes zero, although callers and dispatcher both pop.
FinishedOnce == \A k \in Call : m_task_count[k] \in {0, 1}

\* m_async_manager does not leak: every entry belongs to a call that is still
\* inside request() and has not been answered, even when ids were shared.
NoOrphanEntry ==
  \A i \in Id : m_async_manager[i] # Nil =>
    /\ m_task_count[m_async_manager[i]] = 1
    /\ \E c \in Callers : async[c] = m_async_manager[i] /\ req_id[current(c)] = i

\* Calls whose request id no other call has read.
Unshared(k) == \A j \in Call \ {k} : req_id[j] # req_id[k]

\* A call that returned ok, and whose id was its own, had its own response
\* given to its codec, however late or reordered the responses of other calls
\* arrived.
OkMeansAnswered ==
  \A k \in Call : (result[k] = "ok" /\ Unshared(k)) =>
    rsp[k] # Nil /\ rsp[k].call = k

\* request() returns, whatever the server and the network do, unless close()
\* keeps m_mutex.
RequestReturns ==
  \A c \in Callers : pc[c] = "added" ~> (pc[c] \in {"idle", "crash"} \/ ~MutexFree)

-----------------------------------------------------------------------------
(* What comments say and the code does not do *)

\* "send message and get a response" (TcpClient.h:127): two callers that read
\* the same request id must not take one response for both.
OkIsOwnResponse ==
  \A k \in Call : result[k] = "ok" => rsp[k] # Nil /\ rsp[k].call = k

\* "send message and get a response" (TcpClient.h:127): ok means a response
\* that was decoded; a failure of the codec is only logged.
OkMeansDecoded ==
  \A k \in Call : (result[k] = "ok" /\ rsp[k] # Nil) => rsp[k].decoded

\* "get a response" (TcpClient.h:127): the response object, which is the
\* caller's, is written only while the caller is still inside request().
DecodedInTime ==
  [][\A k \in Call : rsp'[k] # rsp[k] =>
        \E c \in Callers : k = current(c) /\ InCall(c)]_vars

\* "if tasks fail: return fail; else return timeout" (Monitor.h:62): nothing
\* here calls fail(), so request() never returns it.
FailMeansFailed == \A k \in Call : result[k] # "fail"

\* "release client" (TcpClient.h:91): close() returns.
CloseReturns == closer = "worker" ~> closer = "closed"

=============================================================================
