------------------------- MODULE ClientRequestProofs -------------------------
(***************************************************************************)
(* Theorems about the blocking calls of a TCP client, for any number of     *)
(* callers and calls, with lost, late and reordered responses, time-outs,    *)
(* spurious wake-ups and close().                                           *)
(***************************************************************************)
EXTENDS ClientRequest, TLAPS

-----------------------------------------------------------------------------
(* The inductive invariant *)

\* A call that has read its request id, and one that has been through
\* post_async().
HasId(k) ==
  k[2] < calls[k[1]] \/ (k[2] = calls[k[1]] /\ pc[k[1]] # "added")
Posted(k) ==
  k[2] < calls[k[1]] \/ (k[2] = calls[k[1]] /\ pc[k[1]] \notin {"added", "post"})

\* Calls are numbered within the bound; a caller inside request() has a call.
Numbered ==
  \A c \in Callers : calls[c] <= m_request_id /\ (pc[c] # "idle" => 1 <= calls[c])

\* An id is read after the counter was raised, so it is not zero.
IdsRead == \A k \in Call : HasId(k) => 1 <= req_id[k]

\* An entry lies at the id of the call that made it, whose monitor runs, and a
\* caller inside request() looks there.
EntriesWaitedFor ==
  \A i \in Id : m_async_manager[i] # Nil =>
    /\ Posted(m_async_manager[i]) /\ req_id[m_async_manager[i]] = i
    /\ m_task_count[m_async_manager[i]] = 1
    /\ \E c \in Callers : async[c] = m_async_manager[i] /\ req_id[current(c)] = i

\* A monitor runs until somebody could have popped its entry.
FreshRuns == \A k \in Call : ~Posted(k) => m_task_count[k] = 1

\* A caller waits on an entry of its own id.
WaitsOnOwnId ==
  \A c \in Callers : async[c] # Nil =>
    /\ Posted(current(c)) /\ Posted(async[c])
    /\ req_id[async[c]] = req_id[current(c)]

\* A request and its answer carry the id of their call.
CarriesId(p) == HasId(p.call) /\ p.id = req_id[p.call]
PacketsCarryIds ==
  /\ \A p \in wire : CarriesId(p)
  /\ \A i \in 1..Len(inbox) : CarriesId(inbox[i])

\* The dispatcher alone has the object it popped, and the response it gives to
\* that object's codec is one to its id.
DispatcherOwns ==
  /\ dpc \in {"pop", "decode", "finish"} => dmsg # Nil /\ CarriesId(dmsg)
  /\ dpc \in {"decode", "finish"} =>
       /\ dobj # Nil /\ Posted(dobj) /\ m_task_count[dobj] = 1
       /\ req_id[dobj] = dmsg.id
       /\ \A i \in Id : m_async_manager[i] # dobj
  /\ dpc = "finish" => rsp[dobj] # Nil /\ rsp[dobj].call = dmsg.call

\* A monitor that was finished has had a response to its id.
FinishedHasResponse ==
  \A k \in Call : m_task_count[k] = 0 =>
    /\ Posted(k)
    /\ rsp[k] # Nil /\ HasId(rsp[k].call) /\ req_id[rsp[k].call] = req_id[k]

\* A call that returned ok saw a finished monitor of its id.
OkSawFinished ==
  \A k \in Call : result[k] = "ok" =>
    /\ Posted(k)
    /\ \E j \in Call : m_task_count[j] = 0 /\ req_id[j] = req_id[k]

IInv ==
  /\ TypeOK /\ FinishedOnce
  /\ Numbered /\ IdsRead /\ EntriesWaitedFor /\ FreshRuns /\ WaitsOnOwnId
  /\ PacketsCarryIds /\ DispatcherOwns /\ FinishedHasResponse /\ OkSawFinished

-----------------------------------------------------------------------------
(* The steps of request() *)

\* No call has been made yet.
LEMMA Start == Init => IInv
<1>. SUFFICES ASSUME Init PROVE IInv
  OBVIOUS
<1>. USE ClientConstants, NilAssumption DEF Init
<1>1. TypeOK BY DEF TypeOK, InCall, Id, Call
<1>2. Numbered /\ FreshRuns /\ EntriesWaitedFor /\ WaitsOnOwnId /\ FinishedOnce
  BY DEF Numbered, FreshRuns, EntriesWaitedFor, WaitsOnOwnId, FinishedOnce
<1>3. IdsRead /\ OkSawFinished /\ FinishedHasResponse
  BY DEF IdsRead, HasId, Call, OkSawFinished, FinishedHasResponse
<1>4. PacketsCarryIds /\ DispatcherOwns
  BY DEF PacketsCarryIds, DispatcherOwns
<1>. QED BY <1>1, <1>2, <1>3, <1>4 DEF IInv

\* What the types give about calls, packets and responses.
LEMMA Typed ==
  ASSUME IInv
  PROVE  /\ TypeOK
         /\ \A c \in Callers : pc[c] # "idle" => current(c) \in Call
         /\ \A c \in Callers : async[c] # Nil => async[c] \in Call
         /\ \A i \in Id : m_async_manager[i] # Nil => m_async_manager[i] \in Call
         /\ \A p \in wire : p.call \in Call /\ p.id \in Id
         /\ Len(inbox) \in Nat
         /\ \A i \in 1..Len(inbox) : inbox[i] \in Packet /\ inbox[i].call \in Call
         /\ dmsg # Nil => dmsg \in Packet /\ dmsg.call \in Call /\ dmsg.id \in Id
         /\ dobj # Nil => dobj \in Call
         /\ \A k \in Call : rsp[k] # Nil => rsp[k].call \in Call
<1>. USE ClientConstants
<1>1. TypeOK BY DEF IInv
<1>2. \A c \in Callers : pc[c] # "idle" => current(c) \in Call
  BY DEF IInv, TypeOK, Numbered, current, Call, Id
<1>3. /\ \A c \in Callers : async[c] # Nil => async[c] \in Call
      /\ \A i \in Id : m_async_manager[i] # Nil => m_async_manager[i] \in Call
      /\ dobj # Nil => dobj \in Call
  BY <1>1 DEF TypeOK
<1>4. \A p \in Packet : p.call \in Call /\ p.id \in Id
  BY DEF Packet
<1>5. Len(inbox) \in Nat /\ \A i \in 1..Len(inbox) : inbox[i] \in Packet
  BY <1>1 DEF TypeOK
<1>6. \A k \in Call : rsp[k] # Nil => rsp[k].call \in Call
  BY <1>1 DEF TypeOK, Answer
<1>. QED BY <1>1, <1>2, <1>3, <1>4, <1>5, <1>6 DEF TypeOK

\* The first access of ++m_request_id, which is lost when another comes between.
LEMMA RequestAdd ==
  ASSUME IInv, NEW c \in Callers, request_add(c)
  PROVE  IInv'
<1>. USE ClientConstants, NilAssumption, Typed
<1>0. /\ pc[c] = "idle" /\ async[c] = Nil /\ m_request_id < MaxCalls
      /\ calls[c] \in Nat /\ calls[c] <= m_request_id /\ m_request_id \in Nat
      /\ m_request_id' = m_request_id + 1
      /\ pc' = [pc EXCEPT ![c] = "added"]
      /\ calls' = [calls EXCEPT ![c] = @ + 1]
      /\ UNCHANGED <<m_async_manager, req_id, async, result, m_task_count, rsp,
                     wire, inbox, dpc, dmsg, dobj, io, closer>>
  BY DEF IInv, TypeOK, request_add, Goto, Numbered, Id, InCall, dispVars
<1>1. TypeOK'
  <2>1. calls' \in [Callers -> 0..MaxCalls] /\ m_request_id' \in Id
    BY <1>0 DEF TypeOK, Id
  <2>2. \A d \in Callers : InCall(d)' <=> async'[d] # Nil
    BY <1>0 DEF TypeOK, InCall
  <2>3. pc' \in [Callers -> {"idle", "added", "post", "send", "monitor", "wait",
                             "woken", "pop", "crash"}]
    BY <1>0 DEF TypeOK
  <2>. QED BY <1>0, <2>1, <2>2, <2>3 DEF TypeOK
<1>2. Numbered' BY <1>0 DEF IInv, TypeOK, Numbered, Id
<1>3. \A k \in Call : (HasId(k)' <=> HasId(k)) /\ (Posted(k)' <=> Posted(k))
  BY <1>0 DEF TypeOK, HasId, Posted, Call
<1>4. \A d \in Callers : async[d] # Nil => current(d)' = current(d) /\ current(d) \in Call
  BY <1>0 DEF TypeOK, current, InCall
<1>5. IdsRead' /\ FreshRuns' /\ FinishedOnce'
  BY <1>0, <1>3 DEF IInv, IdsRead, FreshRuns, FinishedOnce
<1>6. EntriesWaitedFor' /\ WaitsOnOwnId'
  BY <1>0, <1>3, <1>4 DEF IInv, EntriesWaitedFor, WaitsOnOwnId
<1>7. PacketsCarryIds' /\ DispatcherOwns'
  BY <1>0, <1>3 DEF IInv, PacketsCarryIds, CarriesId, DispatcherOwns
<1>8. FinishedHasResponse' /\ OkSawFinished'
  BY <1>0, <1>3 DEF IInv, FinishedHasResponse, OkSawFinished
<1>. QED BY <1>1, <1>2, <1>5, <1>6, <1>7, <1>8 DEF IInv

\* The second access: the id the call goes on with, which another may have too.
LEMMA RequestRead ==
  ASSUME IInv, NEW c \in Callers, request_read(c)
  PROVE  IInv'
<1>. USE ClientConstants, NilAssumption, Typed
<1>. DEFINE k0 == current(c)
<1>0. /\ pc[c] = "added" /\ async[c] = Nil /\ k0 \in Call /\ k0 = <<c, calls[c]>>
      /\ 1 <= m_request_id /\ m_request_id \in Id
      /\ pc' = [pc EXCEPT ![c] = "post"]
      /\ req_id' = [req_id EXCEPT ![k0] = m_request_id]
      /\ UNCHANGED <<m_request_id, m_async_manager, calls, async, result, m_task_count,
                     rsp, wire, inbox, dpc, dmsg, dobj, io, closer>>
  BY DEF IInv, TypeOK, request_read, Goto, Numbered, Id, InCall, dispVars, current
<1>1. TypeOK'
  <2>1. \A d \in Callers : InCall(d)' <=> async'[d] # Nil
    BY <1>0 DEF TypeOK, InCall
  <2>. QED BY <1>0, <2>1 DEF TypeOK
<1>2. Numbered' BY <1>0 DEF IInv, TypeOK, Numbered
<1>3. /\ \A k \in Call : (HasId(k)' <=> HasId(k) \/ k = k0) /\ (Posted(k)' <=> Posted(k))
      /\ ~HasId(k0) /\ ~Posted(k0)
      /\ \A k \in Call : Posted(k) => HasId(k)
  BY <1>0 DEF TypeOK, HasId, Posted, Call
<1>4. \A k \in Call : HasId(k) => req_id'[k] = req_id[k]
  BY <1>0, <1>3 DEF TypeOK
<1>5. \A d \in Callers : async[d] # Nil =>
        current(d)' = current(d) /\ current(d) \in Call /\ HasId(current(d))
  BY <1>0, <1>3 DEF IInv, WaitsOnOwnId, TypeOK, current, InCall
<1>6. IdsRead' /\ FreshRuns' /\ FinishedOnce'
  BY <1>0, <1>3 DEF IInv, IdsRead, FreshRuns, FinishedOnce, TypeOK
<1>7. EntriesWaitedFor' /\ WaitsOnOwnId'
  BY <1>0, <1>3, <1>4, <1>5 DEF IInv, EntriesWaitedFor, WaitsOnOwnId
<1>8. PacketsCarryIds' /\ DispatcherOwns'
  BY <1>0, <1>3, <1>4 DEF IInv, PacketsCarryIds, CarriesId, DispatcherOwns
<1>9. FinishedHasResponse' /\ OkSawFinished'
  <2>1. FinishedHasResponse' BY <1>0, <1>3, <1>4 DEF IInv, FinishedHasResponse
  <2>2. OkSawFinished'
    BY <1>0, <1>3, <1>4 DEF IInv, OkSawFinished, FinishedHasResponse
  <2>. QED BY <2>1, <2>2
<1>. QED BY <1>1, <1>2, <1>6, <1>7, <1>8, <1>9 DEF IInv

\* The call enters the table, in the place of one with the same id.
LEMMA PostAsync ==
  ASSUME IInv, NEW c \in Callers, post_async(c)
  PROVE  IInv'
<1>. USE ClientConstants, NilAssumption, Typed
<1>0. current(c) \in Call /\ req_id[current(c)] \in Id /\ pc[c] = "post"
  BY DEF post_async, TypeOK
<1>1. PICK k0 \in Call, i0 \in Id, obj \in Call :
      /\ k0 = current(c) /\ k0 = <<c, calls[c]>> /\ i0 = req_id[k0]
      /\ obj = IF m_async_manager[i0] = Nil THEN k0 ELSE m_async_manager[i0]
  BY <1>0 DEF current
<1>2. /\ pc[c] = "post" /\ async[c] = Nil
      /\ pc' = [pc EXCEPT ![c] = "send"]
      /\ m_async_manager' = [m_async_manager EXCEPT ![i0] = obj]
      /\ async' = [async EXCEPT ![c] = obj]
      /\ UNCHANGED <<m_request_id, req_id, calls, result, m_task_count,
                     rsp, wire, inbox, dpc, dmsg, dobj, io, closer>>
  BY <1>1 DEF TypeOK, post_async, Goto, InCall, dispVars
<1>3. TypeOK' /\ Numbered'
  <2>1. \A d \in Callers : InCall(d)' <=> async'[d] # Nil
    BY <1>2 DEF TypeOK, InCall
  <2>. QED BY <1>2, <2>1 DEF IInv, TypeOK, Numbered
<1>4. /\ \A k \in Call : (HasId(k)' <=> HasId(k)) /\ (Posted(k)' <=> Posted(k) \/ k = k0)
      /\ HasId(k0) /\ ~Posted(k0)
  BY <1>1, <1>2 DEF TypeOK, HasId, Posted, Call
<1>5. \A d \in Callers : current(d)' = current(d)
  BY <1>2 DEF current
<1>6. /\ m_task_count[obj] = 1 /\ req_id[obj] = i0
      /\ obj = k0 \/ Posted(obj)
      /\ obj = k0 => m_async_manager[i0] = Nil
      /\ obj # k0 => m_async_manager[i0] = obj
  <2>1. CASE m_async_manager[i0] = Nil
    BY <1>1, <1>4, <2>1 DEF IInv, FreshRuns
  <2>2. CASE m_async_manager[i0] # Nil
    BY <1>1, <1>4, <2>2 DEF IInv, EntriesWaitedFor
  <2>. QED BY <2>1, <2>2
<1>7. IdsRead' /\ FreshRuns' /\ FinishedOnce'
  BY <1>2, <1>4 DEF IInv, IdsRead, FreshRuns, FinishedOnce, TypeOK
<1>8. EntriesWaitedFor'
  <2>1. ASSUME NEW i \in Id, m_async_manager'[i] # Nil, i # i0
        PROVE  /\ m_async_manager'[i] = m_async_manager[i]
               /\ \E d \in Callers : async'[d] = m_async_manager[i]
                                    /\ req_id'[current(d)'] = i
    <3>1. m_async_manager'[i] = m_async_manager[i] /\ m_async_manager[i] \in Call
      BY <1>2, <2>1 DEF TypeOK
    <3>2. PICK d \in Callers : async[d] = m_async_manager[i] /\ req_id[current(d)] = i
      BY <2>1, <3>1 DEF IInv, EntriesWaitedFor
    <3>3. d # c BY <1>2, <3>1, <3>2
    <3>4. async'[d] = m_async_manager[i] /\ req_id'[current(d)'] = i
      BY <1>2, <1>5, <3>2, <3>3 DEF TypeOK
    <3>. QED BY <3>1, <3>4
  <2>2. m_async_manager'[i0] = obj /\ async'[c] = obj /\ req_id'[current(c)'] = i0
    BY <1>1, <1>2, <1>5 DEF TypeOK
  <2>3. ASSUME NEW i \in Id, NEW k \in Call, m_async_manager'[i] = k
        PROVE  Posted(k)' /\ req_id'[k] = i /\ m_task_count'[k] = 1
    <3>1. CASE i = i0 BY <1>2, <1>4, <1>6, <2>2, <2>3, <3>1
    <3>2. CASE i # i0
      <4>1. m_async_manager[i] = k BY <2>1, <2>3, <3>2
      <4>. QED BY <1>2, <1>4, <4>1 DEF IInv, EntriesWaitedFor
    <3>. QED BY <3>1, <3>2
  <2>4. \A i \in Id : m_async_manager'[i] # Nil => m_async_manager'[i] \in Call
    BY <1>3 DEF TypeOK
  <2>. QED BY <2>1, <2>2, <2>3, <2>4 DEF EntriesWaitedFor
<1>9. WaitsOnOwnId'
  <2>1. ASSUME NEW d \in Callers, NEW k \in Call, NEW j \in Call,
               async'[d] = j, current(d)' = k
        PROVE  Posted(k)' /\ Posted(j)' /\ req_id'[j] = req_id'[k]
    <3>1. CASE d = c
      <4>1. j = obj /\ k = k0 BY <1>1, <1>2, <1>5, <2>1, <3>1 DEF TypeOK
      <4>. QED BY <1>1, <1>2, <1>4, <1>6, <4>1
    <3>2. CASE d # c
      <4>1. async[d] = j /\ current(d) = k
        BY <1>2, <1>5, <2>1, <3>2 DEF TypeOK
      <4>. QED BY <1>2, <1>4, <4>1 DEF IInv, WaitsOnOwnId
    <3>. QED BY <3>1, <3>2
  <2>2. \A d \in Callers : async'[d] # Nil => async'[d] \in Call /\ current(d)' \in Call
    BY <1>1, <1>2, <1>3, <1>5 DEF TypeOK, InCall
  <2>. QED BY <2>1, <2>2 DEF WaitsOnOwnId
<1>10. PacketsCarryIds' /\ DispatcherOwns'
  <2>1. PacketsCarryIds'
    BY <1>2, <1>4 DEF IInv, PacketsCarryIds, CarriesId
  <2>2. dpc \in {"decode", "finish"} => dobj # obj
    BY <1>2, <1>4, <1>6 DEF IInv, DispatcherOwns
  <2>. QED BY <1>2, <1>4, <2>1, <2>2 DEF IInv, TypeOK, CarriesId, DispatcherOwns
<1>11. FinishedHasResponse' /\ OkSawFinished'
  BY <1>2, <1>4 DEF IInv, FinishedHasResponse, OkSawFinished
<1>. QED BY <1>3, <1>7, <1>8, <1>9, <1>10, <1>11 DEF IInv

\* async_send(), and the steps into and out of the wait: the caller moves on,
\* and the wire may get its request.
LEMMA MovesOn ==
  ASSUME IInv, NEW c \in Callers,
         async_send(c) \/ timed_wait(c) \/ timed_wait_spurious(c)
  PROVE  IInv'
<1>. USE ClientConstants, NilAssumption, Typed
<1>. DEFINE k0 == current(c)
            packet == [id |-> req_id[k0], call |-> k0]
<1>0. /\ InCall(c) /\ pc[c] \notin {"idle", "added", "post"}
      /\ k0 \in Call /\ k0 = <<c, calls[c]>> /\ packet \in Packet
      /\ wire' \subseteq wire \cup {packet}
      /\ UNCHANGED <<m_request_id, m_async_manager, req_id, async, calls, result,
                     m_task_count, rsp, inbox, dpc, dmsg, dobj, io, closer>>
  BY DEF IInv, TypeOK, async_send, timed_wait, timed_wait_spurious, Goto, Numbered, Id,
         InCall, dispVars, current, Packet
<1>1. PICK l \in {"monitor", "wait", "woken", "crash"} : pc' = [pc EXCEPT ![c] = l]
  BY DEF async_send, timed_wait, timed_wait_spurious, Goto
<1>2. TypeOK' /\ Numbered'
  <2>1. \A d \in Callers : InCall(d)' <=> async'[d] # Nil
    BY <1>0, <1>1 DEF TypeOK, InCall
  <2>. QED BY <1>0, <1>1, <2>1 DEF IInv, TypeOK, Numbered
<1>3. /\ \A k \in Call : (HasId(k)' <=> HasId(k)) /\ (Posted(k)' <=> Posted(k))
      /\ HasId(k0)
  BY <1>0, <1>1 DEF TypeOK, HasId, Posted, Call
<1>4. \A d \in Callers : current(d)' = current(d)
  BY <1>0 DEF current
<1>5. IdsRead' /\ FreshRuns' /\ FinishedOnce' /\ FinishedHasResponse' /\ OkSawFinished'
  BY <1>0, <1>3 DEF IInv, IdsRead, FreshRuns, FinishedOnce, FinishedHasResponse, OkSawFinished
<1>6. EntriesWaitedFor' /\ WaitsOnOwnId'
  <2>1. \A d \in Callers : async[d] # Nil => current(d) \in Call
    BY DEF TypeOK, InCall
  <2>. QED BY <1>0, <1>3, <1>4, <2>1 DEF IInv, EntriesWaitedFor, WaitsOnOwnId
<1>7. PacketsCarryIds' /\ DispatcherOwns'
  <2>1. \A p \in wire : CarriesId(p) BY DEF IInv, PacketsCarryIds
  <2>2. packet.id = req_id[packet.call] /\ HasId(packet.call) /\ packet.call = k0
    BY <1>3
  <2>. HIDE DEF packet, k0
  <2>. QED BY <1>0, <1>3, <2>1, <2>2 DEF IInv, PacketsCarryIds, CarriesId, DispatcherOwns
<1>. QED BY <1>2, <1>5, <1>6, <1>7 DEF IInv

\* The monitor's verdict: ok only after it was finished.
LEMMA VerdictGiven ==
  ASSUME IInv, NEW c \in Callers,
         timed_wait_now(c) \/ timed_wait_timeout(c) \/ timed_wait_woken(c)
  PROVE  IInv'
<1>. USE ClientConstants, NilAssumption, Typed
<1>. DEFINE k0 == current(c)
<1>0. PICK r \in {"ok", "fail", "timeout"} :
        Verdict(c, r) /\ (r = "ok" => m_task_count[async[c]] = 0)
  BY DEF timed_wait_now, timed_wait_timeout, timed_wait_woken, Counted
<1>1. /\ InCall(c) /\ pc[c] \notin {"idle", "added", "post"}
      /\ k0 \in Call /\ k0 = <<c, calls[c]>> /\ async[c] \in Call
      /\ result' = [result EXCEPT ![k0] = r]
      /\ UNCHANGED <<m_request_id, m_async_manager, req_id, calls, wire,
                     m_task_count, rsp, inbox, dpc, dmsg, dobj, io, closer>>
  BY <1>0 DEF IInv, TypeOK, Verdict, timed_wait_now, timed_wait_timeout, timed_wait_woken,
              InCall, dispVars, current
<1>2. \/ /\ r = "ok" /\ pc' = [pc EXCEPT ![c] = "idle"] /\ async' = [async EXCEPT ![c] = Nil]
      \/ /\ r # "ok" /\ pc' = [pc EXCEPT ![c] = "pop"] /\ async' = async
  BY <1>0 DEF Verdict, Goto
<1>. HIDE DEF k0
<1>3. TypeOK' /\ Numbered'
  <2>1. \A d \in Callers : InCall(d)' <=> async'[d] # Nil
    BY <1>1, <1>2 DEF TypeOK, InCall
  <2>2. result' \in [Call -> {"none", "ok", "fail", "timeout"}]
    BY <1>1 DEF TypeOK
  <2>3. /\ pc' \in [Callers -> {"idle", "added", "post", "send", "monitor", "wait",
                                "woken", "pop", "crash"}]
        /\ async' \in [Callers -> Call \cup {Nil}]
    BY <1>2 DEF TypeOK
  <2>. QED BY <1>1, <1>2, <2>1, <2>2, <2>3 DEF IInv, TypeOK, Numbered
<1>4. \A k \in Call : (HasId(k)' <=> HasId(k)) /\ (Posted(k)' <=> Posted(k))
  BY <1>1, <1>2 DEF TypeOK, HasId, Posted, Call
<1>5. \A d \in Callers : current(d)' = current(d)
  BY <1>1 DEF current
<1>6. IdsRead' /\ FreshRuns' /\ FinishedOnce' /\ FinishedHasResponse'
  BY <1>1, <1>4 DEF IInv, IdsRead, FreshRuns, FinishedOnce, FinishedHasResponse
<1>7. OkSawFinished'
  <2>1. r = "ok" => /\ Posted(k0) /\ m_task_count[async[c]] = 0
                    /\ req_id[async[c]] = req_id[k0]
    BY <1>0, <1>1 DEF IInv, WaitsOnOwnId, k0
  <2>. QED BY <1>1, <1>4, <2>1 DEF IInv, TypeOK, OkSawFinished
<1>8. WaitsOnOwnId'
  <2>1. \A d \in Callers : async'[d] # Nil => async'[d] = async[d] /\ current(d) \in Call
    BY <1>2 DEF TypeOK, InCall
  <2>. QED BY <1>1, <1>4, <1>5, <2>1 DEF IInv, WaitsOnOwnId
<1>9. EntriesWaitedFor'
  <2>1. ASSUME NEW i \in Id, m_async_manager[i] # Nil
        PROVE  \E d \in Callers : async'[d] = m_async_manager[i] /\ req_id[current(d)] = i
    <3>1. PICK d \in Callers : async[d] = m_async_manager[i] /\ req_id[current(d)] = i
      BY <2>1 DEF IInv, EntriesWaitedFor
    <3>2. m_task_count[async[d]] = 1
      BY <2>1, <3>1 DEF IInv, EntriesWaitedFor
    <3>3. d = c => r # "ok" BY <1>0, <3>2
    <3>4. async'[d] = async[d] BY <1>2, <3>3 DEF TypeOK
    <3>. QED BY <3>1, <3>4
  <2>. QED BY <1>1, <1>4, <1>5, <2>1 DEF IInv, EntriesWaitedFor
<1>10. PacketsCarryIds' /\ DispatcherOwns'
  BY <1>1, <1>4 DEF IInv, PacketsCarryIds, CarriesId, DispatcherOwns
<1>. QED BY <1>3, <1>6, <1>7, <1>8, <1>9, <1>10 DEF IInv

\* The call takes what stands under its id, be it its own or another's.
LEMMA PopAsync ==
  ASSUME IInv, NEW c \in Callers, pop_async(c)
  PROVE  IInv'
<1>. USE ClientConstants, NilAssumption, Typed
<1>. DEFINE k0 == current(c)
<1>0. /\ InCall(c) /\ pc[c] = "pop" /\ k0 \in Call /\ req_id[k0] \in Id
      /\ m_async_manager' = [m_async_manager EXCEPT ![req_id[k0]] = Nil]
      /\ async' = [async EXCEPT ![c] = Nil] /\ pc' = [pc EXCEPT ![c] = "idle"]
      /\ UNCHANGED <<m_request_id, req_id, calls, result, wire,
                     m_task_count, rsp, inbox, dpc, dmsg, dobj, io, closer>>
  BY DEF IInv, TypeOK, pop_async, Goto, InCall, dispVars
<1>1. TypeOK' /\ Numbered'
  <2>1. \A d \in Callers : InCall(d)' <=> async'[d] # Nil
    BY <1>0 DEF TypeOK, InCall
  <2>. QED BY <1>0, <2>1 DEF IInv, TypeOK, Numbered
<1>2. \A k \in Call : (HasId(k)' <=> HasId(k)) /\ (Posted(k)' <=> Posted(k))
  BY <1>0 DEF TypeOK, HasId, Posted, Call
<1>3. \A d \in Callers : current(d)' = current(d)
  BY <1>0 DEF current
<1>4. IdsRead' /\ FreshRuns' /\ FinishedOnce' /\ FinishedHasResponse' /\ OkSawFinished'
  BY <1>0, <1>2 DEF IInv, IdsRead, FreshRuns, FinishedOnce, FinishedHasResponse, OkSawFinished
<1>5. WaitsOnOwnId'
  <2>1. \A d \in Callers : async'[d] # Nil => async'[d] = async[d] /\ current(d) \in Call
    BY <1>0 DEF TypeOK, InCall
  <2>. QED BY <1>0, <1>2, <1>3, <2>1 DEF IInv, WaitsOnOwnId
<1>6. EntriesWaitedFor'
  <2>1. ASSUME NEW i \in Id, m_async_manager'[i] # Nil
        PROVE  /\ m_async_manager'[i] = m_async_manager[i]
               /\ \E d \in Callers : async'[d] = m_async_manager[i] /\ req_id[current(d)] = i
    <3>1. i # req_id[k0] /\ m_async_manager'[i] = m_async_manager[i]
      BY <1>0, <2>1 DEF TypeOK
    <3>2. PICK d \in Callers : async[d] = m_async_manager[i] /\ req_id[current(d)] = i
      BY <2>1, <3>1 DEF IInv, EntriesWaitedFor
    <3>3. d # c BY <3>1, <3>2
    <3>. QED BY <1>0, <3>1, <3>2, <3>3 DEF TypeOK
  <2>. QED BY <1>0, <1>2, <1>3, <2>1 DEF IInv, EntriesWaitedFor
<1>7. PacketsCarryIds' /\ DispatcherOwns'
  BY <1>0, <1>2 DEF IInv, PacketsCarryIds, CarriesId, DispatcherOwns, TypeOK
<1>. QED BY <1>1, <1>4, <1>5, <1>6, <1>7 DEF IInv

-----------------------------------------------------------------------------
(* The steps of the server, the io thread and close() *)

\* Steps that touch neither the callers nor the table, the monitors and the
\* responses leave the part of the invariant that is about those.
CallersKept == UNCHANGED <<m_request_id, m_async_manager, pc, calls, req_id, async, result,
                           m_task_count, rsp>>

\* What a step of the dispatcher or the io thread keeps if it leaves the callers alone.
LEMMA Kept ==
  ASSUME IInv, CallersKept
  PROVE  /\ FinishedOnce' /\ Numbered' /\ IdsRead' /\ EntriesWaitedFor' /\ FreshRuns'
         /\ WaitsOnOwnId' /\ FinishedHasResponse' /\ OkSawFinished'
         /\ \A k : (HasId(k)' <=> HasId(k)) /\ (Posted(k)' <=> Posted(k))
<1>1. /\ \A k : (HasId(k)' <=> HasId(k)) /\ (Posted(k)' <=> Posted(k))
      /\ \A d \in Callers : current(d)' = current(d)
  BY DEF CallersKept, HasId, Posted, current
<1>2. FinishedOnce' /\ Numbered' /\ IdsRead' /\ FreshRuns'
  BY <1>1 DEF IInv, CallersKept, FinishedOnce, Numbered, IdsRead, FreshRuns
<1>3. EntriesWaitedFor' /\ WaitsOnOwnId'
  BY <1>1 DEF IInv, CallersKept, EntriesWaitedFor, WaitsOnOwnId
<1>4. FinishedHasResponse' /\ OkSawFinished'
  BY <1>1 DEF IInv, CallersKept, FinishedHasResponse, OkSawFinished
<1>. QED BY <1>1, <1>2, <1>3, <1>4

\* A packet leaves the wire, for the dispatcher's queue or for good.
LEMMA PacketMoves ==
  ASSUME IInv, NEW p \in wire, on_read(p) \/ Lose(p)
  PROVE  IInv'
<1>. USE ClientConstants, NilAssumption, Typed
<1>0. /\ CallersKept /\ wire' = wire \ {p} /\ p \in Packet
      /\ inbox' = inbox \/ inbox' = Append(inbox, p)
      /\ UNCHANGED <<dpc, dmsg, dobj, io, closer>>
  BY DEF TypeOK, on_read, Lose, CallersKept, callerVars, dispVars
<1>1. TypeOK'
  <2>1. inbox \in Seq(Packet) /\ wire \subseteq Packet BY DEF TypeOK
  <2>2. inbox' \in Seq(Packet) /\ wire' \subseteq Packet BY <1>0, <2>1
  <2>3. \A d \in Callers : InCall(d)' <=> async'[d] # Nil
    BY <1>0 DEF CallersKept, TypeOK, InCall
  <2>. QED BY <1>0, <2>2, <2>3 DEF CallersKept, TypeOK
<1>2. PacketsCarryIds'
  <2>1. CarriesId(p) /\ \A q : CarriesId(q) => CarriesId(q)'
    BY <1>0, Kept DEF IInv, PacketsCarryIds, CarriesId, CallersKept
  <2>2. \A i \in 1..Len(inbox)' : CarriesId(inbox'[i])
    <3>1. CASE inbox' = inbox BY <1>0, <3>1 DEF IInv, PacketsCarryIds
    <3>2. CASE inbox' = Append(inbox, p)
      <4>1. inbox \in Seq(Packet) BY DEF TypeOK
      <4>2. \A i \in 1..Len(inbox') : (i \in 1..Len(inbox) /\ inbox'[i] = inbox[i]) \/ inbox'[i] = p
        BY <1>0, <3>2, <4>1
      <4>. QED BY <2>1, <4>2 DEF IInv, PacketsCarryIds
    <3>. QED BY <1>0, <3>1, <3>2
  <2>3. \A q \in wire' : CarriesId(q)
    BY <1>0 DEF IInv, PacketsCarryIds
  <2>. QED BY <2>1, <2>2, <2>3 DEF PacketsCarryIds
<1>3. DispatcherOwns'
  BY <1>0, Kept DEF IInv, DispatcherOwns, CarriesId, CallersKept
<1>. QED BY <1>0, <1>1, <1>2, <1>3, Kept DEF IInv

\* The io thread, the closing thread and the end of the dispatcher.
LEMMA Elsewhere ==
  ASSUME IInv,
         \/ on_timer \/ on_timer_locked \/ io_end
         \/ close \/ close_worker \/ close_dispatcher \/ dispatch_end
         \/ UNCHANGED vars
  PROVE  IInv'
<1>. USE ClientConstants, NilAssumption, Typed
<1>0. /\ CallersKept /\ UNCHANGED <<wire, inbox, dmsg, dobj>>
      /\ dpc' = dpc \/ dpc' = "ended"
      /\ io' \in {"run", "lock", "ended"}
      /\ closer' \in {"open", "worker", "dispatcher", "closed"}
  BY DEF TypeOK, on_timer, on_timer_locked, io_end, IoOnly, close, close_worker,
         close_dispatcher, CloseStep, dispatch_end, CallersKept, callerVars, dispVars, vars
<1>1. TypeOK'
  BY <1>0 DEF CallersKept, TypeOK, InCall
<1>2. PacketsCarryIds' /\ DispatcherOwns'
  BY <1>0, Kept DEF IInv, PacketsCarryIds, DispatcherOwns, CarriesId, CallersKept
<1>. QED BY <1>0, <1>1, <1>2, Kept DEF IInv

-----------------------------------------------------------------------------
(* The steps of the dispatcher *)

\* The dispatcher takes a response of the connection that is, or drops one.
LEMMA DispatchBegin ==
  ASSUME IInv, dispatch_begin \/ dispatch_drop
  PROVE  IInv'
<1>. USE ClientConstants, NilAssumption, Typed
<1>0. /\ CallersKept /\ inbox # <<>> /\ inbox \in Seq(Packet) /\ inbox' = Tail(inbox)
      /\ \/ dmsg' = Head(inbox) /\ dpc' = "pop"
         \/ dmsg' = Nil /\ dpc' = "idle"
      /\ UNCHANGED <<wire, dobj, io, closer>>
  BY DEF TypeOK, dispatch_begin, dispatch_drop, dispatch, CallersKept, callerVars
<1>1. /\ Head(inbox) = inbox[1] /\ 1 \in 1..Len(inbox) /\ Head(inbox) \in Packet
      /\ Tail(inbox) \in Seq(Packet)
      /\ \A i \in 1..Len(Tail(inbox)) : Tail(inbox)[i] = inbox[i + 1] /\ i + 1 \in 1..Len(inbox)
  BY <1>0
<1>2. TypeOK'
  BY <1>0, <1>1 DEF CallersKept, TypeOK, InCall
<1>3. /\ \A i \in 1..Len(inbox) : CarriesId(inbox[i])
      /\ \A p \in wire : CarriesId(p)
      /\ \A q : CarriesId(q) => CarriesId(q)'
  BY <1>0, Kept DEF IInv, PacketsCarryIds, CarriesId, CallersKept
<1>4. PacketsCarryIds' /\ DispatcherOwns'
  <2>1. \A i \in 1..Len(inbox') : CarriesId(inbox'[i])
    BY <1>0, <1>1, <1>3
  <2>2. PacketsCarryIds' BY <1>0, <1>3, <2>1 DEF PacketsCarryIds
  <2>3. dpc' = "pop" => dmsg' # Nil /\ CarriesId(dmsg')
    BY <1>0, <1>1, <1>3
  <2>4. dpc' = "pop" => CarriesId(dmsg)'
    BY <1>0, <2>3, Kept DEF CarriesId, CallersKept
  <2>. QED BY <1>0, <2>2, <2>3, <2>4 DEF DispatcherOwns
<1>. QED BY <1>0, <1>2, <1>4, Kept DEF IInv

\* The dispatcher takes an entry, or finds none.
LEMMA DispatchPop ==
  ASSUME IInv, dispatch_pop
  PROVE  IInv'
<1>. USE ClientConstants, NilAssumption, Typed
<1>1. dpc = "pop" /\ dmsg # Nil /\ CarriesId(dmsg) /\ dmsg \in Packet /\ dmsg.id \in Id
  BY DEF dispatch_pop, IInv, DispatcherOwns
<1>2. PICK i0 \in Id, obj \in Call \cup {Nil} : i0 = dmsg.id /\ obj = m_async_manager[i0]
  BY <1>1 DEF TypeOK
<1>3. /\ m_async_manager' = [m_async_manager EXCEPT ![i0] = Nil]
      /\ dobj' = obj
      /\ obj = Nil => dpc' = "idle" /\ dmsg' = Nil
      /\ obj # Nil => dpc' = "decode" /\ dmsg' = dmsg
      /\ UNCHANGED <<m_request_id, pc, calls, req_id, async, result, m_task_count, rsp,
                     wire, inbox, io, closer>>
  BY <1>2 DEF dispatch_pop, callerVars
<1>4. TypeOK'
  BY <1>1, <1>3 DEF TypeOK, InCall
<1>5. /\ \A k : (HasId(k)' <=> HasId(k)) /\ (Posted(k)' <=> Posted(k))
      /\ \A d \in Callers : current(d)' = current(d)
  BY <1>3 DEF HasId, Posted, current
<1>6. obj # Nil => /\ obj \in Call /\ Posted(obj) /\ m_task_count[obj] = 1
                   /\ req_id[obj] = i0
  BY <1>2 DEF IInv, EntriesWaitedFor
<1>7. FinishedOnce' /\ Numbered' /\ IdsRead' /\ FreshRuns' /\ WaitsOnOwnId'
      /\ FinishedHasResponse' /\ OkSawFinished'
  BY <1>3, <1>5 DEF IInv, FinishedOnce, Numbered, IdsRead, FreshRuns, WaitsOnOwnId,
                    FinishedHasResponse, OkSawFinished
<1>8. \A i \in Id : m_async_manager'[i] # Nil => m_async_manager'[i] = m_async_manager[i] /\ i # i0
  BY <1>3 DEF TypeOK
<1>9. EntriesWaitedFor'
  BY <1>3, <1>5, <1>8 DEF IInv, EntriesWaitedFor
<1>10. PacketsCarryIds'
  BY <1>3, <1>5 DEF IInv, PacketsCarryIds, CarriesId
<1>11. DispatcherOwns'
  <2>1. CASE obj = Nil BY <1>3, <2>1 DEF DispatcherOwns
  <2>2. CASE obj # Nil
    <3>1. \A i \in Id : m_async_manager'[i] # obj
      BY <1>6, <1>8, <2>2 DEF IInv, EntriesWaitedFor
    <3>2. CarriesId(dmsg)' BY <1>1, <1>3, <1>5, <2>2 DEF CarriesId
    <3>. QED BY <1>1, <1>2, <1>3, <1>5, <1>6, <2>2, <3>1, <3>2 DEF DispatcherOwns
  <2>. QED BY <2>1, <2>2
<1>. QED BY <1>4, <1>7, <1>9, <1>10, <1>11 DEF IInv

\* The codec of the entry's call is given the response.
LEMMA DispatchDecode ==
  ASSUME IInv, dispatch_decode
  PROVE  IInv'
<1>. USE ClientConstants, NilAssumption, Typed
<1>1. /\ dpc = "decode" /\ dmsg # Nil /\ CarriesId(dmsg) /\ dmsg \in Packet
      /\ dmsg.call \in Call /\ dobj \in Call /\ m_task_count[dobj] = 1
  BY DEF dispatch_decode, IInv, DispatcherOwns
<1>2. PICK k0 \in Call, ans \in Answer :
        k0 = dobj /\ ans.call = dmsg.call /\ rsp' = [rsp EXCEPT ![k0] = ans]
  <2>1. PICK good \in {TRUE, ~BadResponses} :
          rsp' = [rsp EXCEPT ![dobj] = [call |-> dmsg.call, decoded |-> good]]
    BY DEF dispatch_decode
  <2>. QED BY <1>1, <2>1 DEF Answer
<1>3. /\ dpc' = "finish"
      /\ UNCHANGED <<m_request_id, m_async_manager, pc, calls, req_id, async, result,
                     m_task_count, wire, inbox, dmsg, dobj, io, closer>>
  BY DEF dispatch_decode, callerVars
<1>4. TypeOK'
  BY <1>2, <1>3 DEF TypeOK, InCall
<1>5. /\ \A k : (HasId(k)' <=> HasId(k)) /\ (Posted(k)' <=> Posted(k))
      /\ \A d \in Callers : current(d)' = current(d)
  BY <1>3 DEF HasId, Posted, current
<1>6. FinishedOnce' /\ Numbered' /\ IdsRead' /\ FreshRuns' /\ WaitsOnOwnId'
      /\ EntriesWaitedFor' /\ OkSawFinished'
  BY <1>3, <1>5 DEF IInv, FinishedOnce, Numbered, IdsRead, FreshRuns, WaitsOnOwnId,
                    EntriesWaitedFor, OkSawFinished
<1>7. \A k \in Call : k # dobj => rsp'[k] = rsp[k]
  BY <1>2 DEF TypeOK
<1>8. FinishedHasResponse'
  BY <1>1, <1>3, <1>5, <1>7 DEF IInv, FinishedHasResponse
<1>9. PacketsCarryIds'
  BY <1>3, <1>5 DEF IInv, PacketsCarryIds, CarriesId
<1>10. DispatcherOwns'
  <2>1. rsp'[dobj] # Nil /\ rsp'[dobj].call = dmsg.call
    BY <1>2 DEF TypeOK
  <2>. QED BY <1>1, <1>3, <1>5, <2>1 DEF IInv, DispatcherOwns, CarriesId
<1>. QED BY <1>4, <1>6, <1>8, <1>9, <1>10 DEF IInv

\* The dispatcher finishes the monitor it owns.
LEMMA FinishOne ==
  ASSUME IInv, finish_one
  PROVE  IInv'
<1>. USE ClientConstants, NilAssumption, Typed
<1>1. /\ dpc = "finish" /\ dmsg # Nil /\ CarriesId(dmsg) /\ dmsg \in Packet
      /\ dobj \in Call /\ m_task_count[dobj] = 1 /\ Posted(dobj)
      /\ req_id[dobj] = dmsg.id /\ rsp[dobj] # Nil /\ rsp[dobj].call = dmsg.call
      /\ \A i \in Id : m_async_manager[i] # dobj
  BY DEF finish_one, IInv, DispatcherOwns
<1>2. /\ m_task_count' = [m_task_count EXCEPT ![dobj] = 0]
      /\ pc' \in [Callers -> {"idle", "added", "post", "send", "monitor", "wait",
                              "woken", "pop", "crash"}]
      /\ \A d \in Callers : pc'[d] = pc[d] \/ (pc[d] = "wait" /\ pc'[d] = "woken")
      /\ dpc' = "idle" /\ dmsg' = Nil /\ dobj' = Nil
      /\ UNCHANGED <<m_request_id, m_async_manager, calls, req_id, async, result,
                     rsp, wire, inbox, io, closer>>
  BY <1>1 DEF finish_one, TypeOK
<1>3. TypeOK'
  <2>1. \A d \in Callers : InCall(d)' <=> async'[d] # Nil
    BY <1>2 DEF TypeOK, InCall
  <2>2. m_task_count' \in [Call -> Int]
    <3>1. m_task_count \in [Call -> Int] BY DEF TypeOK
    <3>. QED BY <1>1, <1>2, <3>1
  <2>. QED BY <1>2, <2>1, <2>2 DEF TypeOK
<1>4. /\ \A k \in Call : (HasId(k)' <=> HasId(k)) /\ (Posted(k)' <=> Posted(k))
      /\ \A d \in Callers : current(d)' = current(d)
  BY <1>2 DEF HasId, Posted, current, Call
<1>5. Numbered' /\ IdsRead'
  BY <1>2, <1>4 DEF IInv, Numbered, IdsRead
<1>6. \A d \in Callers : async[d] # Nil => current(d) \in Call
  BY DEF TypeOK, InCall
<1>7. WaitsOnOwnId'
  BY <1>2, <1>4, <1>6 DEF IInv, WaitsOnOwnId
<1>8. \A k \in Call : m_task_count'[k] = IF k = dobj THEN 0 ELSE m_task_count[k]
  BY <1>1, <1>2 DEF TypeOK
<1>9. FinishedOnce' /\ FreshRuns'
  BY <1>1, <1>4, <1>8 DEF IInv, FinishedOnce, FreshRuns
<1>10. EntriesWaitedFor'
  BY <1>1, <1>2, <1>4, <1>8 DEF IInv, EntriesWaitedFor
<1>11. FinishedHasResponse'
  <2>1. HasId(rsp[dobj].call) /\ req_id[rsp[dobj].call] = req_id[dobj]
    BY <1>1 DEF CarriesId
  <2>. QED BY <1>1, <1>2, <1>4, <1>8, <2>1 DEF IInv, FinishedHasResponse
<1>12. OkSawFinished'
  BY <1>2, <1>4, <1>8 DEF IInv, OkSawFinished
<1>13. PacketsCarryIds' /\ DispatcherOwns'
  BY <1>2, <1>4 DEF IInv, PacketsCarryIds, CarriesId, DispatcherOwns
<1>. QED BY <1>3, <1>5, <1>7, <1>9, <1>10, <1>11, <1>12, <1>13 DEF IInv

-----------------------------------------------------------------------------
(* Theorems *)

\* The invariant holds in every reachable state of the calls and the
\* dispatcher.
THEOREM Inductive == Spec => []IInv
<1>1. IInv /\ [Next]_vars => IInv'
  <2>. SUFFICES ASSUME IInv, [Next]_vars PROVE IInv'
    OBVIOUS
  <2>1. CASE \E c \in Callers : request_add(c) \/ CallerStep(c) \/ timed_wait_spurious(c)
    BY <2>1, RequestAdd, RequestRead, PostAsync, MovesOn, VerdictGiven, PopAsync
       DEF CallerStep
  <2>2. CASE DispatchStep
    BY <2>2, DispatchBegin, DispatchPop, DispatchDecode, FinishOne, Elsewhere
       DEF DispatchStep
  <2>3. CASE \E p \in wire : on_read(p) \/ Lose(p)
    BY <2>3, PacketMoves
  <2>4. CASE \/ on_timer \/ on_timer_locked \/ io_end
             \/ close \/ close_worker \/ close_dispatcher \/ UNCHANGED vars
    BY <2>4, Elsewhere
  <2>. QED BY <2>1, <2>2, <2>3, <2>4 DEF Next
<1>. QED BY Start, <1>1, PTL DEF Spec

\* Types, and that exactly a caller inside request() past post_async() holds an
\* AsyncRequest.
THEOREM TypeCorrect == Spec => []TypeOK
<1>1. IInv => TypeOK BY DEF IInv
<1>. QED BY <1>1, Inductive, PTL

\* The dispatcher and the callers both pop entries, but a monitor is finished
\* at most once (handle_client_context and pop_async).
THEOREM FinishedAtMostOnce == Spec => []FinishedOnce
<1>1. IInv => FinishedOnce BY DEF IInv
<1>. QED BY <1>1, Inductive, PTL

\* m_async_manager does not leak: post_async() and the two pop_async() leave no
\* entry without a caller that waits for it.
THEOREM NothingLeaks == Spec => []NoOrphanEntry
<1>1. IInv => NoOrphanEntry BY DEF IInv, EntriesWaitedFor, NoOrphanEntry
<1>. QED BY <1>1, Inductive, PTL

\* request() that returns ok under an id of its own has had its own response,
\* in whatever order responses came.
THEOREM OkIsAnswered == Spec => []OkMeansAnswered
<1>1. IInv => OkMeansAnswered
  <2>. SUFFICES ASSUME IInv, NEW k \in Call, result[k] = "ok", Unshared(k)
                PROVE  rsp[k] # Nil /\ rsp[k].call = k
    BY DEF OkMeansAnswered
  <2>1. PICK j \in Call : m_task_count[j] = 0 /\ req_id[j] = req_id[k]
    BY DEF IInv, OkSawFinished
  <2>2. j = k BY <2>1 DEF Unshared
  <2>3. rsp[k] # Nil /\ req_id[rsp[k].call] = req_id[k]
    BY <2>1, <2>2 DEF IInv, FinishedHasResponse
  <2>4. rsp[k].call \in Call BY <2>3, Typed
  <2>. QED BY <2>3, <2>4 DEF Unshared
<1>. QED BY <1>1, Inductive, PTL

=============================================================================
