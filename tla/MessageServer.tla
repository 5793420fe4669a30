---------------------------- MODULE MessageServer ----------------------------
(***************************************************************************)
(* The message server of thread/MessageServer.h: a MessageQueue, a pool of  *)
(* worker threads that pop and handle messages (work()), producer threads   *)
(* that post, and the thread that owns the server and calls run(), stop()   *)
(* and release() ("this function is not thread safe": one owner).           *)
(***************************************************************************)
EXTENDS MessageQueue

CONSTANTS
  MaxRuns,              \* bound: calls of run()
  ReleaseWhenClosed     \* may release() be called on a queue already closed?

ASSUME ServerConstants == MaxRuns \in Nat /\ ReleaseWhenClosed \in BOOLEAN

VARIABLES
  wpc,       \* worker -> "off", "pop", "handle" or "exited" (not yet joined)
  owner,     \* the owner: "idle", or "join" inside ThreadPool::join()
  sent,      \* producer -> how many messages it has sent
  taken,     \* history: the messages popped, in order
  runs       \* bound: calls of run() so far

serverVars == <<wpc, owner, sent, taken, runs>>
vars == <<queueVars, serverVars>>

Init ==
  /\ QueueInit
  /\ wpc = [w \in Workers |-> "off"]
  /\ owner = "idle"
  /\ sent = [p \in Producers |-> 0]
  /\ taken = <<>>
  /\ runs = 0

-----------------------------------------------------------------------------
(* Producers *)

NewMsg(p, k) == [src |-> p, num |-> sent[p] + 1, key |-> k]

\* post() and post_value() of the server.
Post(p) ==
  /\ pending[p] = NoMsg /\ sent[p] < MaxPosts
  /\ sent' = [sent EXCEPT ![p] = @ + 1]
  /\ post(p, NewMsg(p, NoKey))
  /\ UNCHANGED <<wpc, owner, taken, runs>>

\* post_unique() and post_unique_value() of the server.
PostUnique(p, k) ==
  /\ pending[p] = NoMsg /\ sent[p] < MaxPosts
  /\ sent' = [sent EXCEPT ![p] = @ + 1]
  /\ post_unique(p, NewMsg(p, k))
  /\ UNCHANGED <<wpc, owner, taken, runs>>

\* A producer back from m_full_cond_var.wait() goes round the loop again.
PostResume(p) ==
  /\ pending[p] # NoMsg /\ p \notin full_wait
  /\ post(p, pending[p])
  /\ UNCHANGED serverVars

-----------------------------------------------------------------------------
(* Workers: work() *)

Popping(w) == wpc[w] = "pop" /\ w \notin empty_wait

WorkTake(w) ==
  /\ Popping(w)
  /\ pop_true(w)
  /\ taken' = Append(taken, Head(m_deque))
  /\ wpc' = [wpc EXCEPT ![w] = "handle"]
  /\ UNCHANGED <<owner, sent, runs>>

WorkWait(w) ==
  /\ Popping(w)
  /\ pop_wait(w)
  /\ UNCHANGED serverVars

WorkExit(w) ==
  /\ Popping(w)
  /\ pop_false(w)
  /\ wpc' = [wpc EXCEPT ![w] = "exited"]
  /\ UNCHANGED <<owner, sent, taken, runs>>

\* Fault: an error of the handler ends the worker.
WorkHandled_throw(w) ==
  /\ wpc[w] = "handle"
  /\ \E s \in {"pop", "exited"} : wpc' = [wpc EXCEPT ![w] = s]
  /\ UNCHANGED <<queueVars, owner, sent, taken, runs>>
\* The handler returned, or threw an error that work() caught and logged.
WorkHandled(w) ==
  /\ wpc[w] = "handle"
  /\ wpc' = [wpc EXCEPT ![w] = "pop"]
  /\ UNCHANGED <<queueVars, owner, sent, taken, runs>>

-----------------------------------------------------------------------------
(* The owner *)

\* run(): opens the queue and adds threads to the pool, at least one.
Run(ws) ==
  /\ owner = "idle" /\ runs < MaxRuns
  /\ runs' = runs + 1
  /\ open
  /\ wpc' = [w \in Workers |-> IF w \in ws THEN "pop" ELSE wpc[w]]
  /\ UNCHANGED <<m_deque, full_wait, empty_wait, pending, dropped, owner, sent, taken>>

\* stop(), which is also the destructor: close the queue, then join.
Stop ==
  /\ owner = "idle"
  /\ close
  /\ owner' = "join"
  /\ UNCHANGED <<wpc, sent, taken, runs>>

\* release(): clear and close the queue, then join.
Release ==
  /\ owner = "idle"
  /\ is_close => ReleaseWhenClosed
  /\ release
  /\ owner' = "join"
  /\ UNCHANGED <<wpc, sent, taken, runs>>

\* ThreadPool::join() returns once every thread has ended, and drops them.
Join ==
  /\ owner = "join"
  /\ \A w \in Workers : wpc[w] \in {"off", "exited"}
  /\ owner' = "idle"
  /\ wpc' = [w \in Workers |-> "off"]
  /\ UNCHANGED <<queueVars, sent, taken, runs>>

-----------------------------------------------------------------------------
Next ==
  \/ \E p \in Producers :
       Post(p) \/ PostResume(p) \/ \E k \in Keys : PostUnique(p, k)
  \/ \E w \in Workers :
       WorkTake(w) \/ WorkWait(w) \/ WorkExit(w) \/ WorkHandled(w)
  \/ \E ws \in SUBSET {w \in Workers : wpc[w] = "off"} : ws # {} /\ Run(ws)
  \/ Stop \/ Release \/ Join
  \/ SpuriousWake /\ UNCHANGED serverVars

(***************************************************************************)
(* A runnable thread runs again and takes a free mutex, and handlers        *)
(* return.  Nothing makes a producer send, the owner call a method, or a    *)
(* wait end spuriously.                                                     *)
(***************************************************************************)
Fairness ==
  /\ \A p \in Producers : WF_vars(PostResume(p))
  /\ \A w \in Workers : WF_vars(WorkTake(w) \/ WorkWait(w) \/ WorkExit(w) \/ WorkHandled(w))
  /\ WF_vars(Join)

Spec == Init /\ [][Next]_vars
FairSpec == Spec /\ Fairness

-----------------------------------------------------------------------------
(* Properties *)

Range_(s) == {s[i] : i \in 1..Len(s)}

\* Types, and who can be waiting for what.
TypeOK ==
  /\ m_deque \in Seq(Message) /\ taken \in Seq(Message)
  /\ m_state \in {"ok", "none"}
  /\ pending \in [Producers -> Message \cup {NoMsg}]
  /\ full_wait \subseteq {p \in Producers : pending[p] # NoMsg}
  /\ wpc \in [Workers -> {"off", "pop", "handle", "exited"}]
  /\ empty_wait \subseteq {w \in Workers : wpc[w] = "pop"}
  /\ dropped \subseteq Message
  /\ owner \in {"idle", "join"}
  /\ sent \in [Producers -> 0..MaxPosts]
  /\ runs \in 0..MaxRuns

\* The queue never holds more than its capacity, whoever posts after a wait:
\* is_full() tests for equality, so one message too many would unbound it.
CapacityBound == Len(m_deque) <= m_capacity

\* Every message sent is in exactly one place - carried by a poster, queued,
\* popped, or dropped by post_unique()/release() - and was popped at most once.
ExactlyOnce ==
  /\ \A i, j \in 1..Len(taken) : taken[i] = taken[j] => i = j
  /\ \A i, j \in 1..Len(m_deque) : m_deque[i] = m_deque[j] => i = j
  /\ Range_(taken) \cap Queued = {}
  /\ (Range_(taken) \cup Queued) \cap dropped = {}
  /\ \A p \in Producers : \A n \in 1..sent[p] :
       \/ \E m \in Range_(taken) \cup Queued \cup dropped : m.src = p /\ m.num = n
       \/ pending[p] # NoMsg /\ pending[p].num = n
  /\ \A p \in Producers : pending[p] # NoMsg =>
       pending[p] \notin Range_(taken) \cup Queued \cup dropped

Ready == {w \in Workers : wpc[w] = "pop"} \ empty_wait
Reposting == {p \in Producers : pending[p] # NoMsg} \ full_wait

\* No lost wake-up in pop(): while a worker sleeps on the empty queue, every
\* queued message has a worker awake that is about to look at the queue.
NoStrandedMessage ==
  empty_wait # {} => Len(m_deque) <= Cardinality(Ready)

\* No lost wake-up in raw_post(): while a producer sleeps on the full queue,
\* every free slot has a producer awake that is about to try again.
NoStrandedPoster ==
  full_wait # {} => m_capacity - Len(m_deque) <= Cardinality(Reposting)

Serving == \E w \in Workers : wpc[w] \in {"pop", "handle"}

\* A queued message is popped (or dropped) as long as a worker is alive: also
\* after close(), workers leave only when they have emptied the queue.
EventuallyTaken ==
  \A p \in Producers : \A n \in 1..MaxPosts : \A k \in Keys \cup {NoKey} :
    LET m == [src |-> p, num |-> n, key |-> k]
    IN  (m \in Queued /\ Serving) ~> m \notin Queued

\* A producer blocked on the full queue gets its message in, as long as the
\* queue stays open with a worker alive.
EventuallyPosted ==
  \A p \in Producers :
    (pending[p] # NoMsg /\ Serving) ~> (pending[p] = NoMsg \/ is_close)

\* stop() and release() return: close() reaches every worker, awake or not.
StopReturns == owner = "join" ~> owner = "idle"

\* The server's queue implements a bounded first-in first-out channel.
Chan == INSTANCE Channel WITH
  Msg <- Message, Bound <- m_capacity, buf <- m_deque, out <- taken
ChannelSpec == Chan!Spec

-----------------------------------------------------------------------------
(* What the comments of MessageQueue.h say and the code does not do *)

\* "close message queue so that it stop to recv message" (line 64).
ClosedStopsReceiving == [][is_close => Len(m_deque') <= Len(m_deque)]_vars

\* "ensure that this message is unique" (line 95): no key is queued twice.
UniqueQueued ==
  \A i, j \in 1..Len(m_deque) :
    (m_deque[i].key = m_deque[j].key /\ m_deque[i].key # NoKey) => i = j

\* "notify all thread to exit message queue" (line 153): a closed queue lets
\* the threads blocked in post() go.
ClosedFreesPosters ==
  \A p \in Producers :
    (is_close /\ pending[p] # NoMsg) ~> (pending[p] = NoMsg \/ ~is_close)

=============================================================================
