---------------------------- MODULE Subscription ----------------------------
(***************************************************************************)
(* The lists that link topics and subscribers (thread/topic/Subscription.h) *)
(* and the ordered locks that guard them (thread/Mutex.h).  A subscription  *)
(* is a node of two lists, its topic's and its subscriber's; it keeps the    *)
(* address of the pointer to it in each, so that it can take itself out.    *)
(*                                                                         *)
(* A pointer variable that may point to a node is a Cell: the head of a     *)
(* list, a node's next, or a thread's local variable.  What a thread has    *)
(* still to do is a sequence of operations; locking and unlocking are       *)
(* operations, and so is the work done between two of them.                 *)
(***************************************************************************)
EXTENDS Integers, Sequences, FiniteSets

CONSTANTS
  Topics, Subscribers,
  Nodes,      \* bound: subscriptions made
  Threads,    \* threads that call the operations
  Calls,      \* thread -> the calls it makes
  MaxCalls,   \* bound: calls, all threads together
  Before,     \* subscriptions there are at first: <<node, topic, subscriber>>
  Addresses,  \* how the mutexes may lie in memory: functions to integers
  Nil

Mutexes == Topics \cup Subscribers
CallNames == {"subscribe", "unsubscribe", "unsubscribe_all", "publish", "clear", "erase_topic"}
Head_(x) == <<"head", x>>             \* m_topic_subscriber_head.m_head, m_subscriber_topic_head
TopicNext(n) == <<"topic next", n>>   \* m_topic_subscriber_next
SubNext(n) == <<"sub next", n>>       \* m_subscriber_topic_next
Local(t) == <<"local", t>>            \* the variable `node' of a call
Cell == {Head_(x) : x \in Mutexes} \cup {TopicNext(n) : n \in Nodes}
        \cup {SubNext(n) : n \in Nodes} \cup {Local(t) : t \in Threads}

ASSUME SubscriptionAssumption ==
  /\ Topics \cap Subscribers = {}
  /\ IsFiniteSet(Nodes) /\ IsFiniteSet(Threads)
  /\ Nil \notin Mutexes /\ Nil \notin Nodes /\ Nil \notin Threads /\ Nil \notin Cell
  /\ MaxCalls \in Nat
  /\ Calls \in [Threads -> SUBSET CallNames]
  /\ Before \in Seq(Nodes \X Topics \X Subscribers)
  /\ \A i, j \in DOMAIN Before : Before[i][1] = Before[j][1] => i = j
  /\ \A a \in Addresses : \A m, n \in Mutexes : a[m] = a[n] => m = n

VARIABLES
  addr,    \* mutex -> its address
  owner,   \* mutex -> [by, depth]: the thread that has it, and how often
  mem,     \* the nodes and the lists: see Init
  todo,    \* thread -> the operations left of its call
  calls,   \* number of calls so far
  met,     \* nodes the publish thread met on a walk that had no subscriber
  known    \* "tail": a node was linked behind one no longer in the list; "moved on":
           \* clear() or unsubscribe_all() erased another node than it has locked

vars == <<addr, owner, mem, todo, calls, met, known>>

-----------------------------------------------------------------------------
(* Subscription: its methods on the lists *)

add_topic_subscriber(m, n, topic) ==
  LET at == IF m.ptr[Head_(topic)] = Nil THEN Head_(topic) ELSE TopicNext(m.m_tail[topic])
  IN  [m EXCEPT !.ptr[at] = n, !.topic_prev[n] = at, !.m_tail[topic] = n]

add_subscriber_topic(m, n, sub) ==
  LET head == m.ptr[Head_(sub)]
  IN  [m EXCEPT
        !.subscriber_prev = [x \in Nodes |-> IF x = n THEN Head_(sub)
                                             ELSE IF x = head THEN SubNext(n) ELSE @[x]],
        !.ptr[SubNext(n)] = head, !.ptr[Head_(sub)] = n]

reserve_subscribe(m, n, topic, sub) ==
  add_subscriber_topic(add_topic_subscriber(
    [m EXCEPT !.m_topic[n] = topic, !.m_subscriber[n] = sub], n, topic), n, sub)

erase_subscriber_topic(m, n) ==
  LET next == m.ptr[SubNext(n)] prev == m.subscriber_prev[n]
  IN  [m EXCEPT !.ptr[prev] = next,
                !.subscriber_prev = [x \in Nodes |-> IF x = next THEN prev ELSE @[x]],
                !.m_topic[n] = Nil]

\* Fault: the next node keeps its way back.
erase_topic_subscriber_one(m, n) ==
  [m EXCEPT !.ptr[m.topic_prev[n]] = m.ptr[TopicNext(n)], !.m_subscriber[n] = Nil]
\* Fault: the node stays in the list.
erase_topic_subscriber_left(m, n) == [m EXCEPT !.m_subscriber[n] = Nil]
\* The tail stays.
erase_topic_subscriber(m, n) ==
  LET next == m.ptr[TopicNext(n)] prev == m.topic_prev[n]
  IN  [m EXCEPT !.ptr[prev] = next,
                !.topic_prev = [x \in Nodes |-> IF x = next THEN prev ELSE @[x]],
                !.m_subscriber[n] = Nil]

\* Fault: threads about to erase the node are not told.
unsubscribe_untold(m, n) == erase_topic_subscriber(erase_subscriber_topic(m, n), n)
\* unsubscribe(): the local variables of threads about to erase it are cleared.
unsubscribe(m, n) ==
  erase_topic_subscriber(erase_subscriber_topic(
    [m EXCEPT !.ptr = [c \in Cell |-> IF c \in m.m_erasing_nodes[n] THEN Nil ELSE @[c]]],
    n), n)

Empty ==
  [ptr |-> [c \in Cell |-> Nil],
   topic_prev |-> [n \in Nodes |-> Nil], subscriber_prev |-> [n \in Nodes |-> Nil],
   m_tail |-> [t \in Topics |-> Nil],
   m_topic |-> [n \in Nodes |-> Nil], m_subscriber |-> [n \in Nodes |-> Nil],
   m_erasing_nodes |-> [n \in Nodes |-> {}]]

\* The subscriptions there are at first, made one after the other.
AtFirst ==
  LET made[i \in 0..Len(Before)] ==
        IF i = 0 THEN Empty
        ELSE reserve_subscribe(made[i - 1], Before[i][1], Before[i][2], Before[i][3])
  IN  made[Len(Before)]

Init ==
  /\ addr \in Addresses
  /\ owner = [x \in Mutexes |-> [by |-> Nil, depth |-> 0]]
  /\ mem = AtFirst
  /\ todo = [t \in Threads |-> <<>>]
  /\ calls = 0 /\ met = {} /\ known = {}

-----------------------------------------------------------------------------
(* Mutexes: critical sections, which a thread may enter again *)

Does(t, name) == todo[t] # <<>> /\ todo[t][1][1] = name
Arg(t, i) == todo[t][1][i]
\* The call goes on with ops in place of its first operation.
Goes(t, ops) == todo' = [todo EXCEPT ![t] = ops \o Tail(@)]

Available(m, t) == owner[m].by \in {Nil, t}
Taken(m, t) == [owner EXCEPT ![m] = [by |-> t, depth |-> @.depth + 1]]

lock(t) ==
  /\ Does(t, "lock") /\ Available(Arg(t, 2), t)
  /\ owner' = Taken(Arg(t, 2), t)
  /\ Goes(t, <<>>)
  /\ UNCHANGED <<addr, mem, calls, met, known>>

unlock(t) ==
  /\ Does(t, "unlock")
  /\ LET m == Arg(t, 2)
     IN  owner' = [owner EXCEPT ![m] = IF @.depth = 1 THEN [by |-> Nil, depth |-> 0]
                                       ELSE [by |-> @.by, depth |-> @.depth - 1]]
  /\ Goes(t, <<>>)
  /\ UNCHANGED <<addr, mem, calls, met, known>>

\* OrderLock: the lower address first.
OrderLock(m1, m2) ==
  IF addr[m1] < addr[m2] THEN <<<<"lock", m1>>, <<"lock", m2>> >>
                         ELSE <<<<"lock", m2>>, <<"lock", m1>> >>

\* Fault: no regard to the order.
OrderRelock_plain(t) ==
  /\ Does(t, "relock")
  /\ Goes(t, <<<<"lock", Arg(t, 3)>> >>)
  /\ UNCHANGED <<addr, owner, mem, calls, met, known>>
\* Fault: m1 is not locked again.
OrderRelock_half(t) ==
  /\ Does(t, "relock")
  /\ LET m1 == Arg(t, 2) m2 == Arg(t, 3)
     IN  IF addr[m1] < addr[m2] \/ Available(m2, t) THEN Goes(t, <<<<"lock", m2>> >>)
         ELSE Goes(t, <<<<"unlock", m1>>, <<"lock", m2>> >>)
  /\ UNCHANGED <<addr, owner, mem, calls, met, known>>
\* OrderRelock of m1, which is held, and m2: against the order m2 is tried, and
\* if it is taken, m1 is unlocked and both are locked in order.
OrderRelock(t) ==
  /\ Does(t, "relock")
  /\ LET m1 == Arg(t, 2) m2 == Arg(t, 3)
     IN  \/ /\ addr[m1] < addr[m2]
            /\ Goes(t, <<<<"lock", m2>> >>) /\ UNCHANGED owner
         \/ /\ addr[m1] > addr[m2] /\ Available(m2, t)
            /\ owner' = Taken(m2, t) /\ Goes(t, <<>>)
         \/ /\ addr[m1] > addr[m2] /\ ~Available(m2, t)
            /\ Goes(t, <<<<"unlock", m1>>, <<"lock", m2>>, <<"lock", m1>> >>)
            /\ UNCHANGED owner
  /\ UNCHANGED <<addr, mem, calls, met, known>>

-----------------------------------------------------------------------------
(* What the calls do between locking and unlocking *)

\* The nodes of a list: the fewest that hold the first and the next of each.
Chain(m, first, next(_)) ==
  {n \in Nodes : \A X \in SUBSET Nodes :
     /\ m.ptr[first] \in X \cup {Nil}
     /\ \A x \in X : m.ptr[next(x)] \in X \cup {Nil}
     => n \in X}
InTopic(m, topic) == Chain(m, Head_(topic), TopicNext)
InSubscriber(m, sub) == Chain(m, Head_(sub), SubNext)

\* Subscriber::has_topic(), of Topic::reserve_subscribe().
has_topic(t) ==
  /\ Does(t, "has_topic")
  /\ LET topic == Arg(t, 2) sub == Arg(t, 3)
     IN  Goes(t, IF \E n \in InSubscriber(mem, sub) : mem.m_topic[n] = topic THEN <<<<"unlock", sub>> >>
                 ELSE <<<<"unlock", sub>> >> \o OrderLock(topic, sub) \o
                      <<<<"link", topic, sub>>, <<"unlock", topic>>, <<"unlock", sub>> >>)
  /\ UNCHANGED <<addr, owner, mem, calls, met, known>>

\* Where a topic's list begins: clear() has it begin in its own variable.
FirstOf(topic) ==
  LET clearing == {t \in Threads : \E i \in DOMAIN todo[t] : todo[t][i] = <<"clear_next", topic>>}
  IN  IF clearing = {} THEN Head_(topic) ELSE Local(CHOOSE t \in clearing : TRUE)

New == {n \in Nodes : mem.topic_prev[n] = Nil}
link(t) ==
  /\ Does(t, "link")
  /\ LET topic == Arg(t, 2) sub == Arg(t, 3) n == CHOOSE x \in New : TRUE
     IN  /\ mem' = reserve_subscribe(mem, n, topic, sub)
         /\ known' = IF n \in Chain(mem', FirstOf(topic), TopicNext) THEN known ELSE known \cup {"tail"}
  /\ Goes(t, <<>>)
  /\ UNCHANGED <<addr, owner, calls, met>>

\* Subscriber::unsubscribe(topic): finds the node, and asks to be told if
\* another thread erases it while the locks are put in order.
find(t) ==
  /\ Does(t, "find")
  /\ LET topic == Arg(t, 2) sub == Arg(t, 3)
         found == {n \in InSubscriber(mem, sub) : mem.m_topic[n] = topic}
     IN  IF found = {} THEN Goes(t, <<>>) /\ UNCHANGED mem
         ELSE \E n \in found :
           /\ mem' = [mem EXCEPT !.ptr[Local(t)] = n, !.m_erasing_nodes[n] = @ \cup {Local(t)}]
           /\ Goes(t, <<<<"relock", sub, topic>>, <<"erase", Local(t), n>>, <<"unlock", topic>> >>)
  /\ UNCHANGED <<addr, owner, calls, met, known>>

\* The node that the pointer leads to by now, if it is not null.
erase(t) ==
  /\ Does(t, "erase")
  /\ LET n == mem.ptr[Arg(t, 2)]
     IN  /\ mem' = IF n = Nil THEN mem ELSE unsubscribe(mem, n)
         /\ known' = IF n \in {Nil, Arg(t, 3)} THEN known ELSE known \cup {"moved on"}
  /\ Goes(t, <<>>)
  /\ UNCHANGED <<addr, owner, calls, met>>

\* Subscriber::unsubscribe_all(): erases its first node until there is none.
all(t) ==
  /\ Does(t, "all")
  /\ LET sub == Arg(t, 2) n == mem.ptr[Head_(sub)]
     IN  Goes(t, IF n = Nil THEN <<>>
                 ELSE <<<<"relock", sub, mem.m_topic[n]>>, <<"erase", Head_(sub), n>>,
                        <<"unlock", mem.m_topic[n]>>, <<"all", sub>> >>)
  /\ UNCHANGED <<addr, owner, mem, calls, met, known>>

\* Topic::clear(): its local variable takes the place of the head, and so goes
\* on to the next node when the first is erased, by whichever thread.
clear(t) ==
  /\ Does(t, "clear")
  /\ LET topic == Arg(t, 2) n == mem.ptr[Head_(topic)]
     IN  IF n = Nil THEN Goes(t, <<>>) /\ UNCHANGED mem
         ELSE /\ mem' = [mem EXCEPT !.ptr[Local(t)] = n, !.topic_prev[n] = Local(t)]
              /\ Goes(t, <<<<"clear_next", topic>> >>)
  /\ UNCHANGED <<addr, owner, calls, met, known>>

clear_next(t) ==
  /\ Does(t, "clear_next")
  /\ LET topic == Arg(t, 2) n == mem.ptr[Local(t)]
     IN  IF n = Nil
         THEN /\ mem' = [mem EXCEPT !.ptr[Head_(topic)] = Nil, !.m_tail[topic] = Nil]
              /\ Goes(t, <<>>)
         ELSE /\ Goes(t, <<<<"relock", topic, mem.m_subscriber[n]>>, <<"erase", Local(t), n>>,
                           <<"unlock", mem.m_subscriber[n]>>, <<"clear_next", topic>> >>)
              /\ UNCHANGED mem
  /\ UNCHANGED <<addr, owner, calls, met, known>>

\* publish_new(): the walk over the topic's subscribers.
walk(t) ==
  /\ Does(t, "walk")
  /\ met' = met \cup {n \in InTopic(mem, Arg(t, 2)) : mem.m_subscriber[n] = Nil}
  /\ Goes(t, <<>>)
  /\ UNCHANGED <<addr, owner, mem, calls, known>>

-----------------------------------------------------------------------------
Under(m, ops) == <<<<"lock", m>> >> \o ops \o <<<<"unlock", m>> >>
\* The calls; publish_erase_topic() has the topic's mutex, and clear() has it again.
Ops(call, topic, sub) ==
  CASE call = "subscribe" -> <<<<"lock", sub>>, <<"has_topic", topic, sub>> >>
    [] call = "unsubscribe" -> Under(sub, <<<<"find", topic, sub>> >>)
    [] call = "unsubscribe_all" -> Under(sub, <<<<"all", sub>> >>)
    [] call = "publish" -> Under(topic, <<<<"walk", topic>> >>)
    [] call = "clear" -> Under(topic, <<<<"clear", topic>> >>)
    [] call = "erase_topic" ->
         Under(topic, <<<<"walk", topic>> >> \o Under(topic, <<<<"clear", topic>> >>))

Linking == {t \in Threads : \E i \in DOMAIN todo[t] : todo[t][i][1] \in {"has_topic", "link"}}
Begin(t) ==
  /\ todo[t] = <<>> /\ calls < MaxCalls
  /\ \E call \in Calls[t], topic \in Topics, sub \in Subscribers :
       /\ call = "subscribe" => Cardinality(Linking) < Cardinality(New)
       /\ todo' = [todo EXCEPT ![t] = Ops(call, topic, sub)]
  /\ calls' = calls + 1
  /\ UNCHANGED <<addr, owner, mem, met, known>>

Step(t) ==
  \/ lock(t) \/ unlock(t) \/ OrderRelock(t)
  \/ has_topic(t) \/ link(t) \/ find(t) \/ erase(t) \/ all(t)
  \/ clear(t) \/ clear_next(t) \/ walk(t)

Next == \E t \in Threads : Begin(t) \/ Step(t)

Spec == Init /\ [][Next]_vars
\* Threads run, and get a mutex that is free.
FairSpec == Spec /\ \A t \in Threads : WF_vars(Step(t))

-----------------------------------------------------------------------------
(* Properties *)

TypeOK ==
  /\ \A m \in Mutexes : owner[m].by \in Threads \cup {Nil} /\ (owner[m].by = Nil <=> owner[m].depth = 0)
  /\ mem.ptr \in [Cell -> Nodes \cup {Nil}]
  /\ {mem.topic_prev, mem.subscriber_prev} \subseteq [Nodes -> Cell \cup {Nil}]
  /\ mem.m_topic \in [Nodes -> Topics \cup {Nil}]
  /\ mem.m_subscriber \in [Nodes -> Subscribers \cup {Nil}]
  /\ calls \in 0..MaxCalls

\* The nodes of a topic whose mutex nobody has are those in its list, and each
\* knows the pointer that leads to it, so that it can be taken out; and the
\* same for its subscriber's list.
ListsAgree ==
  known = {} =>
    \A topic \in Topics : owner[topic].by = Nil =>
      LET listed == Chain(mem, FirstOf(topic), TopicNext)
      IN  /\ listed = {n \in Nodes : mem.m_topic[n] = topic}
          /\ \A n \in listed :
               /\ mem.ptr[mem.topic_prev[n]] = n
               /\ owner[mem.m_subscriber[n]].by = Nil =>
                    /\ n \in InSubscriber(mem, mem.m_subscriber[n])
                    /\ mem.ptr[mem.subscriber_prev[n]] = n

\* The publish thread, which has the topic's mutex only, never comes to a
\* node whose subscriber has been taken from it.
MeetsSubscribed == known # {} \/ met = {}

\* A node is linked and unlinked by a thread that has both its topic's mutex
\* and its subscriber's.
BothLocked ==
  [][known' = {} => \A n \in Nodes : mem.m_topic[n] # mem'.m_topic[n] =>
       \E t \in Threads, topic \in {mem.m_topic[n], mem'.m_topic[n]} \ {Nil},
          sub \in {mem.m_subscriber[n], mem'.m_subscriber[n]} \ {Nil} :
         owner[topic].by = t /\ owner[sub].by = t]_vars

\* However the mutexes lie in memory, every call comes to its end.
CallsReturn == \A t \in Threads : todo[t] # <<>> ~> todo[t] = <<>>

(* What comments say and the code does not do *)

\* Subscription.h:211, "add subscriber to this topic": a subscriber is in a topic once.
SubscribedOnce ==
  \A n, o \in Nodes : n # o /\ mem.m_topic[n] # Nil =>
    <<mem.m_topic[n], mem.m_subscriber[n]>> # <<mem.m_topic[o], mem.m_subscriber[o]>>

=============================================================================
