------------------------- MODULE SubscriptionProofs -------------------------
(***************************************************************************)
(* Theorems about the lists of topics and subscribers, for any number of    *)
(* them, of threads, subscriptions and calls, and wherever the mutexes lie. *)
(***************************************************************************)
EXTENDS Subscription, FiniteSetTheorems, SequenceTheorems, TLAPS

\* One thread publishes, and erases topics: the publish thread of TopicServer.
Publishing == {"publish", "clear", "erase_topic"}
OnePublisher ==
  \A t, u \in Threads : Calls[t] \cap Publishing # {} /\ Calls[u] \cap Publishing # {} => t = u

-----------------------------------------------------------------------------
(* Where a thread is: what it has left to do and the mutexes it has *)

\* What there is to do: an operation, and then the rest.
x ** s == <<x>> \o s
Op ==
  ({"lock", "unlock", "all", "clear", "clear_next", "walk"} \X Mutexes)
  \cup ({"relock", "has_topic", "link", "find"} \X Mutexes \X Mutexes)
  \cup ({"erase"} \X Cell \X Nodes)

\* How often a thread has each mutex.
Depth(t) == [m \in Mutexes |-> IF owner[m].by = t THEN owner[m].depth ELSE 0]
None == [m \in Mutexes |-> 0]
Has(o, d) == [m \in Mutexes |-> IF m = o THEN d ELSE 0]
Both(o, d, p) == [m \in Mutexes |-> IF m = o THEN d ELSE IF m = p THEN 1 ELSE 0]

\* It is about to erase a node, to which the cell leads: it has `own', or is on
\* its way to have it d times again, and gets `other' for the erasure.
Erasing(own, d, other, c, n, rest, s, h) ==
  LET e == <<"erase", c, n>> ** (<<"unlock", other>> ** rest)
  IN  \/ s = <<"relock", own, other>> ** e /\ h = Has(own, d)
      \/ s = <<"lock", other>> ** e /\ h = Has(own, d)
      \/ s = <<"unlock", own>> ** (<<"lock", other>> ** (<<"lock", own>> ** e)) /\ h = Has(own, d)
      \/ s = <<"lock", other>> ** (<<"lock", own>> ** e) /\ h = Has(own, d - 1)
      \/ s = <<"lock", own>> ** e /\ h = Both(own, d - 1, other)
      \/ s = e /\ h = Both(own, d, other)

\* The four loops and calls that erase, and what each does afterwards.
Jobs == {"unsubscribe", "unsubscribe_all", "clear", "erase_topic"}
Own(job, topic, sub) == IF job \in {"clear", "erase_topic"} THEN topic ELSE sub
Other(job, topic, sub) == IF job \in {"clear", "erase_topic"} THEN sub ELSE topic
Times(job) == IF job = "erase_topic" THEN 2 ELSE 1
CellOf(job, t, sub) == IF job = "unsubscribe_all" THEN Head_(sub) ELSE Local(t)
Rest(job, topic, sub) ==
  CASE job = "unsubscribe" -> <<"unlock", sub>> ** <<>>
    [] job = "unsubscribe_all" -> <<"all", sub>> ** (<<"unlock", sub>> ** <<>>)
    [] job = "clear" -> <<"clear_next", topic>> ** (<<"unlock", topic>> ** <<>>)
    [] job = "erase_topic" ->
         <<"clear_next", topic>> ** (<<"unlock", topic>> ** (<<"unlock", topic>> ** <<>>))

Erases(t, job, topic, sub, n, s, h) ==
  Erasing(Own(job, topic, sub), Times(job), Other(job, topic, sub),
          CellOf(job, t, sub), n, Rest(job, topic, sub), s, h)

\* It has erased, or not, and goes on.
GoesOn(job, topic, sub, s, h) ==
  \/ /\ s = <<"unlock", Other(job, topic, sub)>> ** Rest(job, topic, sub)
     /\ h = Both(Own(job, topic, sub), Times(job), Other(job, topic, sub))
  \/ s = Rest(job, topic, sub) /\ h = Has(Own(job, topic, sub), Times(job))

\* It subscribes.
LinkThen(topic, sub) ==
  <<"link", topic, sub>> ** (<<"unlock", topic>> ** (<<"unlock", sub>> ** <<>>))
Subscribes(topic, sub, s, h) ==
  \/ s = <<"lock", sub>> ** (<<"has_topic", topic, sub>> ** <<>>) /\ h = None
  \/ s = <<"has_topic", topic, sub>> ** <<>> /\ h = Has(sub, 1)
  \/ \E a, b \in Mutexes :
       /\ (a = topic /\ b = sub) \/ (a = sub /\ b = topic)
       /\ \/ /\ s = <<"unlock", sub>> ** (<<"lock", a>> ** (<<"lock", b>> ** LinkThen(topic, sub)))
             /\ h = Has(sub, 1)
          \/ s = <<"lock", a>> ** (<<"lock", b>> ** LinkThen(topic, sub)) /\ h = None
          \/ s = <<"lock", b>> ** LinkThen(topic, sub) /\ h = Has(a, 1)
  \/ s = LinkThen(topic, sub) /\ h = Both(topic, 1, sub)

\* It is at the beginning of another call, or at the end of one.
Begins(t, topic, sub, s, h) ==
  \/ s = <<"lock", sub>> ** (<<"find", topic, sub>> ** (<<"unlock", sub>> ** <<>>)) /\ h = None
  \/ s = <<"find", topic, sub>> ** (<<"unlock", sub>> ** <<>>) /\ h = Has(sub, 1)
  \/ s = <<"lock", sub>> ** (<<"all", sub>> ** (<<"unlock", sub>> ** <<>>)) /\ h = None
Publishes(topic, s, h) ==
  LET clears == <<"clear", topic>> ** (<<"unlock", topic>> ** <<>>)
      erases == <<"clear", topic>> ** (<<"unlock", topic>> ** (<<"unlock", topic>> ** <<>>))
  IN  \/ s = <<"lock", topic>> ** (<<"walk", topic>> ** (<<"unlock", topic>> ** <<>>)) /\ h = None
      \/ s = <<"walk", topic>> ** (<<"unlock", topic>> ** <<>>) /\ h = Has(topic, 1)
      \/ s = <<"lock", topic>> ** clears /\ h = None
      \/ s = clears /\ h = Has(topic, 1)
      \/ s = <<"lock", topic>> ** (<<"walk", topic>> ** (<<"lock", topic>> ** erases)) /\ h = None
      \/ s = <<"walk", topic>> ** (<<"lock", topic>> ** erases) /\ h = Has(topic, 1)
      \/ s = <<"lock", topic>> ** erases /\ h = Has(topic, 1)
      \/ s = erases /\ h = Has(topic, 2)
      \/ s = <<"unlock", topic>> ** (<<"unlock", topic>> ** <<>>) /\ h = Has(topic, 2)
Ends(s, h) ==
  \/ s = <<>> /\ h = None
  \/ \E m \in Mutexes : s = <<"unlock", m>> ** <<>> /\ h = Has(m, 1)

-----------------------------------------------------------------------------
(* Lists *)

\* A list that begins at the cell `first' has these members: each knows the
\* cell that leads to it, and all can be reached.
Cells(next, first, M) == {first} \cup {next[n] : n \in M}
Closed(ptr, next, first, X) == ptr[first] \in X \cup {Nil} /\ \A x \in X : ptr[next[x]] \in X \cup {Nil}
List(ptr, prev, next, first, M) ==
  /\ \A c \in Cells(next, first, M) : ptr[c] # Nil => ptr[c] \in M /\ prev[ptr[c]] = c
  /\ \A n \in M : prev[n] \in Cells(next, first, M) /\ ptr[prev[n]] = n
  /\ \A X \in SUBSET Nodes : Closed(ptr, next, first, X) => M \subseteq X

TNext == [n \in Nodes |-> TopicNext(n)]
SNext == [n \in Nodes |-> SubNext(n)]
OfTopic(m, topic) == {n \in Nodes : m.m_topic[n] = topic}
OfSub(m, sub) == {n \in Nodes : m.m_subscriber[n] = sub}
Fresh(m) == {n \in Nodes : m.topic_prev[n] = Nil}
Locals == {Local(t) : t \in Threads}

Mem ==
  [ptr : [Cell -> Nodes \cup {Nil}],
   topic_prev : [Nodes -> Cell \cup {Nil}], subscriber_prev : [Nodes -> Cell \cup {Nil}],
   m_tail : [Topics -> Nodes \cup {Nil}],
   m_topic : [Nodes -> Topics \cup {Nil}], m_subscriber : [Nodes -> Subscribers \cup {Nil}],
   m_erasing_nodes : [Nodes -> SUBSET Locals]]

\* Where the topics' lists begin.
Firsts(first) ==
  /\ first \in [Topics -> Cell]
  /\ \A topic \in Topics : first[topic] \in {Head_(topic)} \cup Locals
  /\ \A a, b \in Topics : first[a] = first[b] => a = b

\* The lists, when those of the topics begin at these cells.
Linked(m, first) ==
  /\ m \in Mem /\ Firsts(first)
  /\ \A topic \in Topics : List(m.ptr, m.topic_prev, TNext, first[topic], OfTopic(m, topic))
  /\ \A sub \in Subscribers : List(m.ptr, m.subscriber_prev, SNext, Head_(sub), OfSub(m, sub))
  /\ \A n \in Nodes : m.m_topic[n] = Nil <=> m.m_subscriber[n] = Nil
  /\ \A n \in Fresh(m) : m.m_topic[n] = Nil /\ m.ptr[TopicNext(n)] = Nil /\ m.m_erasing_nodes[n] = {}
  \* A topic's tail, while it is in the list, is its last.
  /\ \A topic \in Topics : m.m_tail[topic] # Nil /\ m.m_topic[m.m_tail[topic]] = topic
                           => m.ptr[TopicNext(m.m_tail[topic])] = Nil

-----------------------------------------------------------------------------
(* The inductive invariant *)

Types ==
  /\ addr \in Addresses
  /\ owner \in [Mutexes -> [by : Threads \cup {Nil}, depth : Nat]]
  /\ \A m \in Mutexes : owner[m].by = Nil <=> owner[m].depth = 0
  /\ calls \in 0..MaxCalls /\ met = {}
  /\ todo \in [Threads -> Seq(Op)]

Live(m, n) == m.m_topic[n] # Nil
\* What a thread that is about to erase a node may rely on.
Was(m, n, topic, sub) ==
  n \notin Fresh(m) /\ m.m_topic[n] \in {topic, Nil} /\ m.m_subscriber[n] \in {sub, Nil}
\* unsubscribe() is told if another thread erases the node, and waits to be.
Told(m, t, n) ==
  /\ m.ptr[Local(t)] = IF Live(m, n) THEN n ELSE Nil
  /\ Live(m, n) => Local(t) \in m.m_erasing_nodes[n]

Clears(job) == job \in {"clear", "erase_topic"}
Publisher(t) == Calls[t] \cap Publishing # {}
\* A thread's place, and the list it clears.
Place(m, t, first, s, h) ==
  \/ Ends(s, h)
  \/ \E topic \in Topics, sub \in Subscribers :
       \/ Subscribes(topic, sub, s, h)
       \/ Begins(t, topic, sub, s, h)
       \/ Publisher(t) /\ Publishes(topic, s, h)
       \/ \E job \in Jobs :
            /\ GoesOn(job, topic, sub, s, h)
            /\ Clears(job) => Publisher(t) /\ first[topic] = Local(t)
       \/ \E job \in Jobs, n \in Nodes :
            /\ Erases(t, job, topic, sub, n, s, h)
            /\ Was(m, n, topic, sub)
            /\ Clears(job) => Publisher(t) /\ first[topic] = Local(t)
            /\ job = "unsubscribe" => Told(m, t, n)

\* The list of a topic begins in the thread that clears it, or at its head.
First == [topic \in Topics |-> FirstOf(topic)]

\* A node that is still linked knows those who are about to erase it, and they
\* are in unsubscribe().
ErasersKnown ==
  \A n \in Nodes : Live(mem, n) => \A t \in Threads : Local(t) \in mem.m_erasing_nodes[n] =>
    /\ mem.ptr[Local(t)] = n
    /\ \E topic \in Topics, sub \in Subscribers :
         Erases(t, "unsubscribe", topic, sub, n, todo[t], Depth(t))
\* There is a node for each thread that is to link one.
Room == Cardinality(Linking) <= Cardinality(New)

Sound ==
  /\ Types /\ Room
  /\ Linked(mem, First)
  /\ \A t \in Threads : Place(mem, t, First, todo[t], Depth(t))
  /\ ErasersKnown
IInv == known = {} => Sound

-----------------------------------------------------------------------------
(* Sequences of operations *)

\* An operation and the rest of a sequence.
LEMMA ThenIs ==
  \A x \in Op, r \in Seq(Op) :
    /\ x ** r \in Seq(Op) /\ x ** r # <<>>
    /\ Head(x ** r) = x /\ (x ** r)[1] = x /\ Tail(x ** r) = r
  BY DEF **

\* A sequence is empty or begins with an operation.
LEMMA ThenOrEmpty ==
  \A s \in Seq(Op) : s # <<>> => s[1] \in Op /\ Tail(s) \in Seq(Op) /\ s = s[1] ** Tail(s)
  BY DEF **

\* Sequences that are equal begin with the same operation and go on alike.
LEMMA ThenOne ==
  ASSUME NEW x \in Op, NEW y \in Op, NEW r \in Seq(Op), NEW s \in Seq(Op), x ** r = y ** s
  PROVE  x = y /\ r = s
<1>1. Head(x ** r) = x /\ Tail(x ** r) = r
  BY ThenIs
<1>2. Head(y ** s) = y /\ Tail(y ** s) = s
  BY ThenIs
<1> QED BY <1>1, <1>2

\* A sequence is its first operation and the rest.
LEMMA Front ==
  ASSUME NEW a \in Op, NEW r \in Seq(Op), NEW s \in Seq(Op), Len(s) = Len(r) + 1,
         s[1] = a, \A i \in 1..Len(r) : s[i + 1] = r[i]
  PROVE  s = a ** r
<1>1. a ** r \in Seq(Op) /\ Len(a ** r) = Len(r) + 1 /\ (a ** r)[1] = a
  BY DEF **
<1>2. \A i \in 1..Len(r) : (a ** r)[i + 1] = r[i]
  BY DEF **
<1>3. \A i \in 1..Len(s) : i = 1 \/ (i - 1 \in 1..Len(r) /\ i = (i - 1) + 1)
  OBVIOUS
<1>4. \A i \in 1..Len(s) : s[i] = (a ** r)[i]
  BY <1>1, <1>2, <1>3
<1> QED BY <1>1, <1>4, SeqEqual

\* Two operations.
LEMMA Tuple2 ==
  ASSUME NEW a \in Op, NEW b \in Op
  PROVE  <<a, b>> = a ** <<b>>
<1> DEFINE s == <<a, b>>
           r == <<b>>
<1>1. s \in Seq(Op) /\ Len(s) = 2 /\ s[1] = a /\ s[2] = b
  OBVIOUS
<1>2. r \in Seq(Op) /\ Len(r) = 1 /\ r[1] = b
  OBVIOUS
<1> HIDE DEF s, r
<1>3. \A i \in 1..1 : i = 1
  OBVIOUS
<1>4. \A i \in 1..Len(r) : s[i + 1] = r[i]
  BY <1>1, <1>2, <1>3
<1>5. Len(s) = Len(r) + 1 /\ s \in Seq(Op) /\ r \in Seq(Op) /\ s[1] = a
  BY <1>1, <1>2
<1>6. s = a ** r
  BY <1>4, <1>5, Front
<1> QED BY <1>6 DEF s, r

\* Three operations.
LEMMA Tuple3 ==
  ASSUME NEW a \in Op, NEW b \in Op, NEW c \in Op
  PROVE  <<a, b, c>> = a ** <<b, c>>
<1> DEFINE s == <<a, b, c>>
           r == <<b, c>>
<1>1. s \in Seq(Op) /\ Len(s) = 3 /\ s[1] = a /\ s[2] = b /\ s[3] = c
  OBVIOUS
<1>2. r \in Seq(Op) /\ Len(r) = 2 /\ r[1] = b /\ r[2] = c
  OBVIOUS
<1> HIDE DEF s, r
<1>3. \A i \in 1..2 : i = 1 \/ i = 2
  OBVIOUS
<1>4. \A i \in 1..Len(r) : s[i + 1] = r[i]
  BY <1>1, <1>2, <1>3
<1>5. Len(s) = Len(r) + 1 /\ s \in Seq(Op) /\ r \in Seq(Op) /\ s[1] = a
  BY <1>1, <1>2
<1>6. s = a ** r
  BY <1>4, <1>5, Front
<1> QED BY <1>6 DEF s, r

\* Four operations.
LEMMA Tuple4 ==
  ASSUME NEW a \in Op, NEW b \in Op, NEW c \in Op, NEW d \in Op
  PROVE  <<a, b, c, d>> = a ** <<b, c, d>>
<1> DEFINE s == <<a, b, c, d>>
           r == <<b, c, d>>
<1>1. s \in Seq(Op) /\ Len(s) = 4 /\ s[1] = a /\ s[2] = b /\ s[3] = c /\ s[4] = d
  OBVIOUS
<1>2. r \in Seq(Op) /\ Len(r) = 3 /\ r[1] = b /\ r[2] = c /\ r[3] = d
  OBVIOUS
<1> HIDE DEF s, r
<1>3. \A i \in 1..3 : i = 1 \/ i = 2 \/ i = 3
  OBVIOUS
<1>4. \A i \in 1..Len(r) : s[i + 1] = r[i]
  BY <1>1, <1>2, <1>3
<1>5. Len(s) = Len(r) + 1 /\ s \in Seq(Op) /\ r \in Seq(Op) /\ s[1] = a
  BY <1>1, <1>2
<1>6. s = a ** r
  BY <1>4, <1>5, Front
<1> QED BY <1>6 DEF s, r

\* Operations in front of a sequence.
LEMMA Shift ==
  ASSUME NEW s \in Seq(Op), NEW r \in Seq(Op), NEW a \in Op
  PROVE  (a ** r) \o s = a ** (r \o s)
  BY ConcatAssociative, <<a>> \in Seq(Op) DEF **

\* Several operations in front of a sequence, one after the other.
LEMMA Several ==
  ASSUME NEW s \in Seq(Op)
  PROVE  /\ <<>> \o s = s
         /\ \A a \in Op : <<a>> \o s = a ** s
         /\ \A a, b \in Op : <<a, b>> \o s = a ** (b ** s)
         /\ \A a, b, c \in Op : <<a, b, c>> \o s = a ** (b ** (c ** s))
         /\ \A a, b, c, d \in Op : <<a, b, c, d>> \o s = a ** (b ** (c ** (d ** s)))
<1>1. <<>> \o s = s
  OBVIOUS
<1>2. \A a \in Op : <<a>> \o s = a ** s
  BY DEF **
<1>3. ASSUME NEW a \in Op, NEW b \in Op PROVE <<a, b>> \o s = a ** (b ** s)
  BY Tuple2, <1>2, Shift, <<b>> \in Seq(Op)
<1>4. ASSUME NEW a \in Op, NEW b \in Op, NEW c \in Op PROVE <<a, b, c>> \o s = a ** (b ** (c ** s))
  <2>1. <<b, c>> \in Seq(Op)
    OBVIOUS
  <2>2. (a ** <<b, c>>) \o s = a ** (<<b, c>> \o s)
    BY <2>1, Shift
  <2> QED BY <2>2, <1>3, Tuple3
<1>5. ASSUME NEW a \in Op, NEW b \in Op, NEW c \in Op, NEW d \in Op
      PROVE  <<a, b, c, d>> \o s = a ** (b ** (c ** (d ** s)))
  <2>1. <<b, c, d>> \in Seq(Op)
    OBVIOUS
  <2>2. (a ** <<b, c, d>>) \o s = a ** (<<b, c, d>> \o s)
    BY <2>1, Shift
  <2>3. <<b, c, d>> \o s = b ** (c ** (d ** s))
    BY <1>4
  <2>4. <<a, b, c, d>> = a ** <<b, c, d>>
    BY Tuple4
  <2> QED BY <2>2, <2>3, <2>4
<1> QED BY <1>1, <1>2, <1>3, <1>4, <1>5

\* Which operations there are.
LEMMA Operations ==
  /\ \A m \in Mutexes :
       /\ <<"lock", m>> \in Op
       /\ <<"unlock", m>> \in Op
       /\ <<"all", m>> \in Op
       /\ <<"clear", m>> \in Op
       /\ <<"clear_next", m>> \in Op
       /\ <<"walk", m>> \in Op
  /\ \A m, o \in Mutexes :
       /\ <<"relock", m, o>> \in Op
       /\ <<"has_topic", m, o>> \in Op
       /\ <<"link", m, o>> \in Op
       /\ <<"find", m, o>> \in Op
  /\ \A c \in Cell, n \in Nodes : <<"erase", c, n>> \in Op
  BY DEF Op

\* Their names and arguments.
LEMMA Names ==
  /\ \A m :
       /\ <<"lock", m>>[1] = "lock" /\ <<"lock", m>>[2] = m
       /\ <<"unlock", m>>[1] = "unlock" /\ <<"unlock", m>>[2] = m
       /\ <<"all", m>>[1] = "all" /\ <<"all", m>>[2] = m
       /\ <<"clear", m>>[1] = "clear" /\ <<"clear", m>>[2] = m
       /\ <<"clear_next", m>>[1] = "clear_next" /\ <<"clear_next", m>>[2] = m
       /\ <<"walk", m>>[1] = "walk" /\ <<"walk", m>>[2] = m
  /\ \A m, o :
       /\ <<"relock", m, o>>[1] = "relock" /\ <<"relock", m, o>>[2] = m /\ <<"relock", m, o>>[3] = o
       /\ <<"has_topic", m, o>>[1] = "has_topic" /\ <<"has_topic", m, o>>[2] = m /\ <<"has_topic", m, o>>[3] = o
       /\ <<"link", m, o>>[1] = "link" /\ <<"link", m, o>>[2] = m /\ <<"link", m, o>>[3] = o
       /\ <<"find", m, o>>[1] = "find" /\ <<"find", m, o>>[2] = m /\ <<"find", m, o>>[3] = o
       /\ <<"erase", m, o>>[1] = "erase" /\ <<"erase", m, o>>[2] = m /\ <<"erase", m, o>>[3] = o
  OBVIOUS

\* An operation is known by its name.
LEMMA NameTells ==
  ASSUME NEW x \in Op
  PROVE  /\ x[1] \in {"lock", "unlock", "all", "clear", "clear_next", "walk"} =>
              x[2] \in Mutexes /\ x = <<x[1], x[2]>>
         /\ x[1] \in {"relock", "has_topic", "link", "find"} =>
              x[2] \in Mutexes /\ x[3] \in Mutexes /\ x = <<x[1], x[2], x[3]>>
         /\ x[1] = "erase" => x[2] \in Cell /\ x[3] \in Nodes /\ x = <<"erase", x[2], x[3]>>
  BY DEF Op

\* An operation occurs in a sequence.
Occurs(o, s) == \E i \in DOMAIN s : s[i] = o
\* It is the first or occurs in the rest.
LEMMA OccursIn ==
  ASSUME NEW o
  PROVE  /\ ~Occurs(o, <<>>)
         /\ \A x \in Op, s \in Seq(Op) : Occurs(o, x ** s) <=> o = x \/ Occurs(o, s)
<1>1. ~Occurs(o, <<>>)
  BY DEF Occurs
<1>2. ASSUME NEW x \in Op, NEW s \in Seq(Op), Occurs(o, x ** s)
      PROVE  o = x \/ Occurs(o, s)
  <2>1. PICK i \in 1..(Len(s) + 1) : (x ** s)[i] = o
    BY <1>2 DEF Occurs, **
  <2>2. CASE i = 1
    BY <2>1, <2>2, ThenIs
  <2>3. CASE i # 1
    <3>1. i - 1 \in 1..Len(s) /\ s[i - 1] = o
      BY <2>1, <2>3 DEF **
    <3> QED BY <3>1 DEF Occurs
  <2> QED BY <2>2, <2>3
<1>3. ASSUME NEW x \in Op, NEW s \in Seq(Op), o = x \/ Occurs(o, s)
      PROVE  Occurs(o, x ** s)
  <2>1. CASE o = x
    BY <2>1 DEF Occurs, **
  <2>2. CASE Occurs(o, s)
    <3>1. PICK i \in 1..Len(s) : s[i] = o
      BY <2>2 DEF Occurs
    <3>2. i + 1 \in 1..(Len(s) + 1) /\ (x ** s)[i + 1] = o
      BY <3>1 DEF **
    <3>3. i + 1 \in DOMAIN (x ** s)
      BY <3>2 DEF **
    <3> QED BY <3>2, <3>3 DEF Occurs
  <2> QED BY <1>3, <2>1, <2>2
<1> QED BY <1>1, <1>2, <1>3

-----------------------------------------------------------------------------
(* Taking and giving back a mutex leads from place to place *)

Plus(h, m) == [x \in Mutexes |-> IF x = m THEN h[x] + 1 ELSE h[x]]
Minus(h, m) == [x \in Mutexes |-> IF x = m THEN h[x] - 1 ELSE h[x]]

\* What a thread has afterwards.
LEMMA Counts ==
  ASSUME NEW o \in Mutexes, NEW p \in Mutexes, o # p, NEW d \in Nat \ {0}
  PROVE  /\ Plus(None, o) = Has(o, 1) /\ Plus(Has(o, d), o) = Has(o, d + 1)
         /\ Plus(Has(o, d), p) = Both(o, d, p)
         /\ Plus(Has(o, d - 1), p) = Both(o, d - 1, p)
         /\ Plus(Both(o, d - 1, p), o) = Both(o, d, p)
         /\ Plus(Has(p, 1), o) = Both(o, 1, p)
         /\ Has(o, d)[o] = d /\ Both(o, d, p)[o] = d /\ Both(o, d, p)[p] = 1
         /\ Minus(Has(o, d), o) = Has(o, d - 1) /\ Has(o, 0) = None
         /\ Minus(Both(o, d, p), p) = Has(o, d)
         /\ Minus(Both(o, 1, p), o) = Has(p, 1)
<1>1. Plus(None, o) = Has(o, 1)
  <2>1. \A x \in Mutexes : Plus(None, o)[x] = Has(o, 1)[x]
    BY DEF Has, None, Plus
  <2> QED BY <2>1 DEF Has, None, Plus
<1>2. Plus(Has(o, d), o) = Has(o, d + 1)
  <2>1. \A x \in Mutexes : Plus(Has(o, d), o)[x] = Has(o, d + 1)[x]
    BY DEF Has, Plus
  <2> QED BY <2>1 DEF Has, Plus
<1>3. Plus(Has(o, d), p) = Both(o, d, p)
  <2>1. \A x \in Mutexes : Plus(Has(o, d), p)[x] = Both(o, d, p)[x]
    BY DEF Both, Has, Plus
  <2> QED BY <2>1 DEF Both, Has, Plus
<1>4. Plus(Has(o, d - 1), p) = Both(o, d - 1, p)
  <2>1. \A x \in Mutexes : Plus(Has(o, d - 1), p)[x] = Both(o, d - 1, p)[x]
    BY DEF Both, Has, Plus
  <2> QED BY <2>1 DEF Both, Has, Plus
<1>5. Plus(Both(o, d - 1, p), o) = Both(o, d, p)
  <2>1. \A x \in Mutexes : Plus(Both(o, d - 1, p), o)[x] = Both(o, d, p)[x]
    BY DEF Both, Plus
  <2> QED BY <2>1 DEF Both, Plus
<1>6. Plus(Has(p, 1), o) = Both(o, 1, p)
  <2>1. \A x \in Mutexes : Plus(Has(p, 1), o)[x] = Both(o, 1, p)[x]
    BY DEF Both, Has, Plus
  <2> QED BY <2>1 DEF Both, Has, Plus
<1>7. Minus(Has(o, d), o) = Has(o, d - 1)
  <2>1. \A x \in Mutexes : Minus(Has(o, d), o)[x] = Has(o, d - 1)[x]
    BY DEF Has, Minus
  <2> QED BY <2>1 DEF Has, Minus
<1>8. Has(o, 0) = None
  <2>1. \A x \in Mutexes : Has(o, 0)[x] = None[x]
    BY DEF Has, None
  <2> QED BY <2>1 DEF Has, None
<1>9. Minus(Both(o, d, p), p) = Has(o, d)
  <2>1. \A x \in Mutexes : Minus(Both(o, d, p), p)[x] = Has(o, d)[x]
    BY DEF Both, Has, Minus
  <2> QED BY <2>1 DEF Both, Has, Minus
<1>10. Minus(Both(o, 1, p), o) = Has(p, 1)
  <2>1. \A x \in Mutexes : Minus(Both(o, 1, p), o)[x] = Has(p, 1)[x]
    BY DEF Both, Has, Minus
  <2> QED BY <2>1 DEF Both, Has, Minus
<1>11. Has(o, d)[o] = d /\ Both(o, d, p)[o] = d /\ Both(o, d, p)[p] = 1
  BY DEF Has, Both
<1> QED BY <1>1, <1>2, <1>3, <1>4, <1>5, <1>6, <1>7, <1>8, <1>9, <1>10, <1>11

\* The sequences of a place are sequences of operations.
LEMMA ErasingSeqs ==
  ASSUME NEW own \in Mutexes, NEW other \in Mutexes, NEW c \in Cell, NEW n \in Nodes,
         NEW rest \in Seq(Op), NEW e, e = <<"erase", c, n>> ** (<<"unlock", other>> ** rest)
  PROVE  /\ <<"unlock", other>> ** rest \in Seq(Op)
         /\ e \in Seq(Op) /\ <<"lock", own>> ** e \in Seq(Op)
         /\ <<"lock", other>> ** (<<"lock", own>> ** e) \in Seq(Op)
  BY Operations, ThenIs

\* A thread that erases takes, ...
LEMMA ErasingLocks ==
  ASSUME NEW own \in Mutexes, NEW other \in Mutexes, own # other, NEW d \in Nat \ {0},
         NEW c \in Cell, NEW n \in Nodes, NEW rest \in Seq(Op),
         NEW x \in Mutexes, NEW r \in Seq(Op), NEW h,
         Erasing(own, d, other, c, n, rest, <<"lock", x>> ** r, h)
  PROVE  Erasing(own, d, other, c, n, rest, r, Plus(h, x))
<1> DEFINE e == <<"erase", c, n>> ** (<<"unlock", other>> ** rest)
<1>1. /\ e \in Seq(Op) /\ <<"lock", own>> ** e \in Seq(Op)
      /\ <<"lock", other>> ** (<<"lock", own>> ** e) \in Seq(Op)
      /\ <<"unlock", other>> ** rest \in Seq(Op)
  BY ErasingSeqs
<1>2. <<"lock", x>> \in Op
  BY Operations
<1>3. \A y \in Op, s \in Seq(Op) : <<"lock", x>> ** r = y ** s => <<"lock", x>> = y /\ r = s
  BY <1>2, ThenOne
<1> HIDE DEF e
<1>4. \/ r = e /\ x = other /\ h = Has(own, d)
      \/ r = <<"lock", own>> ** e /\ x = other /\ h = Has(own, d - 1)
      \/ r = e /\ x = own /\ h = Both(own, d - 1, other)
  BY <1>1, <1>3, Operations DEF Erasing, e
<1>5. \/ r = e /\ Plus(h, x) = Both(own, d, other)
      \/ r = <<"lock", own>> ** e /\ Plus(h, x) = Both(own, d - 1, other)
  BY <1>4, Counts
<1> QED BY <1>5 DEF Erasing, e

\* and gives back; at its erasure it has both.
LEMMA ErasingUnlocks ==
  ASSUME NEW own \in Mutexes, NEW other \in Mutexes, own # other, NEW d \in Nat \ {0},
         NEW c \in Cell, NEW n \in Nodes, NEW rest \in Seq(Op),
         NEW x \in Mutexes, NEW r \in Seq(Op), NEW h,
         Erasing(own, d, other, c, n, rest, <<"unlock", x>> ** r, h)
  PROVE  h[x] >= 1 /\ Erasing(own, d, other, c, n, rest, r, Minus(h, x))
<1> DEFINE e == <<"erase", c, n>> ** (<<"unlock", other>> ** rest)
<1>1. /\ e \in Seq(Op) /\ <<"lock", own>> ** e \in Seq(Op)
      /\ <<"lock", other>> ** (<<"lock", own>> ** e) \in Seq(Op)
      /\ <<"unlock", other>> ** rest \in Seq(Op)
  BY ErasingSeqs
<1>2. <<"unlock", x>> \in Op
  BY Operations
<1>3. \A y \in Op, s \in Seq(Op) : <<"unlock", x>> ** r = y ** s => <<"unlock", x>> = y /\ r = s
  BY <1>2, ThenOne
<1> HIDE DEF e
<1>4. r = <<"lock", other>> ** (<<"lock", own>> ** e) /\ x = own /\ h = Has(own, d)
  BY <1>1, <1>3, Operations DEF Erasing, e
<1>5. h[x] = d /\ Minus(h, x) = Has(own, d - 1)
  BY <1>4, Counts
<1> QED BY <1>4, <1>5 DEF Erasing, e

\* OrderRelock: the other mutex is taken in order, or at once, or own is given back.
LEMMA ErasingRelocks ==
  ASSUME NEW own \in Mutexes, NEW other \in Mutexes, own # other, NEW d \in Nat \ {0},
         NEW c \in Cell, NEW n \in Nodes, NEW rest \in Seq(Op),
         NEW x \in Mutexes, NEW y \in Mutexes, NEW r \in Seq(Op), NEW h,
         Erasing(own, d, other, c, n, rest, <<"relock", x, y>> ** r, h)
  PROVE  /\ Erasing(own, d, other, c, n, rest, <<"lock", y>> ** r, h)
         /\ Erasing(own, d, other, c, n, rest, r, Plus(h, y))
         /\ Erasing(own, d, other, c, n, rest,
                    <<"unlock", x>> ** (<<"lock", y>> ** (<<"lock", x>> ** r)), h)
<1> DEFINE e == <<"erase", c, n>> ** (<<"unlock", other>> ** rest)
<1>1. /\ e \in Seq(Op) /\ <<"lock", own>> ** e \in Seq(Op)
      /\ <<"lock", other>> ** (<<"lock", own>> ** e) \in Seq(Op)
      /\ <<"unlock", other>> ** rest \in Seq(Op)
  BY ErasingSeqs
<1>2. <<"relock", x, y>> \in Op
  BY Operations
<1>3. \A z \in Op, s \in Seq(Op) : <<"relock", x, y>> ** r = z ** s => <<"relock", x, y>> = z /\ r = s
  BY <1>2, ThenOne
<1> HIDE DEF e
<1>4. r = e /\ x = own /\ y = other /\ h = Has(own, d)
  BY <1>1, <1>3, Operations DEF Erasing, e
<1>5. Plus(h, y) = Both(own, d, other)
  BY <1>4, Counts
<1> QED BY <1>4, <1>5 DEF Erasing, e

\* What a thread does once it has erased.
LEMMA Rests ==
  ASSUME NEW topic \in Topics, NEW sub \in Subscribers, NEW job \in Jobs
  PROVE  /\ Own(job, topic, sub) \in Mutexes /\ Other(job, topic, sub) \in Mutexes
         /\ Own(job, topic, sub) # Other(job, topic, sub)
         /\ Times(job) \in Nat \ {0}
         /\ Rest(job, topic, sub) \in Seq(Op)
         /\ <<"unlock", Other(job, topic, sub)>> ** Rest(job, topic, sub) \in Seq(Op)
<1>1. topic \in Mutexes /\ sub \in Mutexes /\ topic # sub
  BY SubscriptionAssumption DEF Mutexes
<1>2. /\ Own(job, topic, sub) \in Mutexes /\ Other(job, topic, sub) \in Mutexes
      /\ Own(job, topic, sub) # Other(job, topic, sub)
      /\ Times(job) \in Nat \ {0}
  BY <1>1 DEF Own, Other, Times
<1>3. <<>> \in Seq(Op)
  OBVIOUS
<1>4. Rest(job, topic, sub) \in Seq(Op)
  BY <1>1, <1>3, Operations, ThenIs DEF Rest, Jobs
<1> QED BY <1>2, <1>4, Operations, ThenIs

\* The sequences of a thread that subscribes.
LEMMA SubscribesSeqs ==
  ASSUME NEW topic \in Topics, NEW sub \in Subscribers
  PROVE  /\ <<>> \in Seq(Op) /\ <<"unlock", sub>> ** <<>> \in Seq(Op)
         /\ <<"has_topic", topic, sub>> ** <<>> \in Seq(Op)
         /\ <<"unlock", topic>> ** (<<"unlock", sub>> ** <<>>) \in Seq(Op)
         /\ LinkThen(topic, sub) \in Seq(Op)
         /\ \A a, b \in Mutexes : /\ <<"lock", b>> ** LinkThen(topic, sub) \in Seq(Op)
                                  /\ <<"lock", a>> ** (<<"lock", b>> ** LinkThen(topic, sub)) \in Seq(Op)
<1>1. topic \in Mutexes /\ sub \in Mutexes
  BY DEF Mutexes
<1>. <<>> \in Seq(Op)
  OBVIOUS
<1>2. <<>> \in Seq(Op) /\ <<"unlock", sub>> ** <<>> \in Seq(Op)
  BY <1>1, Operations, ThenIs
<1>3. <<"has_topic", topic, sub>> ** <<>> \in Seq(Op)
  BY <1>1, Operations, ThenIs
<1>4. <<"unlock", topic>> ** (<<"unlock", sub>> ** <<>>) \in Seq(Op)
  BY <1>1, <1>2, Operations, ThenIs
<1>5. LinkThen(topic, sub) \in Seq(Op)
  BY <1>1, <1>4, Operations, ThenIs DEF LinkThen
<1> QED BY <1>2, <1>3, <1>4, <1>5, Operations, ThenIs

\* It takes the mutex it subscribes with, or both in order, ...
LEMMA SubscribesLocks ==
  ASSUME NEW topic \in Topics, NEW sub \in Subscribers,
         NEW x \in Mutexes, NEW r \in Seq(Op), NEW h,
         Subscribes(topic, sub, <<"lock", x>> ** r, h)
  PROVE  Subscribes(topic, sub, r, Plus(h, x))
<1>1. topic \in Mutexes /\ sub \in Mutexes /\ topic # sub
  BY SubscriptionAssumption DEF Mutexes
<1>0. /\ <<>> \in Seq(Op)
      /\ <<"unlock", sub>> ** <<>> \in Seq(Op)
      /\ <<"has_topic", topic, sub>> ** <<>> \in Seq(Op)
      /\ <<"unlock", topic>> ** (<<"unlock", sub>> ** <<>>) \in Seq(Op)
      /\ LinkThen(topic, sub) \in Seq(Op)
      /\ \A b \in Mutexes : <<"lock", b>> ** LinkThen(topic, sub) \in Seq(Op)
      /\ \A a, b \in Mutexes : <<"lock", a>> ** (<<"lock", b>> ** LinkThen(topic, sub)) \in Seq(Op)
      /\ <<"unlock", sub>> \in Op /\ <<"unlock", topic>> \in Op /\ <<"link", topic, sub>> \in Op
      /\ <<"has_topic", topic, sub>> \in Op /\ \A b \in Mutexes : <<"lock", b>> \in Op
  BY <1>1, SubscribesSeqs, Operations
<1>2. \A y \in Op, s \in Seq(Op) : <<"lock", x>> ** r = y ** s => y[1] = "lock" /\ y[2] = x /\ r = s
  <2>1. \A y \in Op, s \in Seq(Op) : <<"lock", x>> ** r = y ** s => y = <<"lock", x>> /\ r = s
    BY ThenOne, Operations
  <2> QED BY <2>1, Names
<1>3. <<"lock", x>> ** r # LinkThen(topic, sub)
  BY <1>1, <1>2, <1>0 DEF LinkThen
<1>4. CASE <<"lock", x>> ** r = <<"lock", sub>> ** (<<"has_topic", topic, sub>> ** <<>>) /\ h = None
  <2>1. x = sub /\ r = <<"has_topic", topic, sub>> ** <<>>
    BY <1>1, <1>2, <1>4, <1>0
  <2>2. Plus(h, x) = Has(sub, 1)
    BY <1>1, <1>4, <2>1, Counts
  <2> QED BY <2>1, <2>2 DEF Subscribes
<1>5. CASE \E a, b \in Mutexes :
             /\ (a = topic /\ b = sub) \/ (a = sub /\ b = topic)
             /\ \/ /\ <<"lock", x>> ** r = <<"unlock", sub>> ** (<<"lock", a>> ** (<<"lock", b>> ** LinkThen(topic, sub)))
                   /\ h = Has(sub, 1)
                \/ <<"lock", x>> ** r = <<"lock", a>> ** (<<"lock", b>> ** LinkThen(topic, sub)) /\ h = None
                \/ <<"lock", x>> ** r = <<"lock", b>> ** LinkThen(topic, sub) /\ h = Has(a, 1)
  <2>1. PICK a \in Mutexes, b \in Mutexes :
             /\ (a = topic /\ b = sub) \/ (a = sub /\ b = topic)
             /\ \/ /\ <<"lock", x>> ** r = <<"unlock", sub>> ** (<<"lock", a>> ** (<<"lock", b>> ** LinkThen(topic, sub)))
                   /\ h = Has(sub, 1)
                \/ <<"lock", x>> ** r = <<"lock", a>> ** (<<"lock", b>> ** LinkThen(topic, sub)) /\ h = None
                \/ <<"lock", x>> ** r = <<"lock", b>> ** LinkThen(topic, sub) /\ h = Has(a, 1)
    BY <1>5
  <2>2. \/ x = a /\ r = <<"lock", b>> ** LinkThen(topic, sub) /\ h = None
        \/ x = b /\ r = LinkThen(topic, sub) /\ h = Has(a, 1)
    BY <1>1, <1>2, <2>1, <1>0
  <2>3. a # b /\ ((a = topic /\ b = sub) \/ (a = sub /\ b = topic))
    BY <1>1, <2>1
  <2>4. \/ r = <<"lock", b>> ** LinkThen(topic, sub) /\ Plus(h, x) = Has(a, 1)
        \/ r = LinkThen(topic, sub) /\ Plus(h, x) = Both(topic, 1, sub)
    BY <1>1, <2>2, <2>3, Counts
  <2> QED BY <2>1, <2>4 DEF Subscribes
<1> QED BY <1>1, <1>2, <1>3, <1>4, <1>5, <1>0 DEF Subscribes

\* and gives back the one it has when it has found that it is to subscribe.
LEMMA SubscribesUnlocks ==
  ASSUME NEW topic \in Topics, NEW sub \in Subscribers,
         NEW x \in Mutexes, NEW r \in Seq(Op), NEW h,
         Subscribes(topic, sub, <<"unlock", x>> ** r, h)
  PROVE  h[x] >= 1 /\ Subscribes(topic, sub, r, Minus(h, x))
<1>1. topic \in Mutexes /\ sub \in Mutexes /\ topic # sub
  BY SubscriptionAssumption DEF Mutexes
<1>0. /\ <<>> \in Seq(Op)
      /\ <<"unlock", sub>> ** <<>> \in Seq(Op)
      /\ <<"has_topic", topic, sub>> ** <<>> \in Seq(Op)
      /\ <<"unlock", topic>> ** (<<"unlock", sub>> ** <<>>) \in Seq(Op)
      /\ LinkThen(topic, sub) \in Seq(Op)
      /\ \A b \in Mutexes : <<"lock", b>> ** LinkThen(topic, sub) \in Seq(Op)
      /\ \A a, b \in Mutexes : <<"lock", a>> ** (<<"lock", b>> ** LinkThen(topic, sub)) \in Seq(Op)
      /\ <<"unlock", sub>> \in Op /\ <<"unlock", topic>> \in Op /\ <<"link", topic, sub>> \in Op
      /\ <<"has_topic", topic, sub>> \in Op /\ \A b \in Mutexes : <<"lock", b>> \in Op
  BY <1>1, SubscribesSeqs, Operations
<1>2. \A y \in Op, s \in Seq(Op) : <<"unlock", x>> ** r = y ** s => y[1] = "unlock" /\ y[2] = x /\ r = s
  <2>1. \A y \in Op, s \in Seq(Op) : <<"unlock", x>> ** r = y ** s => y = <<"unlock", x>> /\ r = s
    BY ThenOne, Operations
  <2> QED BY <2>1, Names
<1>3. <<"unlock", x>> ** r # LinkThen(topic, sub)
  BY <1>1, <1>2, <1>0 DEF LinkThen
<1>4. \A b \in Mutexes : <<"unlock", x>> ** r # <<"lock", b>> ** LinkThen(topic, sub)
  BY <1>1, <1>2, <1>0
<1>5. \A a, b \in Mutexes : <<"unlock", x>> ** r # <<"lock", a>> ** (<<"lock", b>> ** LinkThen(topic, sub))
  BY <1>1, <1>2, <1>0
<1>6. /\ <<"unlock", x>> ** r # <<"lock", sub>> ** (<<"has_topic", topic, sub>> ** <<>>)
      /\ <<"unlock", x>> ** r # <<"has_topic", topic, sub>> ** <<>>
  BY <1>1, <1>2, <1>0
<1>7. PICK a \in Mutexes, b \in Mutexes :
        /\ (a = topic /\ b = sub) \/ (a = sub /\ b = topic)
        /\ <<"unlock", x>> ** r = <<"unlock", sub>> ** (<<"lock", a>> ** (<<"lock", b>> ** LinkThen(topic, sub)))
        /\ h = Has(sub, 1)
  BY <1>3, <1>4, <1>5, <1>6 DEF Subscribes
<1>8. x = sub /\ r = <<"lock", a>> ** (<<"lock", b>> ** LinkThen(topic, sub))
  BY <1>1, <1>2, <1>7, <1>0
<1>9. h[x] = 1 /\ Minus(h, x) = None
  BY <1>1, <1>7, <1>8, Counts
<1> QED BY <1>7, <1>8, <1>9 DEF Subscribes

\* What a sequence that begins with a lock or an unlock is.
LEMMA LockFirst ==
  ASSUME NEW x \in Mutexes, NEW r \in Seq(Op)
  PROVE  \A y \in Op, s \in Seq(Op) : <<"lock", x>> ** r = y ** s => y[1] = "lock" /\ y[2] = x /\ r = s
<1>1. \A y \in Op, s \in Seq(Op) : <<"lock", x>> ** r = y ** s => y = <<"lock", x>> /\ r = s
  BY ThenOne, Operations
<1> QED BY <1>1

\* The same of one that begins with an unlock.
LEMMA UnlockFirst ==
  ASSUME NEW x \in Mutexes, NEW r \in Seq(Op)
  PROVE  \A y \in Op, s \in Seq(Op) : <<"unlock", x>> ** r = y ** s => y[1] = "unlock" /\ y[2] = x /\ r = s
<1>1. \A y \in Op, s \in Seq(Op) : <<"unlock", x>> ** r = y ** s => y = <<"unlock", x>> /\ r = s
  BY ThenOne, Operations
<1> QED BY <1>1

\* A call at its beginning takes its mutex.
LEMMA BeginsLocks ==
  ASSUME NEW t \in Threads, NEW topic \in Topics, NEW sub \in Subscribers,
         NEW x \in Mutexes, NEW r \in Seq(Op), NEW h,
         Begins(t, topic, sub, <<"lock", x>> ** r, h)
  PROVE  Begins(t, topic, sub, r, Plus(h, x)) \/ GoesOn("unsubscribe_all", topic, sub, r, Plus(h, x))
<1>1. topic \in Mutexes /\ sub \in Mutexes /\ topic # sub
  BY SubscriptionAssumption DEF Mutexes
<1>2. \A y \in Op, s \in Seq(Op) : <<"lock", x>> ** r = y ** s => y[1] = "lock" /\ y[2] = x /\ r = s
  BY LockFirst
<1>. DEFINE u == <<"unlock", sub>> ** <<>>
            f == <<"find", topic, sub>> ** u
            a == <<"all", sub>> ** u
<1>3. u \in Seq(Op) /\ f \in Seq(Op) /\ a \in Seq(Op) /\ <<"lock", sub>> \in Op /\ <<"find", topic, sub>> \in Op
  BY <1>1, SubscribesSeqs, Operations, ThenIs
<1>4. <<"lock", x>> ** r # f
  BY <1>2, <1>3
<1>5. (r = f \/ r = a) /\ x = sub /\ h = None
  <2> HIDE DEF f, a
  <2>1. \/ <<"lock", x>> ** r = <<"lock", sub>> ** f /\ h = None
        \/ <<"lock", x>> ** r = <<"lock", sub>> ** a /\ h = None
    BY <1>4 DEF Begins, f, a
  <2> QED BY <1>2, <1>3, <2>1
<1>6. Plus(h, x) = Has(sub, 1)
  BY <1>1, <1>5, Counts
<1> QED BY <1>5, <1>6 DEF Begins, GoesOn, Rest, Own, Times

\* and gives it back only after the operation.
LEMMA BeginsUnlocks ==
  ASSUME NEW t \in Threads, NEW topic \in Topics, NEW sub \in Subscribers,
         NEW x \in Mutexes, NEW r \in Seq(Op), NEW h,
         Begins(t, topic, sub, <<"unlock", x>> ** r, h)
  PROVE  FALSE
<1>1. topic \in Mutexes /\ sub \in Mutexes /\ topic # sub
  BY SubscriptionAssumption DEF Mutexes
<1>2. \A y \in Op, s \in Seq(Op) : <<"unlock", x>> ** r = y ** s => y[1] = "unlock" /\ y[2] = x /\ r = s
  BY UnlockFirst
<1>. DEFINE u == <<"unlock", sub>> ** <<>>
            f == <<"find", topic, sub>> ** u
            a == <<"all", sub>> ** u
<1>3. u \in Seq(Op) /\ f \in Seq(Op) /\ a \in Seq(Op) /\ <<"lock", sub>> \in Op /\ <<"find", topic, sub>> \in Op
  BY <1>1, SubscribesSeqs, Operations, ThenIs
<1>4. <<"unlock", x>> ** r # f
  BY <1>2, <1>3
<1> HIDE DEF f, a
<1>5. \/ <<"unlock", x>> ** r = <<"lock", sub>> ** f
      \/ <<"unlock", x>> ** r = <<"lock", sub>> ** a
  BY <1>4 DEF Begins, f, a
<1> QED BY <1>2, <1>3, <1>5

\* A thread that publishes or erases a topic, likewise.
LEMMA PublishesSeqs ==
  ASSUME NEW topic \in Topics, NEW clears, NEW erases,
         clears = <<"clear", topic>> ** (<<"unlock", topic>> ** <<>>),
         erases = <<"clear", topic>> ** (<<"unlock", topic>> ** (<<"unlock", topic>> ** <<>>))
  PROVE  /\ <<"unlock", topic>> ** <<>> \in Seq(Op)
         /\ <<"unlock", topic>> ** (<<"unlock", topic>> ** <<>>) \in Seq(Op)
         /\ <<"walk", topic>> ** (<<"unlock", topic>> ** <<>>) \in Seq(Op)
         /\ clears \in Seq(Op) /\ erases \in Seq(Op)
         /\ <<"lock", topic>> ** erases \in Seq(Op)
         /\ <<"walk", topic>> ** (<<"lock", topic>> ** erases) \in Seq(Op)
         /\ <<"lock", topic>> \in Op /\ <<"walk", topic>> \in Op /\ <<"clear", topic>> \in Op
         /\ <<"unlock", topic>> \in Op
<1>1. topic \in Mutexes /\ <<>> \in Seq(Op)
  BY DEF Mutexes
<1>2. /\ <<"unlock", topic>> ** <<>> \in Seq(Op)
      /\ <<"unlock", topic>> ** (<<"unlock", topic>> ** <<>>) \in Seq(Op)
  BY <1>1, Operations, ThenIs
<1>3. clears \in Seq(Op) /\ erases \in Seq(Op)
  BY <1>1, <1>2, Operations, ThenIs
<1> QED BY <1>1, <1>2, <1>3, Operations, ThenIs

\* The publish thread takes the mutex of the topic, when it erases it twice, ...
LEMMA PublishesLocks ==
  ASSUME NEW topic \in Topics, NEW x \in Mutexes, NEW r \in Seq(Op), NEW h,
         Publishes(topic, <<"lock", x>> ** r, h)
  PROVE  Publishes(topic, r, Plus(h, x))
<1>1. topic \in Mutexes
  BY DEF Mutexes
<1>2. \A y \in Op, s \in Seq(Op) : <<"lock", x>> ** r = y ** s => y[1] = "lock" /\ y[2] = x /\ r = s
  BY LockFirst
<1> DEFINE clears == <<"clear", topic>> ** (<<"unlock", topic>> ** <<>>)
           erases == <<"clear", topic>> ** (<<"unlock", topic>> ** (<<"unlock", topic>> ** <<>>))
           walk1 == <<"walk", topic>> ** (<<"unlock", topic>> ** <<>>)
           walk2 == <<"walk", topic>> ** (<<"lock", topic>> ** erases)
           last == <<"unlock", topic>> ** <<>>
<1>3. /\ last \in Seq(Op) /\ <<"unlock", topic>> ** last \in Seq(Op)
      /\ walk1 \in Seq(Op) /\ walk2 \in Seq(Op)
      /\ clears \in Seq(Op) /\ erases \in Seq(Op)
      /\ <<"lock", topic>> ** erases \in Seq(Op)
      /\ <<"lock", topic>> \in Op /\ <<"walk", topic>> \in Op /\ <<"clear", topic>> \in Op
      /\ <<"unlock", topic>> \in Op
  BY PublishesSeqs
<1>4. /\ <<"lock", x>> ** r # walk1 /\ <<"lock", x>> ** r # walk2
      /\ <<"lock", x>> ** r # clears /\ <<"lock", x>> ** r # erases
      /\ <<"lock", x>> ** r # <<"unlock", topic>> ** last
  BY <1>2, <1>3
<1> HIDE DEF clears, erases, walk1, walk2, last
<1>5. \/ <<"lock", x>> ** r = <<"lock", topic>> ** walk1 /\ h = None
      \/ <<"lock", x>> ** r = <<"lock", topic>> ** clears /\ h = None
      \/ <<"lock", x>> ** r = <<"lock", topic>> ** walk2 /\ h = None
      \/ <<"lock", x>> ** r = <<"lock", topic>> ** erases /\ h = Has(topic, 1)
  BY <1>4 DEF Publishes, clears, erases, walk1, walk2, last
<1>6. /\ x = topic
      /\ \/ r \in {walk1, walk2, clears} /\ h = None
         \/ r = erases /\ h = Has(topic, 1)
  BY <1>2, <1>3, <1>5
<1>7. Plus(None, topic) = Has(topic, 1) /\ Plus(Has(topic, 1), topic) = Has(topic, 2)
  <2>1. \A m \in Mutexes : Plus(None, topic)[m] = Has(topic, 1)[m] /\ Plus(Has(topic, 1), topic)[m] = Has(topic, 2)[m]
    BY DEF Plus, None, Has
  <2> QED BY <2>1 DEF Plus, None, Has
<1> QED BY <1>6, <1>7 DEF Publishes, clears, erases, walk1, walk2

\* and gives it back as often.
LEMMA PublishesUnlocks ==
  ASSUME NEW topic \in Topics, NEW x \in Mutexes, NEW r \in Seq(Op), NEW h,
         Publishes(topic, <<"unlock", x>> ** r, h)
  PROVE  h[x] >= 1 /\ Ends(r, Minus(h, x))
<1>1. topic \in Mutexes
  BY DEF Mutexes
<1>2. \A y \in Op, s \in Seq(Op) : <<"unlock", x>> ** r = y ** s => y[1] = "unlock" /\ y[2] = x /\ r = s
  BY UnlockFirst
<1> DEFINE clears == <<"clear", topic>> ** (<<"unlock", topic>> ** <<>>)
           erases == <<"clear", topic>> ** (<<"unlock", topic>> ** (<<"unlock", topic>> ** <<>>))
           walk1 == <<"walk", topic>> ** (<<"unlock", topic>> ** <<>>)
           walk2 == <<"walk", topic>> ** (<<"lock", topic>> ** erases)
           last == <<"unlock", topic>> ** <<>>
<1>3. /\ last \in Seq(Op) /\ <<"unlock", topic>> ** last \in Seq(Op)
      /\ walk1 \in Seq(Op) /\ walk2 \in Seq(Op)
      /\ clears \in Seq(Op) /\ erases \in Seq(Op)
      /\ <<"lock", topic>> ** erases \in Seq(Op)
      /\ <<"lock", topic>> \in Op /\ <<"walk", topic>> \in Op /\ <<"clear", topic>> \in Op
      /\ <<"unlock", topic>> \in Op
  BY PublishesSeqs
<1>4. /\ <<"unlock", x>> ** r # walk1 /\ <<"unlock", x>> ** r # walk2
      /\ <<"unlock", x>> ** r # clears /\ <<"unlock", x>> ** r # erases
  BY <1>2, <1>3
<1> HIDE DEF clears, erases, walk1, walk2, last
<1>5. /\ <<"unlock", x>> ** r # <<"lock", topic>> ** walk1
      /\ <<"unlock", x>> ** r # <<"lock", topic>> ** clears
      /\ <<"unlock", x>> ** r # <<"lock", topic>> ** walk2
      /\ <<"unlock", x>> ** r # <<"lock", topic>> ** erases
  BY <1>2, <1>3
<1>6. <<"unlock", x>> ** r = <<"unlock", topic>> ** last /\ h = Has(topic, 2)
  BY <1>4, <1>5 DEF Publishes, clears, erases, walk1, walk2, last
<1>7. x = topic /\ r = last
  BY <1>2, <1>3, <1>6
<1>8. h[x] = 2
  BY <1>1, <1>6, <1>7 DEF Has
<1>9. Minus(h, x) = Has(topic, 1)
  <2>1. \A m \in Mutexes : Minus(Has(topic, 2), topic)[m] = Has(topic, 1)[m]
    BY DEF Minus, Has
  <2> QED BY <1>6, <1>7, <2>1 DEF Minus, Has
<1> QED BY <1>1, <1>7, <1>8, <1>9 DEF Ends, last

\* What a thread has left once it has erased.
LEMMA RestSeqs ==
  ASSUME NEW topic \in Topics, NEW sub \in Subscribers, NEW job \in Jobs
  PROVE  \/ job = "unsubscribe" /\ Rest(job, topic, sub) = <<"unlock", sub>> ** <<>>
         \/ \E y \in Op, s \in Seq(Op) : y[1] \in {"all", "clear_next"} /\ Rest(job, topic, sub) = y ** s
<1>1. topic \in Mutexes /\ sub \in Mutexes /\ <<>> \in Seq(Op)
  BY DEF Mutexes
<1>2. /\ <<"unlock", sub>> ** <<>> \in Seq(Op) /\ <<"unlock", topic>> ** <<>> \in Seq(Op)
      /\ <<"unlock", topic>> ** (<<"unlock", topic>> ** <<>>) \in Seq(Op)
      /\ <<"all", sub>> \in Op /\ <<"clear_next", topic>> \in Op
  BY <1>1, Operations, ThenIs
<1>3. <<"all", sub>>[1] = "all" /\ <<"clear_next", topic>>[1] = "clear_next"
  OBVIOUS
<1>4. CASE job = "unsubscribe"
  BY <1>4 DEF Rest
<1>5. CASE job = "unsubscribe_all"
  BY <1>2, <1>3, <1>5 DEF Rest
<1>6. CASE job = "clear"
  BY <1>2, <1>3, <1>6 DEF Rest
<1>7. CASE job = "erase_topic"
  BY <1>2, <1>3, <1>7 DEF Rest
<1> QED BY <1>4, <1>5, <1>6, <1>7 DEF Jobs

\* A thread that has erased takes nothing before it is about to erase again, ...
LEMMA GoesOnLocks ==
  ASSUME NEW topic \in Topics, NEW sub \in Subscribers, NEW job \in Jobs,
         NEW x \in Mutexes, NEW r \in Seq(Op), NEW h,
         GoesOn(job, topic, sub, <<"lock", x>> ** r, h)
  PROVE  FALSE
<1>1. \A y \in Op, s \in Seq(Op) : <<"lock", x>> ** r = y ** s => y[1] = "lock" /\ y[2] = x /\ r = s
  BY LockFirst
<1>2. <<"lock", x>> ** r # <<"unlock", Other(job, topic, sub)>> ** Rest(job, topic, sub)
  BY <1>1, Rests, Operations
<1>3. <<"lock", x>> ** r # Rest(job, topic, sub)
  <2>1. sub \in Mutexes /\ <<>> \in Seq(Op)
    BY DEF Mutexes
  <2>2. <<"lock", x>> ** r # <<"unlock", sub>> ** <<>>
    BY <1>1, <2>1, Operations
  <2> QED BY <1>1, <2>2, RestSeqs
<1> QED BY <1>2, <1>3 DEF GoesOn

\* and gives back the mutex it got for the erasure.
LEMMA GoesOnUnlocks ==
  ASSUME NEW topic \in Topics, NEW sub \in Subscribers, NEW job \in Jobs,
         NEW x \in Mutexes, NEW r \in Seq(Op), NEW h,
         GoesOn(job, topic, sub, <<"unlock", x>> ** r, h)
  PROVE  h[x] >= 1 /\ (GoesOn(job, topic, sub, r, Minus(h, x)) \/ Ends(r, Minus(h, x)))
<1>1. \A y \in Op, s \in Seq(Op) : <<"unlock", x>> ** r = y ** s => y[1] = "unlock" /\ y[2] = x /\ r = s
  BY UnlockFirst
<1> DEFINE own == Own(job, topic, sub)
           other == Other(job, topic, sub)
<1>2. own \in Mutexes /\ other \in Mutexes /\ own # other /\ Times(job) \in Nat \ {0}
      /\ Rest(job, topic, sub) \in Seq(Op)
  BY Rests
<1>3. CASE <<"unlock", x>> ** r = <<"unlock", other>> ** Rest(job, topic, sub) /\ h = Both(own, Times(job), other)
  <2>1. x = other /\ r = Rest(job, topic, sub)
    BY <1>1, <1>2, <1>3, Operations
  <2>2. h[x] = 1 /\ Minus(h, x) = Has(own, Times(job))
    BY <1>2, <1>3, <2>1, Counts
  <2> QED BY <2>1, <2>2 DEF GoesOn
<1>4. CASE <<"unlock", x>> ** r = Rest(job, topic, sub) /\ h = Has(own, Times(job))
  <2>1. job = "unsubscribe" /\ <<"unlock", x>> ** r = <<"unlock", sub>> ** <<>>
    BY <1>1, <1>4, RestSeqs
  <2>2. sub \in Mutexes /\ <<>> \in Seq(Op)
    BY DEF Mutexes
  <2>3. x = sub /\ r = <<>>
    BY <1>1, <2>1, <2>2, Operations
  <2>4. own = sub /\ Times(job) = 1
    BY <2>1 DEF Own, Times
  <2>5. h[x] = 1 /\ Minus(h, x) = None
    BY <1>2, <1>4, <2>3, <2>4, Counts
  <2> QED BY <2>3, <2>5 DEF Ends
<1> QED BY <1>3, <1>4 DEF GoesOn

\* At its end a call takes nothing, ...
LEMMA EndsLocks ==
  ASSUME NEW x \in Mutexes, NEW r \in Seq(Op), NEW h, Ends(<<"lock", x>> ** r, h)
  PROVE  FALSE
<1>1. \A y \in Op, s \in Seq(Op) : <<"lock", x>> ** r = y ** s => y[1] = "lock" /\ y[2] = x /\ r = s
  BY LockFirst
<1>2. <<"lock", x>> ** r # <<>> /\ <<>> \in Seq(Op)
  <2>1. <<>> \in Seq(Op)
    OBVIOUS
  <2>2. <<"lock", x>> \in Op
    BY Operations
  <2> QED BY <2>1, <2>2, ThenIs
<1>3. \A m \in Mutexes : <<"lock", x>> ** r # <<"unlock", m>> ** <<>>
  BY <1>1, <1>2, Operations
<1> QED BY <1>2, <1>3 DEF Ends

\* and gives back the last mutex it has.
LEMMA EndsUnlocks ==
  ASSUME NEW x \in Mutexes, NEW r \in Seq(Op), NEW h, Ends(<<"unlock", x>> ** r, h)
  PROVE  h[x] >= 1 /\ Ends(r, Minus(h, x))
<1>1. \A y \in Op, s \in Seq(Op) : <<"unlock", x>> ** r = y ** s => y[1] = "unlock" /\ y[2] = x /\ r = s
  BY UnlockFirst
<1>2. <<"unlock", x>> ** r # <<>> /\ <<>> \in Seq(Op)
  <2>1. <<>> \in Seq(Op)
    OBVIOUS
  <2>2. <<"unlock", x>> \in Op
    BY Operations
  <2> QED BY <2>1, <2>2, ThenIs
<1>3. PICK m \in Mutexes : <<"unlock", x>> ** r = <<"unlock", m>> ** <<>> /\ h = Has(m, 1)
  BY <1>2 DEF Ends
<1>4. x = m /\ r = <<>>
  BY <1>1, <1>2, <1>3, Operations
<1>5. h[x] = 1
  BY <1>3, <1>4 DEF Has
<1>6. Minus(h, x) = None
  <2>1. \A o \in Mutexes : Minus(Has(m, 1), m)[o] = None[o]
    BY DEF Minus, Has, None
  <2> QED BY <1>3, <1>4, <2>1 DEF Minus, Has, None
<1> QED BY <1>4, <1>5, <1>6 DEF Ends

\* A thread at a place takes the mutex it is to take next, ...
LEMMA PlaceLocks ==
  ASSUME NEW m \in Mem, NEW t \in Threads, NEW first, NEW x \in Mutexes, NEW r \in Seq(Op), NEW h,
         Place(m, t, first, <<"lock", x>> ** r, h)
  PROVE  Place(m, t, first, r, Plus(h, x))
<1>1. PICK topic \in Topics, sub \in Subscribers :
       \/ Subscribes(topic, sub, <<"lock", x>> ** r, h)
       \/ Begins(t, topic, sub, <<"lock", x>> ** r, h)
       \/ Publisher(t) /\ Publishes(topic, <<"lock", x>> ** r, h)
       \/ \E job \in Jobs, n \in Nodes :
            /\ Erases(t, job, topic, sub, n, <<"lock", x>> ** r, h)
            /\ Was(m, n, topic, sub)
            /\ Clears(job) => Publisher(t) /\ first[topic] = Local(t)
            /\ job = "unsubscribe" => Told(m, t, n)
  BY EndsLocks, GoesOnLocks DEF Place
<1>2. CASE Subscribes(topic, sub, <<"lock", x>> ** r, h)
  BY <1>2, SubscribesLocks DEF Place
<1>3. CASE Begins(t, topic, sub, <<"lock", x>> ** r, h)
  <2>1. Begins(t, topic, sub, r, Plus(h, x)) \/ GoesOn("unsubscribe_all", topic, sub, r, Plus(h, x))
    BY <1>3, BeginsLocks
  <2>2. "unsubscribe_all" \in Jobs /\ ~Clears("unsubscribe_all")
    BY DEF Jobs, Clears
  <2> QED BY <2>1, <2>2 DEF Place
<1>4. CASE Publisher(t) /\ Publishes(topic, <<"lock", x>> ** r, h)
  BY <1>4, PublishesLocks DEF Place
<1>5. CASE \E job \in Jobs, n \in Nodes :
            /\ Erases(t, job, topic, sub, n, <<"lock", x>> ** r, h)
            /\ Was(m, n, topic, sub)
            /\ Clears(job) => Publisher(t) /\ first[topic] = Local(t)
            /\ job = "unsubscribe" => Told(m, t, n)
  <2>1. PICK job \in Jobs, n \in Nodes :
            /\ Erases(t, job, topic, sub, n, <<"lock", x>> ** r, h)
            /\ Was(m, n, topic, sub)
            /\ Clears(job) => Publisher(t) /\ first[topic] = Local(t)
            /\ job = "unsubscribe" => Told(m, t, n)
    BY <1>5
  <2>2. CellOf(job, t, sub) \in Cell
    BY DEF CellOf, Cell, Mutexes
  <2>3. Erases(t, job, topic, sub, n, r, Plus(h, x))
    BY <2>1, <2>2, Rests, ErasingLocks DEF Erases
  <2> QED BY <2>1, <2>3 DEF Place
<1> QED BY <1>1, <1>2, <1>3, <1>4, <1>5

\* and gives back the one it is to give back, which it has.
LEMMA PlaceUnlocks ==
  ASSUME NEW m \in Mem, NEW t \in Threads, NEW first, NEW x \in Mutexes, NEW r \in Seq(Op), NEW h,
         Place(m, t, first, <<"unlock", x>> ** r, h)
  PROVE  h[x] >= 1 /\ Place(m, t, first, r, Minus(h, x))
<1>1. CASE Ends(<<"unlock", x>> ** r, h)
  BY <1>1, EndsUnlocks DEF Place
<1>2. ASSUME NEW topic \in Topics, NEW sub \in Subscribers, Subscribes(topic, sub, <<"unlock", x>> ** r, h)
      PROVE  h[x] >= 1 /\ Place(m, t, first, r, Minus(h, x))
  BY <1>2, SubscribesUnlocks DEF Place
<1>3. ASSUME NEW topic \in Topics, NEW sub \in Subscribers, Begins(t, topic, sub, <<"unlock", x>> ** r, h)
      PROVE  FALSE
  BY <1>3, BeginsUnlocks
<1>4. ASSUME NEW topic \in Topics, Publishes(topic, <<"unlock", x>> ** r, h)
      PROVE  h[x] >= 1 /\ Place(m, t, first, r, Minus(h, x))
  BY <1>4, PublishesUnlocks DEF Place
<1>5. ASSUME NEW topic \in Topics, NEW sub \in Subscribers, NEW job \in Jobs,
             GoesOn(job, topic, sub, <<"unlock", x>> ** r, h),
             Clears(job) => Publisher(t) /\ first[topic] = Local(t)
      PROVE  h[x] >= 1 /\ Place(m, t, first, r, Minus(h, x))
  BY <1>5, GoesOnUnlocks DEF Place
<1>6. ASSUME NEW topic \in Topics, NEW sub \in Subscribers, NEW job \in Jobs, NEW n \in Nodes,
             Erases(t, job, topic, sub, n, <<"unlock", x>> ** r, h),
             Was(m, n, topic, sub),
             Clears(job) => Publisher(t) /\ first[topic] = Local(t),
             job = "unsubscribe" => Told(m, t, n)
      PROVE  h[x] >= 1 /\ Place(m, t, first, r, Minus(h, x))
  <2>1. CellOf(job, t, sub) \in Cell
    BY DEF CellOf, Cell, Mutexes
  <2>2. h[x] >= 1 /\ Erases(t, job, topic, sub, n, r, Minus(h, x))
    BY <1>6, <2>1, Rests, ErasingUnlocks DEF Erases
  <2> QED BY <1>6, <2>2 DEF Place
<1> QED BY <1>1, <1>2, <1>3, <1>4, <1>5, <1>6 DEF Place

-----------------------------------------------------------------------------
(* The places at which a thread begins an operation *)

\* What a sequence that begins with an operation is.
LEMMA AnyFirst ==
  ASSUME NEW x \in Op, NEW r \in Seq(Op)
  PROVE  /\ x ** r # <<>>
         /\ \A y \in Op, s \in Seq(Op) : x ** r = y ** s => y = x /\ y[1] = x[1] /\ s = r
<1>1. x ** r # <<>>
  BY ThenIs
<1>2. \A y \in Op, s \in Seq(Op) : x ** r = y ** s => y = x /\ s = r
  BY ThenOne
<1> QED BY <1>1, <1>2

\* A thread that subscribes.
LEMMA SubscribesAt ==
  ASSUME NEW topic \in Topics, NEW sub \in Subscribers, NEW x \in Op, NEW r \in Seq(Op), NEW h,
         Subscribes(topic, sub, x ** r, h)
  PROVE  \/ x[1] \in {"lock", "unlock"}
         \/ x = <<"has_topic", topic, sub>> /\ r = <<>> /\ h = Has(sub, 1)
         \/ /\ x = <<"link", topic, sub>> /\ r = <<"unlock", topic>> ** (<<"unlock", sub>> ** <<>>)
            /\ h = Both(topic, 1, sub)
<1>1. topic \in Mutexes /\ sub \in Mutexes
  BY DEF Mutexes
<1>2. \A y \in Op, s \in Seq(Op) : x ** r = y ** s => y = x /\ y[1] = x[1] /\ s = r
  BY AnyFirst
<1>0. /\ <<>> \in Seq(Op)
      /\ <<"has_topic", topic, sub>> ** <<>> \in Seq(Op)
      /\ <<"unlock", topic>> ** (<<"unlock", sub>> ** <<>>) \in Seq(Op)
      /\ LinkThen(topic, sub) \in Seq(Op)
      /\ \A b \in Mutexes : <<"lock", b>> ** LinkThen(topic, sub) \in Seq(Op)
      /\ \A a, b \in Mutexes : <<"lock", a>> ** (<<"lock", b>> ** LinkThen(topic, sub)) \in Seq(Op)
      /\ <<"unlock", sub>> \in Op /\ <<"link", topic, sub>> \in Op
      /\ <<"has_topic", topic, sub>> \in Op /\ \A b \in Mutexes : <<"lock", b>> \in Op
  BY <1>1, SubscribesSeqs, Operations
<1>3. /\ <<"lock", sub>>[1] = "lock" /\ <<"unlock", sub>>[1] = "unlock"
      /\ \A b : <<"lock", b>>[1] = "lock"
  OBVIOUS
<1>4. CASE x ** r = LinkThen(topic, sub) /\ h = Both(topic, 1, sub)
  BY <1>0, <1>2, <1>4 DEF LinkThen
<1>5. CASE x ** r = <<"lock", sub>> ** (<<"has_topic", topic, sub>> ** <<>>)
  BY <1>0, <1>1, <1>2, <1>3, <1>5
<1>6. CASE x ** r = <<"has_topic", topic, sub>> ** <<>> /\ h = Has(sub, 1)
  BY <1>0, <1>2, <1>6
<1>7. CASE \E a, b \in Mutexes :
             \/ x ** r = <<"unlock", sub>> ** (<<"lock", a>> ** (<<"lock", b>> ** LinkThen(topic, sub)))
             \/ x ** r = <<"lock", a>> ** (<<"lock", b>> ** LinkThen(topic, sub))
             \/ x ** r = <<"lock", b>> ** LinkThen(topic, sub)
  BY <1>0, <1>2, <1>3, <1>7
<1> QED BY <1>4, <1>5, <1>6, <1>7 DEF Subscribes

\* A thread in unsubscribe() or unsubscribe_all().
LEMMA BeginsAt ==
  ASSUME NEW t \in Threads, NEW topic \in Topics, NEW sub \in Subscribers,
         NEW x \in Op, NEW r \in Seq(Op), NEW h, Begins(t, topic, sub, x ** r, h)
  PROVE  \/ x[1] = "lock"
         \/ x = <<"find", topic, sub>> /\ r = <<"unlock", sub>> ** <<>> /\ h = Has(sub, 1)
<1>1. topic \in Mutexes /\ sub \in Mutexes
  BY DEF Mutexes
<1>2. \A y \in Op, s \in Seq(Op) : x ** r = y ** s => y = x /\ y[1] = x[1] /\ s = r
  BY AnyFirst
<1> DEFINE u == <<"unlock", sub>> ** <<>>
           f == <<"find", topic, sub>> ** u
           a == <<"all", sub>> ** u
<1>3. u \in Seq(Op) /\ f \in Seq(Op) /\ a \in Seq(Op) /\ <<"lock", sub>> \in Op /\ <<"find", topic, sub>> \in Op
  BY <1>1, SubscribesSeqs, Operations, ThenIs
<1>4. <<"lock", sub>>[1] = "lock"
  OBVIOUS
<1>5. CASE x ** r = f /\ h = Has(sub, 1)
  BY <1>2, <1>3, <1>5
<1> HIDE DEF f, a
<1>6. CASE x ** r = <<"lock", sub>> ** f \/ x ** r = <<"lock", sub>> ** a
  BY <1>2, <1>3, <1>4, <1>6
<1> QED BY <1>5, <1>6 DEF Begins, f, a

\* A thread that publishes or erases a topic.
LEMMA PublishesAt ==
  ASSUME NEW topic \in Topics, NEW x \in Op, NEW r \in Seq(Op), NEW h, Publishes(topic, x ** r, h)
  PROVE  LET last == <<"unlock", topic>> ** <<>>
             erases == <<"clear", topic>> ** (<<"unlock", topic>> ** (<<"unlock", topic>> ** <<>>))
         IN  \/ x[1] \in {"lock", "unlock"}
             \/ x = <<"walk", topic>> /\ r \in {last, <<"lock", topic>> ** erases} /\ h = Has(topic, 1)
             \/ x = <<"clear", topic>> /\ r = last /\ h = Has(topic, 1)
             \/ x = <<"clear", topic>> /\ r = <<"unlock", topic>> ** last /\ h = Has(topic, 2)
<1>1. topic \in Mutexes
  BY DEF Mutexes
<1>2. \A y \in Op, s \in Seq(Op) : x ** r = y ** s => y = x /\ y[1] = x[1] /\ s = r
  BY AnyFirst
<1> DEFINE last == <<"unlock", topic>> ** <<>>
           clears == <<"clear", topic>> ** last
           erases == <<"clear", topic>> ** (<<"unlock", topic>> ** last)
           walk1 == <<"walk", topic>> ** last
           walk2 == <<"walk", topic>> ** (<<"lock", topic>> ** erases)
<1>3. /\ last \in Seq(Op) /\ <<"unlock", topic>> ** last \in Seq(Op)
      /\ walk1 \in Seq(Op) /\ walk2 \in Seq(Op)
      /\ clears \in Seq(Op) /\ erases \in Seq(Op)
      /\ <<"lock", topic>> ** erases \in Seq(Op)
      /\ <<"lock", topic>> \in Op /\ <<"walk", topic>> \in Op /\ <<"clear", topic>> \in Op
      /\ <<"unlock", topic>> \in Op
  BY PublishesSeqs
<1>4. <<"lock", topic>>[1] = "lock" /\ <<"unlock", topic>>[1] = "unlock"
  OBVIOUS
<1>5. CASE x ** r = walk1 /\ h = Has(topic, 1)
  BY <1>2, <1>3, <1>5
<1>6. CASE x ** r = walk2 /\ h = Has(topic, 1)
  BY <1>2, <1>3, <1>6
<1>7. CASE x ** r = clears /\ h = Has(topic, 1)
  BY <1>2, <1>3, <1>7
<1>8. CASE x ** r = erases /\ h = Has(topic, 2)
  BY <1>2, <1>3, <1>8
<1>9. CASE x ** r = <<"unlock", topic>> ** last
  BY <1>2, <1>3, <1>4, <1>9
<1> HIDE DEF last, clears, erases, walk1, walk2
<1>10. CASE \/ x ** r = <<"lock", topic>> ** walk1 \/ x ** r = <<"lock", topic>> ** clears
            \/ x ** r = <<"lock", topic>> ** walk2 \/ x ** r = <<"lock", topic>> ** erases
  BY <1>2, <1>3, <1>4, <1>10
<1> QED BY <1>5, <1>6, <1>7, <1>8, <1>9, <1>10 DEF Publishes, last, clears, erases, walk1, walk2

\* A thread between two erasures.
LEMMA GoesOnAt ==
  ASSUME NEW topic \in Topics, NEW sub \in Subscribers, NEW job \in Jobs,
         NEW x \in Op, NEW r \in Seq(Op), NEW h, GoesOn(job, topic, sub, x ** r, h)
  PROVE  LET last == <<"unlock", topic>> ** <<>>
         IN  \/ x[1] = "unlock"
             \/ /\ job = "unsubscribe_all" /\ x = <<"all", sub>>
                /\ r = <<"unlock", sub>> ** <<>> /\ h = Has(sub, 1)
             \/ job = "clear" /\ x = <<"clear_next", topic>> /\ r = last /\ h = Has(topic, 1)
             \/ /\ job = "erase_topic" /\ x = <<"clear_next", topic>>
                /\ r = <<"unlock", topic>> ** last /\ h = Has(topic, 2)
<1>1. topic \in Mutexes /\ sub \in Mutexes /\ <<>> \in Seq(Op)
  BY DEF Mutexes
<1>2. \A y \in Op, s \in Seq(Op) : x ** r = y ** s => y = x /\ y[1] = x[1] /\ s = r
  BY AnyFirst
<1> DEFINE last == <<"unlock", topic>> ** <<>>
           other == Other(job, topic, sub)
<1>3. /\ <<"unlock", sub>> ** <<>> \in Seq(Op) /\ last \in Seq(Op) /\ <<"unlock", topic>> ** last \in Seq(Op)
      /\ <<"all", sub>> \in Op /\ <<"clear_next", topic>> \in Op /\ <<"unlock", sub>> \in Op
  BY <1>1, Operations, ThenIs
<1>4. <<"unlock", sub>>[1] = "unlock" /\ <<"unlock", other>>[1] = "unlock"
  OBVIOUS
<1>5. CASE x ** r = <<"unlock", other>> ** Rest(job, topic, sub)
  <2>1. <<"unlock", other>> \in Op /\ Rest(job, topic, sub) \in Seq(Op)
    BY Rests, Operations
  <2> QED BY <1>2, <1>4, <1>5, <2>1
<1>6. CASE x ** r = Rest(job, topic, sub) /\ h = Has(Own(job, topic, sub), Times(job))
  <2>1. CASE job = "unsubscribe"
    BY <1>1, <1>2, <1>3, <1>4, <1>6, <2>1 DEF Rest
  <2>2. CASE job = "unsubscribe_all"
    BY <1>2, <1>3, <1>6, <2>2 DEF Rest, Own, Times
  <2>3. CASE job = "clear"
    BY <1>2, <1>3, <1>6, <2>3 DEF Rest, Own, Times
  <2>4. CASE job = "erase_topic"
    BY <1>2, <1>3, <1>6, <2>4 DEF Rest, Own, Times
  <2> QED BY <2>1, <2>2, <2>3, <2>4 DEF Jobs
<1> QED BY <1>5, <1>6 DEF GoesOn

\* It erases now.
Erasure(t, job, topic, sub, n, x, r, h) ==
  /\ x = <<"erase", CellOf(job, t, sub), n>>
  /\ r = <<"unlock", Other(job, topic, sub)>> ** Rest(job, topic, sub)
  /\ h = Both(Own(job, topic, sub), Times(job), Other(job, topic, sub))

\* A thread that is about to erase.
LEMMA ErasesAt ==
  ASSUME NEW t \in Threads, NEW topic \in Topics, NEW sub \in Subscribers, NEW job \in Jobs, NEW n \in Nodes,
         NEW x \in Op, NEW r \in Seq(Op), NEW h, Erases(t, job, topic, sub, n, x ** r, h)
  PROVE  x[1] \in {"lock", "unlock", "relock"} \/ Erasure(t, job, topic, sub, n, x, r, h)
<1> DEFINE own == Own(job, topic, sub)
           other == Other(job, topic, sub)
           d == Times(job)
           c == CellOf(job, t, sub)
           rest == Rest(job, topic, sub)
           e == <<"erase", c, n>> ** (<<"unlock", other>> ** rest)
<1>1. own \in Mutexes /\ other \in Mutexes /\ c \in Cell /\ rest \in Seq(Op)
  BY Rests DEF CellOf, Cell, Mutexes
<1>2. \A y \in Op, s \in Seq(Op) : x ** r = y ** s => y = x /\ y[1] = x[1] /\ s = r
  BY AnyFirst
<1>3. Erasing(own, d, other, c, n, rest, x ** r, h)
  BY DEF Erases
<1> HIDE DEF own, other, d, c, rest
<1>4. /\ <<"unlock", other>> ** rest \in Seq(Op)
      /\ e \in Seq(Op) /\ <<"lock", own>> ** e \in Seq(Op)
      /\ <<"lock", other>> ** (<<"lock", own>> ** e) \in Seq(Op)
  BY <1>1, ErasingSeqs
<1>5. /\ <<"lock", other>> \in Op /\ <<"lock", own>> \in Op /\ <<"unlock", own>> \in Op
      /\ <<"relock", own, other>> \in Op /\ <<"erase", c, n>> \in Op
  BY <1>1, Operations
<1>6. /\ <<"lock", other>>[1] = "lock" /\ <<"lock", own>>[1] = "lock" /\ <<"unlock", own>>[1] = "unlock"
      /\ <<"relock", own, other>>[1] = "relock"
  OBVIOUS
<1>7. CASE x ** r = e /\ h = Both(own, d, other)
  <2>1. x = <<"erase", c, n>> /\ r = <<"unlock", other>> ** rest
    BY <1>2, <1>4, <1>5, <1>7
  <2> QED BY <1>7, <2>1 DEF Erasure, own, other, d, c, rest
<1> HIDE DEF e
<1>8. CASE x ** r = <<"relock", own, other>> ** e /\ h = Has(own, d)
  BY <1>2, <1>4, <1>5, <1>6, <1>8
<1>9. CASE \/ x ** r = <<"lock", other>> ** e
           \/ x ** r = <<"unlock", own>> ** (<<"lock", other>> ** (<<"lock", own>> ** e))
           \/ x ** r = <<"lock", other>> ** (<<"lock", own>> ** e)
           \/ x ** r = <<"lock", own>> ** e
  BY <1>2, <1>4, <1>5, <1>6, <1>9
<1> QED BY <1>3, <1>7, <1>8, <1>9 DEF Erasing, e

\* A thread at its end.
LEMMA EndsAt ==
  ASSUME NEW x \in Op, NEW r \in Seq(Op), NEW h, Ends(x ** r, h)
  PROVE  x[1] = "unlock"
<1>1. <<>> \in Seq(Op)
  OBVIOUS
<1>2. x ** r # <<>> /\ \A y \in Op, s \in Seq(Op) : x ** r = y ** s => y = x /\ y[1] = x[1] /\ s = r
  BY AnyFirst
<1>3. \A m \in Mutexes : <<"unlock", m>> \in Op /\ <<"unlock", m>>[1] = "unlock"
  BY Operations
<1> QED BY <1>1, <1>2, <1>3 DEF Ends

-----------------------------------------------------------------------------
(* Lists: adding, removing and moving *)

\* The pointers of a list, and where it begins: what the lemmas are about.
Pointers(ptr, prev, next, first) ==
  /\ ptr \in [Cell -> Nodes \cup {Nil}] /\ prev \in [Nodes -> Cell \cup {Nil}]
  /\ next \in [Nodes -> Cell] /\ \A x, y \in Nodes : next[x] = next[y] => x = y
  /\ first \in Cell /\ \A x \in Nodes : next[x] # first

\* No node comes after itself.
LEMMA NotAfterItself ==
  ASSUME NEW ptr, NEW prev, NEW next, NEW first, NEW M \in SUBSET Nodes,
         Pointers(ptr, prev, next, first), List(ptr, prev, next, first, M), NEW n \in M
  PROVE  prev[n] # next[n]
<1> SUFFICES ASSUME prev[n] = next[n] PROVE FALSE
  OBVIOUS
<1>1. \A c \in Cells(next, first, M) : ptr[c] # Nil => ptr[c] \in M /\ prev[ptr[c]] = c
  BY DEF List
<1>2. \A x \in M : next[x] = next[n] => x = n
  BY DEF Pointers
<1>3. \A c \in Cells(next, first, M) : c # next[n] => ptr[c] \in (M \ {n}) \cup {Nil}
  BY <1>1
<1>4. first # next[n]
  BY DEF Pointers
<1>5. Closed(ptr, next, first, M \ {n})
  BY <1>2, <1>3, <1>4 DEF Closed, Cells
<1>6. M \subseteq M \ {n}
  BY <1>5 DEF List
<1> QED BY <1>6

\* A node taken out.
LEMMA ListRemoved ==
  ASSUME NEW ptr, NEW prev, NEW next, NEW first, NEW M \in SUBSET Nodes,
         Pointers(ptr, prev, next, first), List(ptr, prev, next, first, M), NEW n \in M,
         NEW ptr2, NEW prev2, Nil \notin Nodes,
         \A c \in Cells(next, first, M) : ptr2[c] = IF c = prev[n] THEN ptr[next[n]] ELSE ptr[c],
         \A x \in M : prev2[x] = IF x = ptr[next[n]] THEN prev[n] ELSE prev[x]
  PROVE  List(ptr2, prev2, next, first, M \ {n})
<1> DEFINE N == M \ {n}
<1>1. \A c \in Cells(next, first, M) : ptr[c] # Nil => ptr[c] \in M /\ prev[ptr[c]] = c
  BY DEF List
<1>2. \A x \in M : prev[x] \in Cells(next, first, M) /\ ptr[prev[x]] = x
  BY DEF List
<1>3. prev[n] # next[n]
  BY NotAfterItself
<1>4. \A c : c \in Cells(next, first, N) <=> c \in Cells(next, first, M) /\ c # next[n]
  BY DEF Cells, Pointers
<1>5. next[n] \in Cells(next, first, M)
  BY DEF Cells
<1>6. ASSUME NEW c \in Cells(next, first, N), ptr2[c] # Nil
      PROVE  ptr2[c] \in N /\ prev2[ptr2[c]] = c
  <2>1. c \in Cells(next, first, M) /\ c # next[n]
    BY <1>4, <1>6
  <2>2. CASE c = prev[n]
    <3>1. ptr2[c] = ptr[next[n]]
      BY <2>1, <2>2
    <3>2. ptr2[c] \in M /\ prev[ptr2[c]] = next[n]
      BY <1>1, <1>5, <1>6, <3>1
    <3> QED BY <1>3, <2>2, <3>1, <3>2
  <2>3. CASE c # prev[n]
    <3>1. ptr2[c] = ptr[c] /\ ptr[c] \in M /\ prev[ptr[c]] = c
      BY <1>1, <1>6, <2>1, <2>3
    <3>2. ptr[c] # n /\ ptr[c] # ptr[next[n]]
      BY <1>1, <1>5, <2>1, <2>3, <3>1, <1>6
    <3> QED BY <3>1, <3>2
  <2> QED BY <2>2, <2>3
<1>7. ASSUME NEW x \in N
      PROVE  prev2[x] \in Cells(next, first, N) /\ ptr2[prev2[x]] = x
  <2>1. CASE x = ptr[next[n]]
    <3>1. prev2[x] = prev[n] /\ prev[n] \in Cells(next, first, M)
      BY <1>2, <2>1
    <3>2. ptr2[prev[n]] = x
      BY <2>1, <3>1
    <3> QED BY <1>3, <1>4, <3>1, <3>2
  <2>2. CASE x # ptr[next[n]]
    <3>1. prev2[x] = prev[x] /\ prev[x] \in Cells(next, first, M) /\ ptr[prev[x]] = x
      BY <1>2, <2>2
    <3>2. prev[x] # next[n] /\ prev[x] # prev[n]
      BY <1>2, <2>2, <3>1
    <3> QED BY <1>4, <3>1, <3>2
  <2> QED BY <2>1, <2>2
<1>8. ASSUME NEW X \in SUBSET Nodes, Closed(ptr2, next, first, X)
      PROVE  N \subseteq X
  <2>1. prev[n] \in Cells(next, first, M)
    BY <1>2
  <2>2. first \in Cells(next, first, M) /\ \A x \in M : next[x] \in Cells(next, first, M)
    BY DEF Cells
  <2>3. CASE prev[n] = first \/ \E p \in X \cap M : prev[n] = next[p]
    <3> DEFINE Y == (X \cap M) \cup {n}
    <3>1. ptr2[prev[n]] = ptr[next[n]] /\ ptr2[prev[n]] \in X \cup {Nil}
      BY <1>8, <2>1, <2>3 DEF Closed
    <3>2. ptr[next[n]] \in Y \cup {Nil}
      BY <1>1, <1>5, <3>1
    <3>3. ptr[first] \in Y \cup {Nil}
      <4>1. CASE first = prev[n]
        BY <1>2, <4>1
      <4>2. CASE first # prev[n]
        <5>1. ptr2[first] = ptr[first] /\ ptr2[first] \in X \cup {Nil}
          BY <1>8, <2>2, <4>2 DEF Closed
        <5> QED BY <1>1, <2>2, <5>1
      <4> QED BY <4>1, <4>2
    <3>4. ASSUME NEW x \in X \cap M PROVE ptr[next[x]] \in Y \cup {Nil}
      <4>1. CASE next[x] = prev[n]
        BY <1>2, <4>1
      <4>2. CASE next[x] # prev[n]
        <5>1. ptr2[next[x]] = ptr[next[x]] /\ ptr2[next[x]] \in X \cup {Nil}
          BY <1>8, <2>2, <4>2 DEF Closed
        <5> QED BY <1>1, <2>2, <5>1
      <4> QED BY <4>1, <4>2
    <3>5. Closed(ptr, next, first, Y) /\ Y \in SUBSET Nodes
      BY <3>2, <3>3, <3>4 DEF Closed
    <3>6. M \subseteq Y
      BY <3>5 DEF List
    <3> QED BY <3>6
  <2>4. CASE prev[n] # first /\ \A p \in X \cap M : prev[n] # next[p]
    <3> DEFINE Y == X \cap M
    <3>1. ptr[first] \in Y \cup {Nil}
      <4>1. ptr2[first] = ptr[first] /\ ptr2[first] \in X \cup {Nil}
        BY <1>8, <2>2, <2>4 DEF Closed
      <4> QED BY <1>1, <2>2, <4>1
    <3>2. ASSUME NEW x \in X \cap M PROVE ptr[next[x]] \in Y \cup {Nil}
      <4>1. ptr2[next[x]] = ptr[next[x]] /\ ptr2[next[x]] \in X \cup {Nil}
        BY <1>8, <2>2, <2>4 DEF Closed
      <4> QED BY <1>1, <2>2, <4>1
    <3>3. Closed(ptr, next, first, Y) /\ Y \in SUBSET Nodes
      BY <3>1, <3>2 DEF Closed
    <3>4. M \subseteq Y
      BY <3>3 DEF List
    <3> QED BY <3>4
  <2> QED BY <2>3, <2>4
<1> QED BY <1>6, <1>7, <1>8 DEF List

\* A node put in, where a cell leads.
LEMMA ListInserted ==
  ASSUME NEW ptr, NEW prev, NEW next, NEW first, NEW M \in SUBSET Nodes,
         Pointers(ptr, prev, next, first), List(ptr, prev, next, first, M),
         NEW n \in Nodes \ M, NEW at \in Cells(next, first, M),
         NEW ptr2, NEW prev2, Nil \notin Nodes,
         ptr2[at] = n, ptr2[next[n]] = ptr[at], prev2[n] = at,
         \A c \in Cells(next, first, M) : c # at => ptr2[c] = ptr[c],
         \A x \in M : prev2[x] = IF x = ptr[at] THEN next[n] ELSE prev[x]
  PROVE  List(ptr2, prev2, next, first, M \cup {n})
<1> DEFINE N == M \cup {n}
<1>1. \A c \in Cells(next, first, M) : ptr[c] # Nil => ptr[c] \in M /\ prev[ptr[c]] = c
  BY DEF List
<1>2. \A x \in M : prev[x] \in Cells(next, first, M) /\ ptr[prev[x]] = x
  BY DEF List
<1>3. \A c : c \in Cells(next, first, N) <=> c \in Cells(next, first, M) \/ c = next[n]
  BY DEF Cells
<1>4. next[n] \notin Cells(next, first, M)
  BY DEF Cells, Pointers
<1>5. ASSUME NEW c \in Cells(next, first, N), ptr2[c] # Nil
      PROVE  ptr2[c] \in N /\ prev2[ptr2[c]] = c
  <2>1. CASE c = at
    BY <2>1
  <2>2. CASE c = next[n]
    <3>1. ptr2[c] = ptr[at] /\ ptr[at] \in M
      BY <1>1, <1>5, <2>2
    <3> QED BY <2>2, <3>1
  <2>3. CASE c \in Cells(next, first, M) /\ c # at
    <3>1. ptr2[c] = ptr[c] /\ ptr[c] \in M /\ prev[ptr[c]] = c
      BY <1>1, <1>5, <2>3
    <3>2. ptr[c] # ptr[at]
      BY <1>1, <2>3, <3>1, <1>5
    <3> QED BY <3>1, <3>2
  <2> QED BY <1>3, <2>1, <2>2, <2>3
<1>6. ASSUME NEW x \in N
      PROVE  prev2[x] \in Cells(next, first, N) /\ ptr2[prev2[x]] = x
  <2>1. CASE x = n
    BY <1>3, <2>1
  <2>2. CASE x \in M /\ x = ptr[at]
    BY <1>3, <2>2
  <2>3. CASE x \in M /\ x # ptr[at]
    <3>1. prev2[x] = prev[x] /\ prev[x] \in Cells(next, first, M) /\ ptr[prev[x]] = x
      BY <1>2, <2>3
    <3> QED BY <1>3, <2>3, <3>1
  <2> QED BY <2>1, <2>2, <2>3
<1>7. ASSUME NEW X \in SUBSET Nodes, Closed(ptr2, next, first, X)
      PROVE  N \subseteq X
  <2> DEFINE Y == X \cap M
  <2>1. first \in Cells(next, first, M) /\ \A x \in M : next[x] \in Cells(next, first, M)
    BY DEF Cells
  <2>2. n \in X => ptr[at] \in Y \cup {Nil}
    BY <1>1, <1>7 DEF Closed
  <2>3. ptr[first] \in Y \cup {Nil}
    <3>1. CASE first = at
      BY <1>7, <2>2, <3>1 DEF Closed
    <3>2. CASE first # at
      <4>1. ptr2[first] = ptr[first] /\ ptr2[first] \in X \cup {Nil}
        BY <1>7, <2>1, <3>2 DEF Closed
      <4> QED BY <1>1, <2>1, <4>1
    <3> QED BY <3>1, <3>2
  <2>4. ASSUME NEW x \in Y PROVE ptr[next[x]] \in Y \cup {Nil}
    <3>1. CASE next[x] = at
      BY <1>7, <2>2, <3>1 DEF Closed
    <3>2. CASE next[x] # at
      <4>1. ptr2[next[x]] = ptr[next[x]] /\ ptr2[next[x]] \in X \cup {Nil}
        BY <1>7, <2>1, <3>2 DEF Closed
      <4> QED BY <1>1, <2>1, <4>1
    <3> QED BY <3>1, <3>2
  <2>5. Closed(ptr, next, first, Y) /\ Y \in SUBSET Nodes
    BY <2>3, <2>4 DEF Closed
  <2>6. M \subseteq X
    BY <2>5 DEF List
  <2>7. n \in X
    <3>1. at = first \/ \E x \in M : at = next[x]
      BY DEF Cells
    <3>2. ptr2[at] \in X \cup {Nil}
      BY <1>7, <2>6, <3>1 DEF Closed
    <3> QED BY <3>2
  <2> QED BY <2>6, <2>7
<1> QED BY <1>5, <1>6, <1>7 DEF List

\* A list that begins in another cell.
LEMMA ListMoved ==
  ASSUME NEW ptr, NEW prev, NEW next, NEW first, NEW M \in SUBSET Nodes,
         Pointers(ptr, prev, next, first), List(ptr, prev, next, first, M),
         NEW to \in Cell, NEW ptr2, NEW prev2, Nil \notin Nodes,
         ptr2[to] = ptr[first],
         \A x \in M : next[x] # to /\ ptr2[next[x]] = ptr[next[x]],
         \A x \in M : prev2[x] = IF x = ptr[first] THEN to ELSE prev[x]
  PROVE  List(ptr2, prev2, next, to, M)
<1>1. \A c \in Cells(next, first, M) : ptr[c] # Nil => ptr[c] \in M /\ prev[ptr[c]] = c
  BY DEF List
<1>2. \A x \in M : prev[x] \in Cells(next, first, M) /\ ptr[prev[x]] = x
  BY DEF List
<1>3. first \in Cells(next, first, M) /\ \A x \in M : next[x] \in Cells(next, first, M) /\ next[x] # first
  BY DEF Cells, Pointers
<1>4. ASSUME NEW c \in Cells(next, to, M), ptr2[c] # Nil
      PROVE  ptr2[c] \in M /\ prev2[ptr2[c]] = c
  <2>1. CASE c = to
    BY <1>1, <1>3, <1>4, <2>1
  <2>2. CASE \E x \in M : c = next[x]
    <3>1. PICK x \in M : c = next[x]
      BY <2>2
    <3>2. ptr2[c] = ptr[c] /\ ptr[c] \in M /\ prev[ptr[c]] = c
      BY <1>1, <1>3, <1>4, <3>1
    <3>3. ptr[c] # ptr[first]
      BY <1>1, <1>3, <3>1, <3>2
    <3> QED BY <3>2, <3>3
  <2> QED BY <2>1, <2>2 DEF Cells
<1>5. ASSUME NEW x \in M
      PROVE  prev2[x] \in Cells(next, to, M) /\ ptr2[prev2[x]] = x
  <2>1. CASE x = ptr[first]
    BY <2>1 DEF Cells
  <2>2. CASE x # ptr[first]
    <3>1. prev2[x] = prev[x] /\ prev[x] # first /\ ptr[prev[x]] = x
      BY <1>2, <2>2
    <3>2. PICK y \in M : prev[x] = next[y]
      BY <1>2, <3>1 DEF Cells
    <3> QED BY <3>1, <3>2 DEF Cells
  <2> QED BY <2>1, <2>2
<1>6. ASSUME NEW X \in SUBSET Nodes, Closed(ptr2, next, to, X)
      PROVE  M \subseteq X
  <2>1. ptr[first] \in (X \cap M) \cup {Nil}
    BY <1>1, <1>3, <1>6 DEF Closed
  <2>2. \A x \in X \cap M : ptr[next[x]] \in (X \cap M) \cup {Nil}
    BY <1>1, <1>3, <1>6 DEF Closed
  <2>3. Closed(ptr, next, first, X \cap M) /\ X \cap M \in SUBSET Nodes
    BY <2>1, <2>2 DEF Closed
  <2>4. M \subseteq X \cap M
    BY <2>3 DEF List
  <2> QED BY <2>4
<1> QED BY <1>4, <1>5, <1>6 DEF List

\* A list whose pointers are left alone.
LEMMA ListKept ==
  ASSUME NEW ptr, NEW prev, NEW next, NEW first, NEW M \in SUBSET Nodes,
         Pointers(ptr, prev, next, first), List(ptr, prev, next, first, M),
         NEW ptr2, NEW prev2, Nil \notin Nodes,
         \A c \in Cells(next, first, M) : ptr2[c] = ptr[c],
         \A x \in M : prev2[x] = prev[x]
  PROVE  List(ptr2, prev2, next, first, M)
<1>1. first \in Cells(next, first, M) /\ \A x \in M : next[x] \in Cells(next, first, M) /\ next[x] # first
  BY DEF Cells, Pointers
<1>2. \A x \in M : x = ptr[first] => prev[x] = first
  BY <1>1 DEF List
<1>3. first \in Cell /\ ptr2[first] = ptr[first]
  BY <1>1 DEF Pointers
<1>4. \A x \in M : next[x] # first /\ ptr2[next[x]] = ptr[next[x]]
  BY <1>1
<1>5. \A x \in M : prev2[x] = IF x = ptr[first] THEN first ELSE prev[x]
  BY <1>2
<1> QED BY <1>3, <1>4, <1>5, ListMoved

\* An empty list, and one that begins with nothing.
LEMMA ListEmpty ==
  ASSUME NEW ptr, NEW prev, NEW next, NEW first, ptr[first] = Nil
  PROVE  List(ptr, prev, next, first, {})
  BY DEF List, Cells
\* A list whose first cell is null has no members.
LEMMA ListNone ==
  ASSUME NEW ptr, NEW prev, NEW next, NEW first, NEW M \in SUBSET Nodes,
         List(ptr, prev, next, first, M), ptr[first] = Nil
  PROVE  M = {}
<1>1. Closed(ptr, next, first, {})
  BY DEF Closed
<1> QED BY <1>1 DEF List

-----------------------------------------------------------------------------
(* What the operations do to the lists *)

\* Cells of different kinds are different.
LEMMA CellKinds ==
  /\ \A x \in Mutexes : Head_(x) \in Cell
  /\ \A n \in Nodes : TopicNext(n) \in Cell /\ SubNext(n) \in Cell
  /\ \A t \in Threads : Local(t) \in Cell
  /\ Locals \subseteq Cell /\ Nil \notin Cell
  /\ \A x, y : /\ Head_(x) # TopicNext(y) /\ Head_(x) # SubNext(y) /\ Head_(x) # Local(y)
               /\ TopicNext(x) # SubNext(y) /\ TopicNext(x) # Local(y) /\ SubNext(x) # Local(y)
  /\ \A x, y : /\ Head_(x) = Head_(y) => x = y
               /\ TopicNext(x) = TopicNext(y) => x = y
               /\ SubNext(x) = SubNext(y) => x = y
               /\ Local(x) = Local(y) => x = y
  /\ \A c \in Locals : /\ \A x : c # Head_(x) /\ c # TopicNext(x) /\ c # SubNext(x)
                       /\ \E t \in Threads : c = Local(t)
<1>1. /\ \A x \in Mutexes : Head_(x) \in Cell
      /\ \A n \in Nodes : TopicNext(n) \in Cell /\ SubNext(n) \in Cell
      /\ \A t \in Threads : Local(t) \in Cell
      /\ Locals \subseteq Cell /\ Nil \notin Cell
  BY SubscriptionAssumption DEF Cell, Locals
<1>2. \A x, y : /\ Head_(x) # TopicNext(y) /\ Head_(x) # SubNext(y) /\ Head_(x) # Local(y)
                /\ TopicNext(x) # SubNext(y) /\ TopicNext(x) # Local(y) /\ SubNext(x) # Local(y)
  BY DEF Head_, TopicNext, SubNext, Local
<1>3. \A x, y : /\ Head_(x) = Head_(y) => x = y
                /\ TopicNext(x) = TopicNext(y) => x = y
                /\ SubNext(x) = SubNext(y) => x = y
                /\ Local(x) = Local(y) => x = y
  BY DEF Head_, TopicNext, SubNext, Local
<1>4. \A c \in Locals : \E t \in Threads : c = Local(t)
  BY DEF Locals
<1>5. \A c \in Locals : \A x : c # Head_(x) /\ c # TopicNext(x) /\ c # SubNext(x)
  BY <1>2, <1>4
<1> QED BY <1>1, <1>2, <1>3, <1>4, <1>5

\* The cells of the lists.
LEMMA ListCells ==
  ASSUME NEW m, NEW first, Linked(m, first)
  PROVE  /\ \A topic \in Topics : Pointers(m.ptr, m.topic_prev, TNext, first[topic])
         /\ \A sub \in Subscribers : Pointers(m.ptr, m.subscriber_prev, SNext, Head_(sub))
<1>1. /\ m.ptr \in [Cell -> Nodes \cup {Nil}]
      /\ m.topic_prev \in [Nodes -> Cell \cup {Nil}] /\ m.subscriber_prev \in [Nodes -> Cell \cup {Nil}]
  BY DEF Linked, Mem
<1>2. /\ TNext \in [Nodes -> Cell] /\ \A x, y \in Nodes : TNext[x] = TNext[y] => x = y
      /\ SNext \in [Nodes -> Cell] /\ \A x, y \in Nodes : SNext[x] = SNext[y] => x = y
  BY CellKinds DEF TNext, SNext
<1>3. ASSUME NEW topic \in Topics
      PROVE  first[topic] \in Cell /\ \A x \in Nodes : TNext[x] # first[topic]
  <2>1. first[topic] \in {Head_(topic)} \cup Locals
    BY DEF Linked, Firsts
  <2>2. topic \in Mutexes
    BY DEF Mutexes
  <2> QED BY <2>1, <2>2, CellKinds DEF TNext
<1>4. ASSUME NEW sub \in Subscribers
      PROVE  Head_(sub) \in Cell /\ \A x \in Nodes : SNext[x] # Head_(sub)
  <2>1. sub \in Mutexes
    BY DEF Mutexes
  <2> QED BY <2>1, CellKinds DEF SNext
<1> QED BY <1>1, <1>2, <1>3, <1>4 DEF Pointers

\* A node is in the list of its topic, and in that of its subscriber.
LEMMA LiveNode ==
  ASSUME NEW m, NEW first, Linked(m, first), NEW n \in Nodes, Live(m, n)
  PROVE  /\ m.m_topic[n] \in Topics /\ m.m_subscriber[n] \in Subscribers
         /\ n \in OfTopic(m, m.m_topic[n]) /\ n \in OfSub(m, m.m_subscriber[n])
         /\ m.topic_prev[n] \in Cells(TNext, first[m.m_topic[n]], OfTopic(m, m.m_topic[n]))
         /\ m.subscriber_prev[n] \in Cells(SNext, Head_(m.m_subscriber[n]), OfSub(m, m.m_subscriber[n]))
         /\ m.ptr[m.topic_prev[n]] = n /\ m.ptr[m.subscriber_prev[n]] = n
         /\ m.topic_prev[n] \in Cell /\ m.subscriber_prev[n] \in Cell
         /\ n \notin Fresh(m)
         /\ \A c \in Locals : m.subscriber_prev[n] # c
         /\ \A x : m.subscriber_prev[n] # TopicNext(x) /\ m.topic_prev[n] # SubNext(x)
         /\ m.subscriber_prev[n] # m.topic_prev[n]
<1>1. m.m_topic[n] \in Topics /\ m.m_subscriber[n] \in Subscribers
  BY DEF Linked, Mem, Live
<1>2. n \in OfTopic(m, m.m_topic[n]) /\ n \in OfSub(m, m.m_subscriber[n])
  BY DEF OfTopic, OfSub
<1>3. /\ m.topic_prev[n] \in Cells(TNext, first[m.m_topic[n]], OfTopic(m, m.m_topic[n]))
      /\ m.ptr[m.topic_prev[n]] = n
  BY <1>1, <1>2 DEF Linked, List
<1>4. /\ m.subscriber_prev[n] \in Cells(SNext, Head_(m.m_subscriber[n]), OfSub(m, m.m_subscriber[n]))
      /\ m.ptr[m.subscriber_prev[n]] = n
  BY <1>1, <1>2 DEF Linked, List
<1>5. \/ m.subscriber_prev[n] = Head_(m.m_subscriber[n])
      \/ \E y \in Nodes : m.subscriber_prev[n] = SubNext(y)
  BY <1>4 DEF Cells, OfSub, SNext
<1>6. first[m.m_topic[n]] \in {Head_(m.m_topic[n])} \cup Locals
  BY <1>1 DEF Linked, Firsts
<1>7. \/ m.topic_prev[n] \in {Head_(m.m_topic[n])} \cup Locals
      \/ \E y \in Nodes : m.topic_prev[n] = TopicNext(y)
  BY <1>3, <1>6 DEF Cells, OfTopic, TNext
<1>8. m.m_topic[n] \in Mutexes /\ m.m_subscriber[n] \in Mutexes /\ m.m_topic[n] # m.m_subscriber[n]
  BY <1>1, SubscriptionAssumption DEF Mutexes
<1>9. m.topic_prev[n] \in Cell /\ m.subscriber_prev[n] \in Cell
  BY <1>5, <1>7, <1>8, CellKinds
<1>10. n \notin Fresh(m)
  BY <1>9, CellKinds DEF Fresh
<1>11. /\ \A c \in Locals : m.subscriber_prev[n] # c
       /\ \A x : m.subscriber_prev[n] # TopicNext(x) /\ m.topic_prev[n] # SubNext(x)
  BY <1>5, <1>7, CellKinds
<1>12. m.subscriber_prev[n] # m.topic_prev[n]
  BY <1>5, <1>7, <1>8, CellKinds
<1> QED BY <1>1, <1>2, <1>3, <1>4, <1>9, <1>10, <1>11, <1>12

\* unsubscribe() in one step.
LEMMA UnsubscribeIs ==
  ASSUME NEW m, NEW first, Linked(m, first), NEW n \in Nodes, Live(m, n), NEW m2, m2 = unsubscribe(m, n)
  PROVE  /\ m2 \in Mem /\ m2.m_tail = m.m_tail /\ m2.m_erasing_nodes = m.m_erasing_nodes
         /\ \A c \in Cell : m2.ptr[c] = IF c = m.topic_prev[n] THEN m.ptr[TopicNext(n)]
                                        ELSE IF c = m.subscriber_prev[n] THEN m.ptr[SubNext(n)]
                                        ELSE IF c \in m.m_erasing_nodes[n] THEN Nil ELSE m.ptr[c]
         /\ \A x \in Nodes :
              /\ m2.topic_prev[x] = IF x = m.ptr[TopicNext(n)] THEN m.topic_prev[n] ELSE m.topic_prev[x]
              /\ m2.subscriber_prev[x] = IF x = m.ptr[SubNext(n)] THEN m.subscriber_prev[n]
                                         ELSE m.subscriber_prev[x]
              /\ m2.m_topic[x] = IF x = n THEN Nil ELSE m.m_topic[x]
              /\ m2.m_subscriber[x] = IF x = n THEN Nil ELSE m.m_subscriber[x]
<1> DEFINE tp == m.topic_prev[n]
           sp == m.subscriber_prev[n]
           tn == m.ptr[TopicNext(n)]
           sn == m.ptr[SubNext(n)]
           p1 == [c \in Cell |-> IF c \in m.m_erasing_nodes[n] THEN Nil ELSE m.ptr[c]]
           a == [m EXCEPT !.ptr = [c \in Cell |-> IF c \in m.m_erasing_nodes[n] THEN Nil ELSE @[c]]]
           b == erase_subscriber_topic(a, n)
<1>1. /\ m \in Mem /\ tp \in Cell /\ sp \in Cell /\ tn \in Nodes \cup {Nil} /\ sn \in Nodes \cup {Nil}
      /\ m.m_erasing_nodes[n] \subseteq Locals
      /\ TopicNext(n) \in Cell /\ SubNext(n) \in Cell
      /\ sp # tp /\ sp # TopicNext(n) /\ tp # SubNext(n) /\ SubNext(n) # TopicNext(n)
      /\ TopicNext(n) \notin Locals /\ SubNext(n) \notin Locals /\ sp \notin Locals
  <2>1. m \in Mem
    BY DEF Linked
  <2>2. m.ptr \in [Cell -> Nodes \cup {Nil}] /\ m.m_erasing_nodes \in [Nodes -> SUBSET Locals]
    BY <2>1 DEF Mem
  <2> QED BY <2>1, <2>2, LiveNode, CellKinds
<1>2. a = [m EXCEPT !.ptr = p1] /\ p1 \in [Cell -> Nodes \cup {Nil}]
  BY <1>1 DEF Mem
<1>3. /\ a \in Mem /\ a.ptr = p1 /\ a.topic_prev = m.topic_prev /\ a.subscriber_prev = m.subscriber_prev
      /\ a.m_tail = m.m_tail /\ a.m_topic = m.m_topic /\ a.m_subscriber = m.m_subscriber
      /\ a.m_erasing_nodes = m.m_erasing_nodes
  BY <1>1, <1>2 DEF Mem
<1>4. p1[SubNext(n)] = sn /\ p1[TopicNext(n)] = tn
  BY <1>1
<1> HIDE DEF a, p1
<1>5. /\ b.ptr = [p1 EXCEPT ![sp] = sn] /\ b.topic_prev = m.topic_prev
      /\ b.subscriber_prev = [x \in Nodes |-> IF x = sn THEN sp ELSE m.subscriber_prev[x]]
      /\ b.m_tail = m.m_tail /\ b.m_topic = [m.m_topic EXCEPT ![n] = Nil] /\ b.m_subscriber = m.m_subscriber
      /\ b.m_erasing_nodes = m.m_erasing_nodes
  BY <1>3, <1>4 DEF erase_subscriber_topic, Mem
<1>6. b \in Mem
  <2>1. /\ [p1 EXCEPT ![sp] = sn] \in [Cell -> Nodes \cup {Nil}]
        /\ [x \in Nodes |-> IF x = sn THEN sp ELSE m.subscriber_prev[x]] \in [Nodes -> Cell \cup {Nil}]
        /\ [m.m_topic EXCEPT ![n] = Nil] \in [Nodes -> Topics \cup {Nil}]
    BY <1>1, <1>2 DEF Mem
  <2> QED BY <1>3, <1>4, <2>1 DEF erase_subscriber_topic, Mem
<1>7. b.ptr[TopicNext(n)] = tn
  BY <1>1, <1>2, <1>4, <1>5
<1>8. m2 = erase_topic_subscriber(b, n)
  BY DEF unsubscribe, a
<1> HIDE DEF b
<1>9. /\ m2.ptr = [b.ptr EXCEPT ![tp] = tn] /\ m2.subscriber_prev = b.subscriber_prev
      /\ m2.topic_prev = [x \in Nodes |-> IF x = tn THEN tp ELSE m.topic_prev[x]]
      /\ m2.m_tail = m.m_tail /\ m2.m_topic = b.m_topic /\ m2.m_subscriber = [m.m_subscriber EXCEPT ![n] = Nil]
      /\ m2.m_erasing_nodes = m.m_erasing_nodes
  BY <1>5, <1>6, <1>7, <1>8 DEF erase_topic_subscriber, Mem
<1>10. m2 \in Mem
  <2> DEFINE P == [b.ptr EXCEPT ![b.topic_prev[n]] = b.ptr[TopicNext(n)]]
             Q == [x \in Nodes |-> IF x = b.ptr[TopicNext(n)] THEN b.topic_prev[n] ELSE b.topic_prev[x]]
             R == [b.m_subscriber EXCEPT ![n] = Nil]
  <2>1. b.ptr \in [Cell -> Nodes \cup {Nil}] /\ b.topic_prev \in [Nodes -> Cell \cup {Nil}]
        /\ b.m_subscriber \in [Nodes -> Subscribers \cup {Nil}] /\ TopicNext(n) \in Cell
    BY <1>1, <1>6 DEF Mem
  <2>2. /\ P \in [Cell -> Nodes \cup {Nil}] /\ Q \in [Nodes -> Cell \cup {Nil}]
        /\ R \in [Nodes -> Subscribers \cup {Nil}]
    BY <2>1
  <2>3. m2 = [b EXCEPT !.ptr = P, !.topic_prev = Q, !.m_subscriber = R]
    BY <1>8 DEF erase_topic_subscriber
  <2> HIDE DEF P, Q, R
  <2> QED BY <1>6, <2>2, <2>3 DEF Mem
<1>11. ASSUME NEW c \in Cell
       PROVE  m2.ptr[c] = IF c = tp THEN tn ELSE IF c = sp THEN sn
                          ELSE IF c \in m.m_erasing_nodes[n] THEN Nil ELSE m.ptr[c]
  <2>1. b.ptr \in [Cell -> Nodes \cup {Nil}]
    BY <1>6 DEF Mem
  <2>2. m2.ptr[c] = IF c = tp THEN tn ELSE b.ptr[c]
    BY <1>1, <1>9, <2>1
  <2>3. b.ptr[c] = IF c = sp THEN sn ELSE p1[c]
    BY <1>1, <1>2, <1>5
  <2>4. p1[c] = IF c \in m.m_erasing_nodes[n] THEN Nil ELSE m.ptr[c]
    BY DEF p1
  <2> HIDE DEF tp, tn, sp, sn
  <2> QED BY <2>2, <2>3, <2>4
<1>12. \A x \in Nodes : /\ m2.m_topic[x] = IF x = n THEN Nil ELSE m.m_topic[x]
                        /\ m2.m_subscriber[x] = IF x = n THEN Nil ELSE m.m_subscriber[x]
  BY <1>1, <1>5, <1>9 DEF Mem
<1>13. \A x \in Nodes : /\ m2.topic_prev[x] = IF x = tn THEN tp ELSE m.topic_prev[x]
                        /\ m2.subscriber_prev[x] = IF x = sn THEN sp ELSE m.subscriber_prev[x]
  BY <1>5, <1>9
<1>14. m2.m_tail = m.m_tail /\ m2.m_erasing_nodes = m.m_erasing_nodes
  BY <1>9
<1> QED BY <1>10, <1>11, <1>12, <1>13, <1>14

\* The cells of a list are in no other one.
LEMMA CellsApart ==
  ASSUME NEW m, NEW first, Linked(m, first)
  PROVE  /\ \A T \in Topics, S \in Subscribers, c \in Cell :
              ~(c \in Cells(TNext, first[T], OfTopic(m, T)) /\ c \in Cells(SNext, Head_(S), OfSub(m, S)))
         /\ \A T, U \in Topics : \A c \in Cell :
              c \in Cells(TNext, first[T], OfTopic(m, T)) /\ c \in Cells(TNext, first[U], OfTopic(m, U)) => T = U
         /\ \A T, U \in Subscribers : \A c \in Cell :
              c \in Cells(SNext, Head_(T), OfSub(m, T)) /\ c \in Cells(SNext, Head_(U), OfSub(m, U)) => T = U
         /\ \A T \in Topics : \A c \in Cells(TNext, first[T], OfTopic(m, T)) :
              /\ c \in Cell /\ \A x \in Nodes : c # SubNext(x)
              /\ \A x \in Nodes : c = TopicNext(x) => x \in OfTopic(m, T)
              /\ c \in Locals => c = first[T]
         /\ \A S \in Subscribers : \A c \in Cells(SNext, Head_(S), OfSub(m, S)) :
              /\ c \in Cell /\ c \notin Locals /\ \A x \in Nodes : c # TopicNext(x)
              /\ \A x \in Nodes : c = SubNext(x) => x \in OfSub(m, S)
<1>1. ASSUME NEW T \in Topics, NEW c \in Cells(TNext, first[T], OfTopic(m, T))
      PROVE  /\ c = first[T] \/ \E x \in OfTopic(m, T) : c = TopicNext(x)
             /\ first[T] \in {Head_(T)} \cup Locals /\ T \in Mutexes
  BY DEF Cells, TNext, Linked, Firsts, OfTopic, Mutexes
<1>2. ASSUME NEW S \in Subscribers, NEW c \in Cells(SNext, Head_(S), OfSub(m, S))
      PROVE  /\ c = Head_(S) \/ \E x \in OfSub(m, S) : c = SubNext(x)
             /\ S \in Mutexes
  BY DEF Cells, SNext, OfSub, Mutexes
<1>3. \A T, U \in Topics : first[T] = first[U] => T = U
  BY DEF Linked, Firsts
<1>4. \A T, U \in Topics : \A x \in Nodes : x \in OfTopic(m, T) /\ x \in OfTopic(m, U) => T = U
  BY DEF OfTopic
<1>5. \A T, U \in Subscribers : \A x \in Nodes : x \in OfSub(m, T) /\ x \in OfSub(m, U) => T = U
  BY DEF OfSub
<1>6. /\ \A T \in Topics : \A x \in OfTopic(m, T) : x \in Nodes
      /\ \A S \in Subscribers : \A x \in OfSub(m, S) : x \in Nodes
      /\ \A T \in Topics, S \in Subscribers : T # S
  BY SubscriptionAssumption DEF OfTopic, OfSub
<1>7. ASSUME NEW T \in Topics, NEW c \in Cells(TNext, first[T], OfTopic(m, T))
      PROVE  /\ c \in Cell /\ \A x \in Nodes : c # SubNext(x)
             /\ \A x \in Nodes : c = TopicNext(x) => x \in OfTopic(m, T)
             /\ c \in Locals => c = first[T]
  BY <1>1, <1>6, CellKinds
<1>8. ASSUME NEW S \in Subscribers, NEW c \in Cells(SNext, Head_(S), OfSub(m, S))
      PROVE  /\ c \in Cell /\ c \notin Locals /\ \A x \in Nodes : c # TopicNext(x)
             /\ \A x \in Nodes : c = SubNext(x) => x \in OfSub(m, S)
  BY <1>2, <1>6, CellKinds
<1>9. ASSUME NEW T \in Topics, NEW S \in Subscribers, NEW c \in Cell,
             c \in Cells(TNext, first[T], OfTopic(m, T)), c \in Cells(SNext, Head_(S), OfSub(m, S))
      PROVE  FALSE
  BY <1>1, <1>2, <1>6, <1>9, CellKinds
<1>10. ASSUME NEW T \in Topics, NEW U \in Topics, NEW c \in Cell,
             c \in Cells(TNext, first[T], OfTopic(m, T)), c \in Cells(TNext, first[U], OfTopic(m, U))
       PROVE  T = U
  BY <1>1, <1>3, <1>4, <1>6, <1>10, CellKinds
<1>11. ASSUME NEW T \in Subscribers, NEW U \in Subscribers, NEW c \in Cell,
             c \in Cells(SNext, Head_(T), OfSub(m, T)), c \in Cells(SNext, Head_(U), OfSub(m, U))
       PROVE  T = U
  BY <1>2, <1>5, <1>6, <1>11, CellKinds
<1> QED BY <1>7, <1>8, <1>9, <1>10, <1>11

\* A subscription that is erased is in neither list; the lists are good.
LEMMA Unsubscribed ==
  ASSUME NEW m, NEW first, Linked(m, first), NEW n \in Nodes, Live(m, n),
         \A T \in Topics : first[T] \notin m.m_erasing_nodes[n],
         NEW m2, m2 = unsubscribe(m, n)
  PROVE  Linked(m2, first) /\ Fresh(m2) = Fresh(m)
<1> DEFINE tp == m.topic_prev[n]
           sp == m.subscriber_prev[n]
           tn == m.ptr[TopicNext(n)]
           sn == m.ptr[SubNext(n)]
           topic == m.m_topic[n]
           sub == m.m_subscriber[n]
           MT(T) == OfTopic(m, T)
           MS(S) == OfSub(m, S)
           CT(T) == Cells(TNext, first[T], OfTopic(m, T))
           CS(S) == Cells(SNext, Head_(S), OfSub(m, S))
<1>1. /\ m2 \in Mem /\ m2.m_tail = m.m_tail /\ m2.m_erasing_nodes = m.m_erasing_nodes
      /\ \A c \in Cell : m2.ptr[c] = IF c = tp THEN tn ELSE IF c = sp THEN sn
                                     ELSE IF c \in m.m_erasing_nodes[n] THEN Nil ELSE m.ptr[c]
      /\ \A x \in Nodes :
           /\ m2.topic_prev[x] = IF x = tn THEN tp ELSE m.topic_prev[x]
           /\ m2.subscriber_prev[x] = IF x = sn THEN sp ELSE m.subscriber_prev[x]
           /\ m2.m_topic[x] = IF x = n THEN Nil ELSE m.m_topic[x]
           /\ m2.m_subscriber[x] = IF x = n THEN Nil ELSE m.m_subscriber[x]
  BY UnsubscribeIs
<1>2. /\ topic \in Topics /\ sub \in Subscribers /\ n \in MT(topic) /\ n \in MS(sub)
      /\ tp \in CT(topic) /\ sp \in CS(sub) /\ m.ptr[tp] = n /\ tp \in Cell /\ sp \in Cell
      /\ \A x : sp # TopicNext(x)
  BY LiveNode
<1>3. m.m_erasing_nodes[n] \subseteq Locals /\ m.m_topic \in [Nodes -> Topics \cup {Nil}]
      /\ m.m_subscriber \in [Nodes -> Subscribers \cup {Nil}] /\ m.m_tail \in [Topics -> Nodes \cup {Nil}]
      /\ m.ptr \in [Cell -> Nodes \cup {Nil}]
  BY DEF Linked, Mem
<1>4. /\ \A T \in Topics, S \in Subscribers, c \in Cell : ~(c \in CT(T) /\ c \in CS(S))
      /\ \A T, U \in Topics : \A c \in Cell : c \in CT(T) /\ c \in CT(U) => T = U
      /\ \A T, U \in Subscribers : \A c \in Cell : c \in CS(T) /\ c \in CS(U) => T = U
      /\ \A T \in Topics : \A c \in CT(T) : c \in Cell /\ (c \in Locals => c = first[T])
      /\ \A S \in Subscribers : \A c \in CS(S) : c \in Cell /\ c \notin Locals
      /\ \A T \in Topics : \A x \in Nodes : TopicNext(x) \in CT(T) => x \in MT(T)
  BY CellsApart
<1>5. /\ \A T \in Topics : List(m.ptr, m.topic_prev, TNext, first[T], MT(T))
      /\ \A S \in Subscribers : List(m.ptr, m.subscriber_prev, SNext, Head_(S), MS(S))
      /\ \A T \in Topics : Pointers(m.ptr, m.topic_prev, TNext, first[T])
      /\ \A S \in Subscribers : Pointers(m.ptr, m.subscriber_prev, SNext, Head_(S))
  BY ListCells DEF Linked
<1>6. Nil \notin Nodes /\ Nil \notin Topics /\ Nil \notin Subscribers
  BY SubscriptionAssumption DEF Mutexes
<1>7. tn = m.ptr[TNext[n]] /\ sn = m.ptr[SNext[n]] /\ TNext[n] = TopicNext(n) /\ SNext[n] = SubNext(n)
  BY DEF TNext, SNext
<1>8. TNext[n] \in CT(topic) /\ SNext[n] \in CS(sub)
  BY <1>2 DEF Cells
<1>9. (tn # Nil => tn \in MT(topic) /\ m.topic_prev[tn] = TopicNext(n))
      /\ (sn # Nil => sn \in MS(sub))
  BY <1>2, <1>5, <1>7, <1>8 DEF List
<1>10. ASSUME NEW T \in Topics
       PROVE  List(m2.ptr, m2.topic_prev, TNext, first[T], OfTopic(m2, T))
  <2>1. MT(T) \in SUBSET Nodes
    BY DEF OfTopic
  <2>2. \A c \in CT(T) : c # sp /\ c \notin m.m_erasing_nodes[n] /\ c \in Cell
    BY <1>2, <1>3, <1>4
  <2>3. CASE T = topic
    <3>1. OfTopic(m2, T) = MT(T) \ {n}
      BY <1>1, <1>6, <2>3 DEF OfTopic
    <3>2. \A c \in CT(T) : m2.ptr[c] = IF c = m.topic_prev[n] THEN m.ptr[TNext[n]] ELSE m.ptr[c]
      BY <1>1, <1>7, <2>2
    <3>3. \A x \in MT(T) : m2.topic_prev[x] = IF x = m.ptr[TNext[n]] THEN m.topic_prev[n] ELSE m.topic_prev[x]
      BY <1>1, <1>7, <2>1
    <3> HIDE DEF MT, CT
    <3>4. n \in MT(T)
      BY <1>2, <2>3
    <3> DEFINE M == MT(T)
    <3>5. List(m2.ptr, m2.topic_prev, TNext, first[T], M \ {n})
      <4>1. M \in SUBSET Nodes /\ n \in M /\ List(m.ptr, m.topic_prev, TNext, first[T], M)
            /\ Pointers(m.ptr, m.topic_prev, TNext, first[T])
        BY <1>5, <2>1, <3>4
      <4>2. \A c \in Cells(TNext, first[T], M) : m2.ptr[c] = IF c = m.topic_prev[n] THEN m.ptr[TNext[n]] ELSE m.ptr[c]
        BY <3>2 DEF MT, CT
      <4> HIDE DEF M
      <4> QED BY <1>6, <3>3, <4>1, <4>2, ListRemoved DEF M
    <3> QED BY <3>1, <3>5
  <2>4. CASE T # topic
    <3>1. OfTopic(m2, T) = MT(T)
      BY <1>1, <1>6, <2>4 DEF OfTopic
    <3>2. \A c \in CT(T) : m2.ptr[c] = m.ptr[c]
      BY <1>1, <1>2, <1>4, <2>2, <2>4
    <3>3. \A x \in MT(T) : m2.topic_prev[x] = m.topic_prev[x]
      BY <1>1, <1>6, <1>9, <2>4 DEF OfTopic
    <3> QED BY <1>5, <1>6, <2>1, <3>1, <3>2, <3>3, ListKept
  <2> QED BY <2>3, <2>4
<1>11. ASSUME NEW S \in Subscribers
       PROVE  List(m2.ptr, m2.subscriber_prev, SNext, Head_(S), OfSub(m2, S))
  <2>1. MS(S) \in SUBSET Nodes
    BY DEF OfSub
  <2>2. \A c \in CS(S) : c # tp /\ c \notin m.m_erasing_nodes[n] /\ c \in Cell
    BY <1>2, <1>3, <1>4
  <2>3. CASE S = sub
    <3>1. OfSub(m2, S) = MS(S) \ {n}
      BY <1>1, <1>6, <2>3 DEF OfSub
    <3>2. \A c \in CS(S) : m2.ptr[c] = IF c = m.subscriber_prev[n] THEN m.ptr[SNext[n]] ELSE m.ptr[c]
      BY <1>1, <1>7, <2>2
    <3>3. \A x \in MS(S) : m2.subscriber_prev[x] = IF x = m.ptr[SNext[n]] THEN m.subscriber_prev[n] ELSE m.subscriber_prev[x]
      BY <1>1, <1>7, <2>1
    <3> HIDE DEF MS, CS
    <3>4. n \in MS(S)
      BY <1>2, <2>3
    <3> DEFINE M == MS(S)
    <3>5. List(m2.ptr, m2.subscriber_prev, SNext, Head_(S), M \ {n})
      <4>1. M \in SUBSET Nodes /\ n \in M /\ List(m.ptr, m.subscriber_prev, SNext, Head_(S), M)
            /\ Pointers(m.ptr, m.subscriber_prev, SNext, Head_(S))
        BY <1>5, <2>1, <3>4
      <4>2. \A c \in Cells(SNext, Head_(S), M) : m2.ptr[c] = IF c = m.subscriber_prev[n] THEN m.ptr[SNext[n]] ELSE m.ptr[c]
        BY <3>2 DEF MS, CS
      <4> HIDE DEF M
      <4> QED BY <1>6, <3>3, <4>1, <4>2, ListRemoved DEF M
    <3> QED BY <3>1, <3>5
  <2>4. CASE S # sub
    <3>1. OfSub(m2, S) = MS(S)
      BY <1>1, <1>6, <2>4 DEF OfSub
    <3>2. \A c \in CS(S) : m2.ptr[c] = m.ptr[c]
      BY <1>1, <1>2, <1>4, <2>2, <2>4
    <3>3. \A x \in MS(S) : m2.subscriber_prev[x] = m.subscriber_prev[x]
      BY <1>1, <1>6, <1>9, <2>4 DEF OfSub
    <3> QED BY <1>5, <1>6, <2>1, <3>1, <3>2, <3>3, ListKept
  <2> QED BY <2>3, <2>4
<1>12. \A x \in Nodes : m2.m_topic[x] = Nil <=> m2.m_subscriber[x] = Nil
  BY <1>1 DEF Linked
<1>13. ASSUME NEW x \in Nodes
       PROVE  (m2.topic_prev[x] = Nil) <=> (m.topic_prev[x] = Nil)
  BY <1>1, <1>2, <1>6, <1>9, CellKinds
<1>14. Fresh(m2) = Fresh(m)
  BY <1>13 DEF Fresh
<1>15. \A x \in Nodes : TopicNext(x) # tp => m2.ptr[TopicNext(x)] = m.ptr[TopicNext(x)]
  BY <1>1, <1>2, <1>3, CellKinds
<1>16. ASSUME NEW x \in Fresh(m2)
       PROVE  m2.m_topic[x] = Nil /\ m2.ptr[TopicNext(x)] = Nil /\ m2.m_erasing_nodes[x] = {}
  <2>1. x \in Nodes /\ m.m_topic[x] = Nil /\ m.ptr[TopicNext(x)] = Nil /\ m.m_erasing_nodes[x] = {}
    BY <1>14 DEF Fresh, Linked
  <2>2. TopicNext(x) # tp
    BY <1>2, <1>6, <2>1
  <2> QED BY <1>1, <1>15, <2>1, <2>2
<1>17. ASSUME NEW T \in Topics, m2.m_tail[T] # Nil, m2.m_topic[m2.m_tail[T]] = T
       PROVE  m2.ptr[TopicNext(m2.m_tail[T])] = Nil
  <2>1. m.m_tail[T] \in Nodes /\ m.m_topic[m.m_tail[T]] = T
    BY <1>1, <1>3, <1>6, <1>17
  <2>2. m.ptr[TopicNext(m.m_tail[T])] = Nil
    BY <1>6, <2>1 DEF Linked
  <2>3. TopicNext(m.m_tail[T]) # tp
    BY <1>2, <1>6, <2>2
  <2> QED BY <1>1, <1>15, <2>1, <2>2, <2>3
<1>18. Firsts(first)
  BY DEF Linked
<1> QED BY <1>1, <1>10, <1>11, <1>12, <1>14, <1>16, <1>17, <1>18 DEF Linked


\* Where add_topic_subscriber() puts a node.
Behind(m, topic) == IF m.ptr[Head_(topic)] = Nil THEN Head_(topic) ELSE TopicNext(m.m_tail[topic])

\* reserve_subscribe() in one step.
LEMMA ReserveIs ==
  ASSUME NEW m \in Mem, NEW n \in Nodes, NEW T \in Topics, NEW S \in Subscribers,
         NEW m2, m2 = reserve_subscribe(m, n, T, S)
  PROVE  /\ Behind(m, T) \in Cell => m2 \in Mem
         /\ m2.m_erasing_nodes = m.m_erasing_nodes
         /\ \A U \in Topics : m2.m_tail[U] = IF U = T THEN n ELSE m.m_tail[U]
         /\ \A c \in Cell : m2.ptr[c] = IF c = Head_(S) THEN n
                                        ELSE IF c = SubNext(n) THEN m.ptr[Head_(S)]
                                        ELSE IF c = Behind(m, T) THEN n ELSE m.ptr[c]
         /\ \A x \in Nodes :
              /\ m2.topic_prev[x] = IF x = n THEN Behind(m, T) ELSE m.topic_prev[x]
              /\ m2.subscriber_prev[x] = IF x = n THEN Head_(S)
                                         ELSE IF x = m.ptr[Head_(S)] THEN SubNext(n)
                                         ELSE m.subscriber_prev[x]
              /\ m2.m_topic[x] = IF x = n THEN T ELSE m.m_topic[x]
              /\ m2.m_subscriber[x] = IF x = n THEN S ELSE m.m_subscriber[x]
<1> DEFINE at == Behind(m, T)
           a == [m EXCEPT !.m_topic[n] = T, !.m_subscriber[n] = S]
           b == add_topic_subscriber(a, n, T)
           head == m.ptr[Head_(S)]
<1>1. /\ m.ptr \in [Cell -> Nodes \cup {Nil}] /\ m.topic_prev \in [Nodes -> Cell \cup {Nil}]
      /\ m.subscriber_prev \in [Nodes -> Cell \cup {Nil}]
      /\ m.m_tail \in [Topics -> Nodes \cup {Nil}] /\ m.m_topic \in [Nodes -> Topics \cup {Nil}]
      /\ m.m_subscriber \in [Nodes -> Subscribers \cup {Nil}]
  BY DEF Mem
<1>2. /\ Head_(S) \in Cell /\ SubNext(n) \in Cell /\ at # Head_(S) /\ at # SubNext(n)
      /\ Head_(S) # SubNext(n)
  <2>1. S \in Mutexes /\ T \in Mutexes /\ S # T
    BY SubscriptionAssumption DEF Mutexes
  <2> QED BY <2>1, CellKinds DEF Behind
<1>3. head \in Nodes \cup {Nil}
  BY <1>1, <1>2
<1>4. a \in Mem /\ a.ptr = m.ptr /\ a.topic_prev = m.topic_prev /\ a.subscriber_prev = m.subscriber_prev
      /\ a.m_tail = m.m_tail /\ a.m_topic = [m.m_topic EXCEPT ![n] = T]
      /\ a.m_subscriber = [m.m_subscriber EXCEPT ![n] = S] /\ a.m_erasing_nodes = m.m_erasing_nodes
  BY <1>1 DEF Mem
<1> HIDE DEF a
<1>5. b = [a EXCEPT !.ptr[at] = n, !.topic_prev[n] = at, !.m_tail[T] = n]
  BY <1>4 DEF add_topic_subscriber, Behind
<1>6. b.ptr = [m.ptr EXCEPT ![at] = n] /\ b.topic_prev = [m.topic_prev EXCEPT ![n] = at]
      /\ b.subscriber_prev = m.subscriber_prev /\ b.m_tail = [m.m_tail EXCEPT ![T] = n]
      /\ b.m_topic = a.m_topic /\ b.m_subscriber = a.m_subscriber /\ b.m_erasing_nodes = m.m_erasing_nodes
  BY <1>4, <1>5 DEF Mem
<1>7. at \in Cell => b \in Mem
  <2>1. SUFFICES ASSUME at \in Cell PROVE b \in Mem
    OBVIOUS
  <2> DEFINE P == [a.ptr EXCEPT ![at] = n]
             Q == [a.topic_prev EXCEPT ![n] = at]
             R == [a.m_tail EXCEPT ![T] = n]
  <2>2. P \in [Cell -> Nodes \cup {Nil}] /\ Q \in [Nodes -> Cell \cup {Nil}] /\ R \in [Topics -> Nodes \cup {Nil}]
    BY <1>1, <1>4, <2>1
  <2>3. b = [a EXCEPT !.ptr = P, !.topic_prev = Q, !.m_tail = R]
    BY <1>5
  <2> HIDE DEF P, Q, R
  <2> QED BY <1>4, <2>2, <2>3 DEF Mem
<1>8. b.ptr[Head_(S)] = head
  BY <1>1, <1>2, <1>6
<1>9. m2 = add_subscriber_topic(b, n, S)
  BY DEF reserve_subscribe, a
<1> HIDE DEF b
<1> DEFINE P == [[b.ptr EXCEPT ![SubNext(n)] = b.ptr[Head_(S)]] EXCEPT ![Head_(S)] = n]
           Q == [x \in Nodes |-> IF x = n THEN Head_(S)
                                 ELSE IF x = b.ptr[Head_(S)] THEN SubNext(n) ELSE b.subscriber_prev[x]]
<1>10. m2 = [b EXCEPT !.subscriber_prev = Q, !.ptr[SubNext(n)] = b.ptr[Head_(S)], !.ptr[Head_(S)] = n]
  BY <1>9 DEF add_subscriber_topic
<1>11. at \in Cell => m2 \in Mem
  <2>1. SUFFICES ASSUME at \in Cell PROVE m2 \in Mem
    OBVIOUS
  <2>2. b \in Mem
    BY <1>7, <2>1
  <2>3. b.ptr \in [Cell -> Nodes \cup {Nil}] /\ b.subscriber_prev \in [Nodes -> Cell \cup {Nil}]
    BY <2>2 DEF Mem
  <2>4. P \in [Cell -> Nodes \cup {Nil}] /\ Q \in [Nodes -> Cell \cup {Nil}]
    BY <1>2, <1>3, <1>8, <2>3
  <2>5. m2 = [b EXCEPT !.subscriber_prev = Q, !.ptr = P]
    BY <1>10, <2>2 DEF Mem
  <2> HIDE DEF P, Q
  <2> QED BY <2>2, <2>4, <2>5 DEF Mem
<1>12. m2.ptr = P /\ m2.subscriber_prev = Q /\ m2.topic_prev = b.topic_prev /\ m2.m_tail = b.m_tail
       /\ m2.m_topic = b.m_topic /\ m2.m_subscriber = b.m_subscriber /\ m2.m_erasing_nodes = b.m_erasing_nodes
  <2>1. b = [ptr |-> b.ptr, topic_prev |-> b.topic_prev, subscriber_prev |-> b.subscriber_prev,
             m_tail |-> b.m_tail, m_topic |-> b.m_topic, m_subscriber |-> b.m_subscriber,
             m_erasing_nodes |-> b.m_erasing_nodes]
    BY <1>4, <1>5 DEF Mem
  <2> QED BY <1>10, <2>1
<1>13. ASSUME NEW c \in Cell
       PROVE  m2.ptr[c] = IF c = Head_(S) THEN n ELSE IF c = SubNext(n) THEN head
                          ELSE IF c = at THEN n ELSE m.ptr[c]
  BY <1>1, <1>2, <1>6, <1>8, <1>12
<1>14. ASSUME NEW x \in Nodes
       PROVE  /\ m2.topic_prev[x] = IF x = n THEN at ELSE m.topic_prev[x]
              /\ m2.subscriber_prev[x] = IF x = n THEN Head_(S) ELSE IF x = head THEN SubNext(n)
                                         ELSE m.subscriber_prev[x]
              /\ m2.m_topic[x] = IF x = n THEN T ELSE m.m_topic[x]
              /\ m2.m_subscriber[x] = IF x = n THEN S ELSE m.m_subscriber[x]
  BY <1>1, <1>4, <1>6, <1>8, <1>12
<1>15. \A U \in Topics : m2.m_tail[U] = IF U = T THEN n ELSE m.m_tail[U]
  BY <1>1, <1>6, <1>12
<1> QED BY <1>6, <1>11, <1>12, <1>13, <1>14, <1>15


\* A subscription is put in both lists, behind a cell of its topic's.
LEMMA Reserved ==
  ASSUME NEW m, NEW first, Linked(m, first), NEW n \in Fresh(m), NEW T \in Topics, NEW S \in Subscribers,
         Behind(m, T) \in Cells(TNext, first[T], OfTopic(m, T)),
         NEW m2, m2 = reserve_subscribe(m, n, T, S)
  PROVE  Linked(m2, first) /\ Fresh(m2) = Fresh(m) \ {n}
<1> DEFINE at == Behind(m, T)
           head == m.ptr[Head_(S)]
           MT(U) == OfTopic(m, U)
           MS(U) == OfSub(m, U)
           CT(U) == Cells(TNext, first[U], OfTopic(m, U))
           CS(U) == Cells(SNext, Head_(U), OfSub(m, U))
<1>1. /\ \A U \in Topics, V \in Subscribers, c \in Cell : ~(c \in CT(U) /\ c \in CS(V))
      /\ \A U, V \in Topics : \A c \in Cell : c \in CT(U) /\ c \in CT(V) => U = V
      /\ \A U \in Topics : \A c \in CT(U) :
           c \in Cell /\ (\A x \in Nodes : c # SubNext(x)) /\ (\A x \in Nodes : c = TopicNext(x) => x \in MT(U))
      /\ \A U \in Subscribers : \A c \in CS(U) :
           c \in Cell /\ (\A x \in Nodes : c = SubNext(x) => x \in MS(U))
  BY CellsApart
<1>2. n \in Nodes /\ m \in Mem /\ m.m_topic[n] = Nil /\ m.m_subscriber[n] = Nil /\ m.ptr[TopicNext(n)] = Nil
  BY DEF Fresh, Linked
<1>3. at \in CT(T) /\ at \in Cell
  BY <1>1
<1>4. /\ m2 \in Mem /\ m2.m_erasing_nodes = m.m_erasing_nodes
      /\ \A U \in Topics : m2.m_tail[U] = IF U = T THEN n ELSE m.m_tail[U]
      /\ \A c \in Cell : m2.ptr[c] = IF c = Head_(S) THEN n ELSE IF c = SubNext(n) THEN head
                                     ELSE IF c = at THEN n ELSE m.ptr[c]
      /\ \A x \in Nodes :
           /\ m2.topic_prev[x] = IF x = n THEN at ELSE m.topic_prev[x]
           /\ m2.subscriber_prev[x] = IF x = n THEN Head_(S) ELSE IF x = head THEN SubNext(n)
                                      ELSE m.subscriber_prev[x]
           /\ m2.m_topic[x] = IF x = n THEN T ELSE m.m_topic[x]
           /\ m2.m_subscriber[x] = IF x = n THEN S ELSE m.m_subscriber[x]
  BY <1>2, <1>3, ReserveIs
<1>5. /\ \A U \in Topics : List(m.ptr, m.topic_prev, TNext, first[U], MT(U))
      /\ \A U \in Subscribers : List(m.ptr, m.subscriber_prev, SNext, Head_(U), MS(U))
      /\ \A U \in Topics : Pointers(m.ptr, m.topic_prev, TNext, first[U])
      /\ \A U \in Subscribers : Pointers(m.ptr, m.subscriber_prev, SNext, Head_(U))
      /\ \A U \in Topics : MT(U) \in SUBSET Nodes
      /\ \A U \in Subscribers : MS(U) \in SUBSET Nodes
  BY ListCells DEF Linked, OfTopic, OfSub
<1>6. Nil \notin Nodes /\ Nil \notin Topics /\ Nil \notin Subscribers /\ Nil \notin Cell
  BY SubscriptionAssumption DEF Mutexes
<1>7. /\ m.m_topic \in [Nodes -> Topics \cup {Nil}] /\ m.m_subscriber \in [Nodes -> Subscribers \cup {Nil}]
      /\ m.m_tail \in [Topics -> Nodes \cup {Nil}] /\ m.ptr \in [Cell -> Nodes \cup {Nil}]
  BY <1>2 DEF Mem
<1>8. TNext[n] = TopicNext(n) /\ SNext[n] = SubNext(n) /\ TopicNext(n) \in Cell /\ SubNext(n) \in Cell
      /\ Head_(S) \in Cell
  BY <1>2, CellKinds DEF TNext, SNext, Mutexes
<1>9. \A V \in Subscribers : Head_(V) \in CS(V)
  BY DEF Cells
<1>10. n \notin MS(S) /\ n \notin MT(T) /\ \A V \in Subscribers : n \notin MS(V)
  BY <1>2, <1>6 DEF OfTopic, OfSub
<1>11. at # Head_(S) /\ at # SubNext(n) /\ at # TopicNext(n) /\ TopicNext(n) # Head_(S)
       /\ TopicNext(n) # SubNext(n) /\ Head_(S) # SubNext(n)
  BY <1>1, <1>2, <1>3, <1>9, <1>10, CellKinds
\* Where the topic's list ends.
<1>12. m.ptr[at] = Nil
  <2>1. CASE m.ptr[Head_(T)] = Nil
    BY <2>1 DEF Behind
  <2>2. CASE m.ptr[Head_(T)] # Nil
    <3>1. at = TopicNext(m.m_tail[T])
      BY <2>2 DEF Behind
    <3>2. first[T] \in {Head_(T)} \cup Locals
      BY DEF Linked, Firsts
    <3>3. \E y \in MT(T) : at = TopicNext(y)
      BY <1>3, <3>1, <3>2, CellKinds DEF Cells, TNext, OfTopic
    <3>4. m.m_tail[T] \in MT(T)
      BY <3>1, <3>3, CellKinds
    <3>5. m.m_tail[T] # Nil /\ m.m_topic[m.m_tail[T]] = T
      BY <1>6, <3>4 DEF OfTopic
    <3> QED BY <3>1, <3>5 DEF Linked
  <2> QED BY <2>1, <2>2
<1>13. m2.ptr[at] = n /\ m2.ptr[TopicNext(n)] = Nil /\ m2.ptr[Head_(S)] = n /\ m2.ptr[SubNext(n)] = head
  BY <1>2, <1>3, <1>4, <1>8, <1>11
<1>14. ASSUME NEW U \in Topics
       PROVE  List(m2.ptr, m2.topic_prev, TNext, first[U], OfTopic(m2, U))
  <2>1. \A c \in CT(U) : c \in Cell /\ c # Head_(S) /\ c # SubNext(n)
    BY <1>1, <1>2, <1>9
  <2>2. \A c \in CT(U) : c # at => m2.ptr[c] = m.ptr[c]
    BY <1>4, <2>1
  <2>3. \A x \in MT(U) : x \in Nodes /\ x # n /\ m2.topic_prev[x] = m.topic_prev[x]
    BY <1>2, <1>4, <1>6 DEF OfTopic
  <2>4. CASE U = T
    <3>1. OfTopic(m2, U) = MT(U) \cup {n}
      BY <1>2, <1>4, <2>4 DEF OfTopic
    <3> DEFINE M == MT(U)
    <3>2. M \in SUBSET Nodes /\ n \in Nodes \ M /\ at \in Cells(TNext, first[U], M)
          /\ List(m.ptr, m.topic_prev, TNext, first[U], M) /\ Pointers(m.ptr, m.topic_prev, TNext, first[U])
      BY <1>2, <1>3, <1>5, <1>10, <2>4
    <3>3. \A c \in Cells(TNext, first[U], M) : c # at => m2.ptr[c] = m.ptr[c]
      BY <2>2
    <3>4. m2.ptr[at] = n /\ m2.ptr[TNext[n]] = m.ptr[at] /\ m2.topic_prev[n] = at
      BY <1>2, <1>4, <1>8, <1>12, <1>13
    <3>5. \A x \in M : m2.topic_prev[x] = IF x = m.ptr[at] THEN TNext[n] ELSE m.topic_prev[x]
      BY <1>6, <1>12, <2>3
    <3> HIDE DEF M, at
    <3>6. List(m2.ptr, m2.topic_prev, TNext, first[U], M \cup {n})
      BY <1>6, <3>2, <3>3, <3>4, <3>5, ListInserted
    <3> QED BY <3>1, <3>6 DEF M
  <2>5. CASE U # T
    <3>1. OfTopic(m2, U) = MT(U)
      BY <1>2, <1>4, <1>6, <2>5 DEF OfTopic
    <3>2. \A c \in CT(U) : m2.ptr[c] = m.ptr[c]
      BY <1>1, <1>3, <2>1, <2>2, <2>5
    <3> QED BY <1>5, <1>6, <2>3, <3>1, <3>2, ListKept
  <2> QED BY <2>4, <2>5
<1>15. ASSUME NEW U \in Subscribers
       PROVE  List(m2.ptr, m2.subscriber_prev, SNext, Head_(U), OfSub(m2, U))
  <2>1. \A c \in CS(U) : c \in Cell /\ c # at /\ c # SubNext(n)
    BY <1>1, <1>2, <1>3, <1>10
  <2>2. \A c \in CS(U) : c # Head_(S) => m2.ptr[c] = m.ptr[c]
    BY <1>4, <2>1
  <2>3. \A x \in MS(U) : /\ x \in Nodes /\ x # n
                         /\ m2.subscriber_prev[x] = IF x = head THEN SubNext(n) ELSE m.subscriber_prev[x]
    BY <1>2, <1>4, <1>6 DEF OfSub
  <2>4. CASE U = S
    <3>1. OfSub(m2, U) = MS(U) \cup {n}
      BY <1>2, <1>4, <2>4 DEF OfSub
    <3> DEFINE M == MS(U)
               to == Head_(S)
               f == Head_(U)
    <3>2. M \in SUBSET Nodes /\ n \in Nodes \ M /\ to \in Cells(SNext, f, M)
          /\ List(m.ptr, m.subscriber_prev, SNext, f, M) /\ Pointers(m.ptr, m.subscriber_prev, SNext, f)
      BY <1>2, <1>5, <1>9, <1>10, <2>4
    <3>3. \A c \in Cells(SNext, f, M) : c # to => m2.ptr[c] = m.ptr[c]
      BY <2>2
    <3>4. m2.ptr[to] = n /\ m2.ptr[SNext[n]] = m.ptr[to] /\ m2.subscriber_prev[n] = to
      BY <1>2, <1>4, <1>8, <1>13
    <3>5. \A x \in M : m2.subscriber_prev[x] = IF x = m.ptr[to] THEN SNext[n] ELSE m.subscriber_prev[x]
      BY <1>8, <2>3
    <3> HIDE DEF M, to, f
    <3>6. List(m2.ptr, m2.subscriber_prev, SNext, f, M \cup {n})
      <4>1. Nil \notin Nodes /\ M \in SUBSET Nodes /\ n \in Nodes \ M /\ to \in Cells(SNext, f, M)
        BY <1>6, <3>2
      <4>2. List(m.ptr, m.subscriber_prev, SNext, f, M) /\ Pointers(m.ptr, m.subscriber_prev, SNext, f)
        BY <3>2
      <4> DEFINE p == m.ptr
                 p2 == m2.ptr
                 q == m.subscriber_prev
                 q2 == m2.subscriber_prev
      <4> HIDE DEF p, p2, q, q2
      <4>3. List(p, q, SNext, f, M) /\ Pointers(p, q, SNext, f)
        BY <4>2 DEF p, q
      <4>4. /\ p2[to] = n /\ p2[SNext[n]] = p[to] /\ q2[n] = to
            /\ \A c \in Cells(SNext, f, M) : c # to => p2[c] = p[c]
            /\ \A x \in M : q2[x] = IF x = p[to] THEN SNext[n] ELSE q[x]
        BY <3>3, <3>4, <3>5 DEF p, q, p2, q2
      <4>5. List(p2, q2, SNext, f, M \cup {n})
        BY <4>1, <4>3, <4>4, ListInserted
      <4> QED BY <4>5 DEF p2, q2
    <3> QED BY <3>1, <3>6 DEF M, f
  <2>5. CASE U # S
    <3>1. OfSub(m2, U) = MS(U)
      BY <1>2, <1>4, <1>6, <2>5 DEF OfSub
    <3>2. \A c \in CS(U) : c # Head_(S)
      <4>1. Head_(S) \in CS(S) /\ Head_(S) \in Cell
        BY <1>8, <1>9
      <4> QED BY <2>5, <4>1, CellsApart
    <3>3. \A c \in CS(U) : m2.ptr[c] = m.ptr[c]
      BY <2>2, <3>2
    <3>4. \A x \in MS(U) : x # head
      <4>1. Head_(S) \in CS(S)
        BY <1>9
      <4>2. head # Nil => head \in MS(S)
        BY <1>5, <4>1 DEF List
      <4> QED BY <1>6, <2>3, <2>5, <4>2 DEF OfSub
    <3>5. \A x \in MS(U) : m2.subscriber_prev[x] = m.subscriber_prev[x]
      BY <2>3, <3>4
    <3> QED BY <1>5, <1>6, <3>1, <3>3, <3>5, ListKept
  <2> QED BY <2>4, <2>5
<1>16. \A x \in Nodes : m2.m_topic[x] = Nil <=> m2.m_subscriber[x] = Nil
  BY <1>4, <1>6 DEF Linked
<1>17. Fresh(m2) = Fresh(m) \ {n}
  BY <1>3, <1>4, <1>6 DEF Fresh
<1>18. \A x \in Nodes : TopicNext(x) # at => m2.ptr[TopicNext(x)] = m.ptr[TopicNext(x)]
  BY <1>4, <1>8, CellKinds
<1>19. \A x \in Nodes : TopicNext(x) = at => m.m_topic[x] = T
  BY <1>1, <1>3 DEF OfTopic
<1>20. ASSUME NEW x \in Fresh(m2)
       PROVE  m2.m_topic[x] = Nil /\ m2.ptr[TopicNext(x)] = Nil /\ m2.m_erasing_nodes[x] = {}
  <2>1. x \in Nodes /\ x # n /\ m.m_topic[x] = Nil /\ m.ptr[TopicNext(x)] = Nil /\ m.m_erasing_nodes[x] = {}
    BY <1>17 DEF Fresh, Linked
  <2> QED BY <1>4, <1>6, <1>18, <1>19, <2>1
<1>21. ASSUME NEW U \in Topics, m2.m_tail[U] # Nil, m2.m_topic[m2.m_tail[U]] = U
       PROVE  m2.ptr[TopicNext(m2.m_tail[U])] = Nil
  <2>1. CASE U = T
    BY <1>4, <1>13, <2>1
  <2>2. CASE U # T
    <3>1. m2.m_tail[U] = m.m_tail[U] /\ m.m_tail[U] \in Nodes
      BY <1>4, <1>7, <1>21, <2>2
    <3>2. m.m_topic[m.m_tail[U]] = U
      BY <1>2, <1>4, <1>21, <2>2, <3>1
    <3>3. m.ptr[TopicNext(m.m_tail[U])] = Nil
      BY <1>6, <3>1, <3>2 DEF Linked
    <3> QED BY <1>18, <1>19, <2>2, <3>1, <3>2, <3>3
  <2> QED BY <2>1, <2>2
<1>22. Firsts(first)
  BY DEF Linked
<1> QED BY <1>4, <1>14, <1>15, <1>16, <1>17, <1>20, <1>21, <1>22 DEF Linked

\* What Chain says of a list.
LEMMA ChainIs ==
  ASSUME NEW m, NEW first, Linked(m, first)
  PROVE  /\ \A T \in Topics : Chain(m, first[T], TopicNext) = OfTopic(m, T)
         /\ \A S \in Subscribers : InSubscriber(m, S) = OfSub(m, S)
<1>1. \A x \in Nodes : TNext[x] = TopicNext(x) /\ SNext[x] = SubNext(x)
  BY DEF TNext, SNext
<1>2. ASSUME NEW T \in Topics PROVE Chain(m, first[T], TopicNext) = OfTopic(m, T)
  <2> DEFINE M == OfTopic(m, T)
             f == first[T]
  <2>1. M \in SUBSET Nodes /\ List(m.ptr, m.topic_prev, TNext, f, M)
    BY DEF Linked, OfTopic
  <2> HIDE DEF M, f
  <2>2. \A X \in SUBSET Nodes : Closed(m.ptr, TNext, f, X) <=>
          m.ptr[f] \in X \cup {Nil} /\ \A x \in X : m.ptr[TopicNext(x)] \in X \cup {Nil}
    BY <1>1 DEF Closed
  <2>3. Closed(m.ptr, TNext, f, M)
    BY <2>1 DEF Closed, List, Cells
  <2>4. \A X \in SUBSET Nodes : Closed(m.ptr, TNext, f, X) => M \subseteq X
    BY <2>1 DEF List
  <2>5. Chain(m, f, TopicNext) = {x \in Nodes : \A X \in SUBSET Nodes : Closed(m.ptr, TNext, f, X) => x \in X}
    BY <2>2 DEF Chain
  <2>6. Chain(m, f, TopicNext) = M
    BY <2>1, <2>3, <2>4, <2>5
  <2> QED BY <2>6 DEF M, f
<1>3. ASSUME NEW S \in Subscribers PROVE InSubscriber(m, S) = OfSub(m, S)
  <2> DEFINE M == OfSub(m, S)
             f == Head_(S)
  <2>1. M \in SUBSET Nodes /\ List(m.ptr, m.subscriber_prev, SNext, f, M)
    BY DEF Linked, OfSub
  <2>0. InSubscriber(m, S) = Chain(m, f, SubNext)
    BY DEF InSubscriber
  <2> HIDE DEF M, f
  <2>2. \A X \in SUBSET Nodes : Closed(m.ptr, SNext, f, X) <=>
          m.ptr[f] \in X \cup {Nil} /\ \A x \in X : m.ptr[SubNext(x)] \in X \cup {Nil}
    BY <1>1 DEF Closed
  <2>3. Closed(m.ptr, SNext, f, M)
    BY <2>1 DEF Closed, List, Cells
  <2>4. \A X \in SUBSET Nodes : Closed(m.ptr, SNext, f, X) => M \subseteq X
    BY <2>1 DEF List
  <2>5. Chain(m, f, SubNext) = {x \in Nodes : \A X \in SUBSET Nodes : Closed(m.ptr, SNext, f, X) => x \in X}
    BY <2>2 DEF Chain
  <2>6. Chain(m, f, SubNext) = M
    BY <2>1, <2>3, <2>4, <2>5
  <2> QED BY <2>0, <2>6 DEF M
<1> QED BY <1>2, <1>3

\* A node that is in the list after it has been put in was put behind a cell of it.
LEMMA Behindhand ==
  ASSUME NEW m, NEW first, Linked(m, first), NEW n \in Fresh(m), NEW T \in Topics, NEW S \in Subscribers,
         NEW m2, m2 = reserve_subscribe(m, n, T, S), n \in Chain(m2, first[T], TopicNext)
  PROVE  Behind(m, T) \in Cells(TNext, first[T], OfTopic(m, T))
<1> SUFFICES ASSUME Behind(m, T) \notin Cells(TNext, first[T], OfTopic(m, T)) PROVE FALSE
  OBVIOUS
<1> DEFINE M == OfTopic(m, T)
           C == Cells(TNext, first[T], M)
<1>1. n \in Nodes /\ m \in Mem /\ n \notin M /\ M \in SUBSET Nodes
  <2>1. m.m_topic[n] = Nil /\ m \in Mem
    BY DEF Linked
  <2> QED BY <2>1, SubscriptionAssumption DEF Fresh, OfTopic, Mutexes
<1>2. List(m.ptr, m.topic_prev, TNext, first[T], M)
  BY DEF Linked
<1>3. \A c \in C : c \in Cell /\ (\A x \in Nodes : c # SubNext(x))
  BY CellsApart
<1>4. \A c \in C : c # Head_(S)
  <2>1. Head_(S) \in Cells(SNext, Head_(S), OfSub(m, S)) /\ Head_(S) \in Cell
    BY CellKinds DEF Cells, Mutexes
  <2> QED BY <2>1, CellsApart
<1>5. \A c \in C : m2.ptr[c] = m.ptr[c]
  BY <1>1, <1>3, <1>4, ReserveIs
<1>6. \A c \in C : m.ptr[c] \in M \cup {Nil}
  BY <1>2 DEF List
<1>7. first[T] \in C /\ \A x \in M : TopicNext(x) \in C
  BY <1>1 DEF Cells, TNext
<1>8. m2.ptr[first[T]] \in M \cup {Nil} /\ \A x \in M : m2.ptr[TopicNext(x)] \in M \cup {Nil}
  BY <1>5, <1>6, <1>7
<1>9. n \in M
  BY <1>1, <1>8 DEF Chain
<1> QED BY <1>1, <1>9


\* Variables from which no list begins may change, and who is to be told of an erasure.
LEMMA LinkedElse ==
  ASSUME NEW m, NEW first, Linked(m, first), NEW m2 \in Mem,
         m2.topic_prev = m.topic_prev, m2.subscriber_prev = m.subscriber_prev, m2.m_tail = m.m_tail,
         m2.m_topic = m.m_topic, m2.m_subscriber = m.m_subscriber,
         \A c \in Cell : m2.ptr[c] # m.ptr[c] => c \in Locals /\ \A T \in Topics : first[T] # c,
         \A n \in Fresh(m) : m2.m_erasing_nodes[n] = {}
  PROVE  Linked(m2, first) /\ Fresh(m2) = Fresh(m)
<1>1. Nil \notin Nodes
  BY SubscriptionAssumption
<1>2. /\ \A T \in Topics : \A c \in Cells(TNext, first[T], OfTopic(m, T)) : c \in Cell /\ (c \in Locals => c = first[T])
      /\ \A S \in Subscribers : \A c \in Cells(SNext, Head_(S), OfSub(m, S)) : c \in Cell /\ c \notin Locals
  BY CellsApart
<1>3. /\ \A T \in Topics : OfTopic(m2, T) = OfTopic(m, T) /\ OfTopic(m, T) \in SUBSET Nodes
      /\ \A S \in Subscribers : OfSub(m2, S) = OfSub(m, S) /\ OfSub(m, S) \in SUBSET Nodes
      /\ Fresh(m2) = Fresh(m)
  BY DEF OfTopic, OfSub, Fresh
<1>4. ASSUME NEW T \in Topics PROVE List(m2.ptr, m2.topic_prev, TNext, first[T], OfTopic(m2, T))
  <2>1. \A c \in Cells(TNext, first[T], OfTopic(m, T)) : m2.ptr[c] = m.ptr[c]
    BY <1>2
  <2>2. List(m.ptr, m.topic_prev, TNext, first[T], OfTopic(m, T)) /\ Pointers(m.ptr, m.topic_prev, TNext, first[T])
    BY ListCells DEF Linked
  <2> QED BY <1>1, <1>3, <2>1, <2>2, ListKept
<1>5. ASSUME NEW S \in Subscribers PROVE List(m2.ptr, m2.subscriber_prev, SNext, Head_(S), OfSub(m2, S))
  <2>1. \A c \in Cells(SNext, Head_(S), OfSub(m, S)) : m2.ptr[c] = m.ptr[c]
    BY <1>2
  <2>2. /\ List(m.ptr, m.subscriber_prev, SNext, Head_(S), OfSub(m, S))
        /\ Pointers(m.ptr, m.subscriber_prev, SNext, Head_(S))
    BY ListCells DEF Linked
  <2> QED BY <1>1, <1>3, <2>1, <2>2, ListKept
<1>6. \A x \in Nodes : m2.ptr[TopicNext(x)] = m.ptr[TopicNext(x)]
  BY CellKinds
<1>7. \A T \in Topics : m.m_tail[T] # Nil => m.m_tail[T] \in Nodes
  BY DEF Linked, Mem
<1> QED BY <1>3, <1>4, <1>5, <1>6, <1>7 DEF Linked, Fresh

\* clear() has the list begin in its own variable.
BeginsIn(m, m2, first, first2, T, t) ==
  /\ m2 = [m EXCEPT !.ptr[Local(t)] = m.ptr[Head_(T)], !.topic_prev[m.ptr[Head_(T)]] = Local(t)]
  /\ first2 = [first EXCEPT ![T] = Local(t)]
\* The lists when clear() has moved the first of them into its variable.
LEMMA Cleared ==
  ASSUME NEW m, NEW first, Linked(m, first), NEW T \in Topics, NEW t \in Threads,
         first[T] = Head_(T), \A U \in Topics : first[U] # Local(t),
         m.ptr[Head_(T)] # Nil, NEW m2, NEW first2, BeginsIn(m, m2, first, first2, T, t)
  PROVE  Linked(m2, first2) /\ Fresh(m2) = Fresh(m)
<1>0. /\ m2 = [m EXCEPT !.ptr[Local(t)] = m.ptr[Head_(T)], !.topic_prev[m.ptr[Head_(T)]] = Local(t)]
      /\ first2 = [first EXCEPT ![T] = Local(t)]
  BY DEF BeginsIn
<1> DEFINE n == m.ptr[Head_(T)]
           to == Local(t)
<1>1. Nil \notin Nodes /\ T \in Mutexes
  BY SubscriptionAssumption DEF Mutexes
<1>2. /\ \A U, V \in Topics : \A c \in Cell :
           c \in Cells(TNext, first[U], OfTopic(m, U)) /\ c \in Cells(TNext, first[V], OfTopic(m, V)) => U = V
      /\ \A U \in Topics : \A c \in Cells(TNext, first[U], OfTopic(m, U)) : c \in Cell /\ (c \in Locals => c = first[U])
      /\ \A S \in Subscribers : \A c \in Cells(SNext, Head_(S), OfSub(m, S)) : c \in Cell /\ c \notin Locals
  BY CellsApart
<1>3. m \in Mem /\ Firsts(first) /\ n \in Nodes /\ to \in Cell /\ to \in Locals /\ Head_(T) \in Cell
      /\ m.ptr \in [Cell -> Nodes \cup {Nil}] /\ m.topic_prev \in [Nodes -> Cell \cup {Nil}]
  BY <1>1, CellKinds DEF Linked, Mem, Locals
<1>4. /\ m2.ptr = [m.ptr EXCEPT ![to] = n] /\ m2.topic_prev = [m.topic_prev EXCEPT ![n] = to]
      /\ m2.subscriber_prev = m.subscriber_prev /\ m2.m_tail = m.m_tail /\ m2.m_topic = m.m_topic
      /\ m2.m_subscriber = m.m_subscriber /\ m2.m_erasing_nodes = m.m_erasing_nodes
  BY <1>0, <1>3 DEF Mem
<1>5. m2 \in Mem
  <2> DEFINE P == [m.ptr EXCEPT ![to] = n]
             Q == [m.topic_prev EXCEPT ![n] = to]
  <2>1. P \in [Cell -> Nodes \cup {Nil}] /\ Q \in [Nodes -> Cell \cup {Nil}]
    BY <1>3
  <2>2. m2 = [m EXCEPT !.ptr = P, !.topic_prev = Q]
    BY <1>0
  <2> HIDE DEF P, Q
  <2> QED BY <1>3, <2>1, <2>2 DEF Mem
<1>6. /\ \A U \in Topics : OfTopic(m2, U) = OfTopic(m, U) /\ OfTopic(m, U) \in SUBSET Nodes
      /\ \A S \in Subscribers : OfSub(m2, S) = OfSub(m, S) /\ OfSub(m, S) \in SUBSET Nodes
  BY <1>4 DEF OfTopic, OfSub
<1>7. Head_(T) \in Cells(TNext, first[T], OfTopic(m, T)) /\ n \in OfTopic(m, T) /\ m.topic_prev[n] = Head_(T)
  <2>1. Head_(T) \in Cells(TNext, first[T], OfTopic(m, T))
    BY DEF Cells
  <2> QED BY <2>1 DEF Linked, List
<1>8. Firsts(first2)
  <2>1. /\ first \in [Topics -> Cell] /\ \A U, V \in Topics : first[U] = first[V] => U = V
        /\ \A U \in Topics : first[U] \in {Head_(U)} \cup Locals
    BY <1>3 DEF Firsts
  <2>2. first2 \in [Topics -> Cell] /\ \A U \in Topics : first2[U] = IF U = T THEN to ELSE first[U]
    BY <1>0, <1>3, <2>1
  <2> QED BY <1>3, <2>1, <2>2 DEF Firsts
<1>9. \A U \in Topics : first2[U] = IF U = T THEN to ELSE first[U]
  BY <1>0, <1>3 DEF Firsts
<1>10. ASSUME NEW U \in Topics PROVE List(m2.ptr, m2.topic_prev, TNext, first2[U], OfTopic(m2, U))
  <2> DEFINE M == OfTopic(m, U)
             f == first[U]
  <2>1. List(m.ptr, m.topic_prev, TNext, f, M) /\ Pointers(m.ptr, m.topic_prev, TNext, f)
    BY ListCells DEF Linked
  <2>2. CASE U = T
    <3>1. \A x \in M : TNext[x] # to /\ m2.ptr[TNext[x]] = m.ptr[TNext[x]]
      BY <1>3, <1>4, <1>6, CellKinds DEF TNext
    <3>2. \A x \in M : m2.topic_prev[x] = IF x = m.ptr[f] THEN to ELSE m.topic_prev[x]
      BY <1>3, <1>4, <1>6, <2>2
    <3>3. m2.ptr[to] = m.ptr[f] /\ to \in Cell /\ M \in SUBSET Nodes
      BY <1>3, <1>4, <1>6, <2>2
    <3> HIDE DEF M, f, to
    <3>4. List(m2.ptr, m2.topic_prev, TNext, to, M)
      BY <1>1, <2>1, <3>1, <3>2, <3>3, ListMoved
    <3> QED BY <1>6, <1>9, <2>2, <3>4 DEF M
  <2>3. CASE U # T
    <3>1. \A c \in Cells(TNext, f, M) : m2.ptr[c] = m.ptr[c]
      BY <1>2, <1>3, <1>4
    <3>2. \A x \in M : m2.topic_prev[x] = m.topic_prev[x]
      BY <1>3, <1>4, <1>6, <1>7, <2>3 DEF OfTopic
    <3>3. M \in SUBSET Nodes
      BY <1>6
    <3> HIDE DEF M, f
    <3>4. List(m2.ptr, m2.topic_prev, TNext, f, M)
      BY <1>1, <2>1, <3>1, <3>2, <3>3, ListKept
    <3> QED BY <1>6, <1>9, <2>3, <3>4 DEF M, f
  <2> QED BY <2>2, <2>3
<1>11. ASSUME NEW S \in Subscribers PROVE List(m2.ptr, m2.subscriber_prev, SNext, Head_(S), OfSub(m2, S))
  <2>1. \A c \in Cells(SNext, Head_(S), OfSub(m, S)) : m2.ptr[c] = m.ptr[c]
    BY <1>2, <1>3, <1>4
  <2>2. /\ List(m.ptr, m.subscriber_prev, SNext, Head_(S), OfSub(m, S))
        /\ Pointers(m.ptr, m.subscriber_prev, SNext, Head_(S))
    BY ListCells DEF Linked
  <2> DEFINE M == OfSub(m, S)
             f == Head_(S)
  <2>3. M \in SUBSET Nodes /\ \A x \in M : m2.subscriber_prev[x] = m.subscriber_prev[x]
    BY <1>4, <1>6
  <2> HIDE DEF M, f
  <2>4. List(m2.ptr, m2.subscriber_prev, SNext, f, M)
    BY <1>1, <2>1, <2>2, <2>3, ListKept DEF M, f
  <2> QED BY <1>6, <2>4 DEF M, f
<1>12. \A x \in Nodes : m2.ptr[TopicNext(x)] = m.ptr[TopicNext(x)]
  BY <1>3, <1>4, CellKinds
<1>13. \A U \in Topics : m.m_tail[U] # Nil => m.m_tail[U] \in Nodes
  BY <1>3 DEF Mem
<1>14. Fresh(m2) = Fresh(m)
  BY <1>3, <1>4, <1>7, CellKinds DEF Fresh
<1>15. \A x \in Fresh(m2) : x \in Nodes /\ m2.m_topic[x] = Nil /\ m2.ptr[TopicNext(x)] = Nil /\ m2.m_erasing_nodes[x] = {}
  BY <1>4, <1>12, <1>14 DEF Linked, Fresh
<1>16. \A U \in Topics : m2.m_tail[U] # Nil /\ m2.m_topic[m2.m_tail[U]] = U => m2.ptr[TopicNext(m2.m_tail[U])] = Nil
  BY <1>4, <1>12, <1>13 DEF Linked
<1>17. \A x \in Nodes : m2.m_topic[x] = Nil <=> m2.m_subscriber[x] = Nil
  BY <1>4 DEF Linked
<1> QED BY <1>5, <1>8, <1>10, <1>11, <1>14, <1>15, <1>16, <1>17 DEF Linked

\* And at its end the list, which is empty, begins at its head again.
BeginsAgain(m, m2, first, first2, T) ==
  /\ m2 = [m EXCEPT !.ptr[Head_(T)] = Nil, !.m_tail[T] = Nil]
  /\ first2 = [first EXCEPT ![T] = Head_(T)]
\* The lists when clear() has found its own empty, and gives it back its head.
LEMMA ClearEnded ==
  ASSUME NEW m, NEW first, Linked(m, first), NEW T \in Topics,
         m.ptr[first[T]] = Nil, NEW m2, NEW first2, BeginsAgain(m, m2, first, first2, T)
  PROVE  Linked(m2, first2) /\ Fresh(m2) = Fresh(m)
<1>0. /\ m2 = [m EXCEPT !.ptr[Head_(T)] = Nil, !.m_tail[T] = Nil]
      /\ first2 = [first EXCEPT ![T] = Head_(T)]
  BY DEF BeginsAgain
<1> DEFINE to == Head_(T)
<1>1. Nil \notin Nodes /\ T \in Mutexes /\ Nil \notin Topics
  BY SubscriptionAssumption DEF Mutexes
<1>3. m \in Mem /\ Firsts(first) /\ to \in Cell /\ to \notin Locals
      /\ m.ptr \in [Cell -> Nodes \cup {Nil}] /\ m.m_tail \in [Topics -> Nodes \cup {Nil}]
  BY <1>1, CellKinds DEF Linked, Mem
<1>4. /\ m2.ptr = [m.ptr EXCEPT ![to] = Nil] /\ m2.m_tail = [m.m_tail EXCEPT ![T] = Nil]
      /\ m2.subscriber_prev = m.subscriber_prev /\ m2.topic_prev = m.topic_prev /\ m2.m_topic = m.m_topic
      /\ m2.m_subscriber = m.m_subscriber /\ m2.m_erasing_nodes = m.m_erasing_nodes
  BY <1>0, <1>3 DEF Mem
<1>5. m2 \in Mem
  <2> DEFINE P == [m.ptr EXCEPT ![to] = Nil]
             Q == [m.m_tail EXCEPT ![T] = Nil]
  <2>1. P \in [Cell -> Nodes \cup {Nil}] /\ Q \in [Topics -> Nodes \cup {Nil}]
    BY <1>3
  <2>2. m2 = [m EXCEPT !.ptr = P, !.m_tail = Q]
    BY <1>0
  <2> HIDE DEF P, Q
  <2> QED BY <1>3, <2>1, <2>2 DEF Mem
<1>6. /\ \A U \in Topics : OfTopic(m2, U) = OfTopic(m, U) /\ OfTopic(m, U) \in SUBSET Nodes
      /\ \A S \in Subscribers : OfSub(m2, S) = OfSub(m, S) /\ OfSub(m, S) \in SUBSET Nodes
      /\ Fresh(m2) = Fresh(m)
  BY <1>4 DEF OfTopic, OfSub, Fresh
<1>7. OfTopic(m, T) = {}
  <2>1. List(m.ptr, m.topic_prev, TNext, first[T], OfTopic(m, T))
    BY DEF Linked
  <2> QED BY <1>6, <2>1, ListNone
<1>8. Firsts(first2) /\ \A U \in Topics : first2[U] = IF U = T THEN to ELSE first[U]
  <2>1. /\ first \in [Topics -> Cell] /\ \A U, V \in Topics : first[U] = first[V] => U = V
        /\ \A U \in Topics : first[U] \in {Head_(U)} \cup Locals
    BY <1>3 DEF Firsts
  <2>2. first2 \in [Topics -> Cell] /\ \A U \in Topics : first2[U] = IF U = T THEN to ELSE first[U]
    BY <1>0, <1>3, <2>1
  <2>3. \A U \in Topics : U # T => first[U] # to
    BY <1>3, <2>1, CellKinds
  <2> QED BY <1>3, <2>1, <2>2, <2>3 DEF Firsts
<1>9. \A x \in Nodes : m2.ptr[TopicNext(x)] = m.ptr[TopicNext(x)] /\ m2.ptr[SubNext(x)] = m.ptr[SubNext(x)]
  BY <1>3, <1>4, CellKinds
<1>10. ASSUME NEW U \in Topics PROVE List(m2.ptr, m2.topic_prev, TNext, first2[U], OfTopic(m2, U))
  <2>1. CASE U = T
    <3>1. m2.ptr[to] = Nil /\ first2[U] = to /\ OfTopic(m2, U) = {}
      BY <1>3, <1>4, <1>6, <1>7, <1>8, <2>1
    <3> HIDE DEF to
    <3> QED BY <3>1, ListEmpty
  <2>2. CASE U # T
    <3> DEFINE M == OfTopic(m, U)
               f == first[U]
    <3>1. List(m.ptr, m.topic_prev, TNext, f, M) /\ Pointers(m.ptr, m.topic_prev, TNext, f)
      BY ListCells DEF Linked
    <3>2. f \in Cell /\ f # to
      <4>1. f \in {Head_(U)} \cup Locals
        BY <1>3 DEF Firsts
      <4> QED BY <1>3, <2>2, <3>1, <4>1, CellKinds DEF Pointers
    <3>3. \A c \in Cells(TNext, f, M) : m2.ptr[c] = m.ptr[c]
      <4>1. m2.ptr[f] = m.ptr[f]
        BY <1>3, <1>4, <3>2
      <4>2. \A x \in M : x \in Nodes /\ TNext[x] = TopicNext(x)
        BY <1>6 DEF TNext
      <4> HIDE DEF M, f
      <4> QED BY <1>9, <4>1, <4>2 DEF Cells
    <3>4. M \in SUBSET Nodes /\ \A x \in M : m2.topic_prev[x] = m.topic_prev[x]
      BY <1>4, <1>6
    <3> HIDE DEF M, f
    <3>5. List(m2.ptr, m2.topic_prev, TNext, f, M)
      BY <1>1, <3>1, <3>3, <3>4, ListKept
    <3> QED BY <1>6, <1>8, <2>2, <3>5 DEF M, f
  <2> QED BY <2>1, <2>2
<1>11. ASSUME NEW S \in Subscribers PROVE List(m2.ptr, m2.subscriber_prev, SNext, Head_(S), OfSub(m2, S))
  <2>1. S \in Mutexes /\ S # T
    BY SubscriptionAssumption DEF Mutexes
  <2>2. \A c \in Cells(SNext, Head_(S), OfSub(m, S)) : m2.ptr[c] = m.ptr[c]
    <3>1. m2.ptr[Head_(S)] = m.ptr[Head_(S)]
      BY <1>1, <1>3, <1>4, <2>1, CellKinds
    <3>2. \A x \in OfSub(m, S) : x \in Nodes /\ SNext[x] = SubNext(x)
      BY <1>6 DEF SNext
    <3> QED BY <1>9, <3>1, <3>2 DEF Cells
  <2>3. /\ List(m.ptr, m.subscriber_prev, SNext, Head_(S), OfSub(m, S))
        /\ Pointers(m.ptr, m.subscriber_prev, SNext, Head_(S))
    BY ListCells DEF Linked
  <2> DEFINE M == OfSub(m, S)
             f == Head_(S)
  <2>4. M \in SUBSET Nodes /\ \A x \in M : m2.subscriber_prev[x] = m.subscriber_prev[x]
    BY <1>4, <1>6
  <2> HIDE DEF M, f
  <2>5. List(m2.ptr, m2.subscriber_prev, SNext, f, M)
    BY <1>1, <2>2, <2>3, <2>4, ListKept DEF M, f
  <2> QED BY <1>6, <2>5 DEF M, f
<1>12. \A x \in Fresh(m2) : x \in Nodes /\ m2.m_topic[x] = Nil /\ m2.ptr[TopicNext(x)] = Nil /\ m2.m_erasing_nodes[x] = {}
  BY <1>4, <1>6, <1>9 DEF Linked, Fresh
<1>13. ASSUME NEW U \in Topics, m2.m_tail[U] # Nil, m2.m_topic[m2.m_tail[U]] = U
       PROVE  m2.ptr[TopicNext(m2.m_tail[U])] = Nil
  <2>1. m2.m_tail[U] = m.m_tail[U] /\ m.m_tail[U] \in Nodes
    BY <1>3, <1>4, <1>13
  <2> QED BY <1>4, <1>9, <1>13, <2>1 DEF Linked
<1>14. \A x \in Nodes : m2.m_topic[x] = Nil <=> m2.m_subscriber[x] = Nil
  BY <1>4 DEF Linked
<1> QED BY <1>5, <1>6, <1>8, <1>10, <1>11, <1>12, <1>13, <1>14 DEF Linked


-----------------------------------------------------------------------------
(* Who clears a topic, and who is to link a node *)

Clearing(topic, s) == Occurs(<<"clear_next", topic>>, s)
ToLink(s) == \E i \in DOMAIN s : s[i][1] \in {"has_topic", "link"}

\* Only clear_next goes on clearing.
LEMMA Clearings ==
  ASSUME NEW T \in Topics
  PROVE  /\ ~Clearing(T, <<>>)
         /\ \A x \in Op, s \in Seq(Op) : x[1] # "clear_next" => (Clearing(T, x ** s) <=> Clearing(T, s))
         /\ \A U, s : U \in Topics /\ s \in Seq(Op) =>
              (Clearing(T, <<"clear_next", U>> ** s) <=> T = U \/ Clearing(T, s))
<1>1. ~Clearing(T, <<>>) /\ \A x \in Op, s \in Seq(Op) : Clearing(T, x ** s) <=> <<"clear_next", T>> = x \/ Clearing(T, s)
  BY OccursIn DEF Clearing
<1>2. \A x \in Op : x[1] # "clear_next" => <<"clear_next", T>> # x
  OBVIOUS
<1>3. \A U \in Topics : <<"clear_next", U>> \in Op /\ (<<"clear_next", T>> = <<"clear_next", U>> => T = U)
  BY Operations DEF Mutexes
<1> QED BY <1>1, <1>2, <1>3

\* A thread that is to link a node says so.
LEMMA ToLinks ==
  /\ ~ToLink(<<>>)
  /\ \A x \in Op, s \in Seq(Op) : ToLink(x ** s) <=> x[1] \in {"has_topic", "link"} \/ ToLink(s)
<1>1. ~ToLink(<<>>)
  BY DEF ToLink
<1>2. ASSUME NEW x \in Op, NEW s \in Seq(Op), ToLink(x ** s)
      PROVE  x[1] \in {"has_topic", "link"} \/ ToLink(s)
  <2>1. PICK i \in 1..(Len(s) + 1) : (x ** s)[i][1] \in {"has_topic", "link"}
    BY <1>2 DEF ToLink, **
  <2>2. CASE i = 1
    BY <2>1, <2>2, ThenIs
  <2>3. CASE i # 1
    <3>1. i - 1 \in 1..Len(s) /\ s[i - 1][1] \in {"has_topic", "link"}
      BY <2>1, <2>3 DEF **
    <3> QED BY <3>1 DEF ToLink
  <2> QED BY <2>2, <2>3
<1>3. ASSUME NEW x \in Op, NEW s \in Seq(Op), x[1] \in {"has_topic", "link"} \/ ToLink(s)
      PROVE  ToLink(x ** s)
  <2>1. CASE x[1] \in {"has_topic", "link"}
    BY <2>1 DEF ToLink, **
  <2>2. CASE ToLink(s)
    <3>1. PICK i \in 1..Len(s) : s[i][1] \in {"has_topic", "link"}
      BY <2>2 DEF ToLink
    <3>2. i + 1 \in 1..(Len(s) + 1) /\ (x ** s)[i + 1][1] \in {"has_topic", "link"}
      BY <3>1 DEF **
    <3>3. i + 1 \in DOMAIN (x ** s)
      BY <3>2 DEF **
    <3> QED BY <3>2, <3>3 DEF ToLink
  <2> QED BY <1>3, <2>1, <2>2
<1> QED BY <1>1, <1>2, <1>3

\* The names of the operations a thread does while it does not clear.
LEMMA OtherNames ==
  \A m, o, c, n :
    /\ <<"lock", m>>[1] = "lock" /\ <<"unlock", m>>[1] = "unlock" /\ <<"all", m>>[1] = "all"
    /\ <<"clear", m>>[1] = "clear" /\ <<"walk", m>>[1] = "walk" /\ <<"clear_next", m>>[1] = "clear_next"
    /\ <<"relock", m, o>>[1] = "relock" /\ <<"find", m, o>>[1] = "find" /\ <<"erase", c, n>>[1] = "erase"
    /\ <<"has_topic", m, o>>[1] = "has_topic" /\ <<"link", m, o>>[1] = "link"
  OBVIOUS

\* A thread that subscribes clears nothing, ...
LEMMA SubscribesClears ==
  ASSUME NEW T \in Topics, NEW topic \in Topics, NEW sub \in Subscribers, NEW s, NEW h,
         Subscribes(topic, sub, s, h)
  PROVE  ~Clearing(T, s)
<1>1. topic \in Mutexes /\ sub \in Mutexes
  BY DEF Mutexes
<1> DEFINE u == <<"unlock", sub>> ** <<>>
           v == <<"unlock", topic>> ** u
           w == <<"has_topic", topic, sub>> ** <<>>
           l == LinkThen(topic, sub)
<1>2. /\ <<>> \in Seq(Op) /\ u \in Seq(Op) /\ v \in Seq(Op) /\ w \in Seq(Op) /\ l \in Seq(Op)
      /\ \A b \in Mutexes : <<"lock", b>> ** l \in Seq(Op)
      /\ \A a, b \in Mutexes : <<"lock", a>> ** (<<"lock", b>> ** l) \in Seq(Op)
  BY SubscribesSeqs
<1>3. /\ <<"unlock", sub>> \in Op /\ <<"unlock", topic>> \in Op /\ <<"link", topic, sub>> \in Op
      /\ <<"has_topic", topic, sub>> \in Op /\ \A b \in Mutexes : <<"lock", b>> \in Op
  BY <1>1, Operations
<1>4. \A x \in Op, r \in Seq(Op) : x[1] # "clear_next" => (Clearing(T, x ** r) <=> Clearing(T, r))
  BY Clearings
<1>5. ~Clearing(T, u)
  BY <1>2, <1>3, <1>4, Clearings
<1>6. ~Clearing(T, v) /\ ~Clearing(T, w)
  <2>1. ~Clearing(T, v)
    <3> HIDE DEF u
    <3> QED BY <1>2, <1>3, <1>4, <1>5
  <2>2. ~Clearing(T, w)
    BY <1>2, <1>3, <1>4, Clearings
  <2> QED BY <2>1, <2>2
<1>7. ~Clearing(T, l)
  <2>1. l = <<"link", topic, sub>> ** v
    BY DEF LinkThen
  <2> HIDE DEF v, l
  <2> QED BY <1>2, <1>3, <1>4, <1>6, <2>1
<1> HIDE DEF u, v, w, l
<1>8. \A b \in Mutexes : ~Clearing(T, <<"lock", b>> ** l)
  BY <1>2, <1>3, <1>4, <1>7
<1>9. \A a, b \in Mutexes : ~Clearing(T, <<"lock", a>> ** (<<"lock", b>> ** l))
  BY <1>2, <1>3, <1>4, <1>8
<1>10. \A a, b \in Mutexes : ~Clearing(T, <<"unlock", sub>> ** (<<"lock", a>> ** (<<"lock", b>> ** l)))
  BY <1>2, <1>3, <1>4, <1>9
<1>11. ~Clearing(T, <<"lock", sub>> ** w)
  BY <1>1, <1>2, <1>3, <1>4, <1>6
<1> QED BY <1>6, <1>7, <1>8, <1>9, <1>10, <1>11 DEF Subscribes, w, l

\* nor one at the beginning of another call, ...
LEMMA BeginsClears ==
  ASSUME NEW T \in Topics, NEW t, NEW topic \in Topics, NEW sub \in Subscribers, NEW s, NEW h,
         Begins(t, topic, sub, s, h)
  PROVE  ~Clearing(T, s)
<1>1. topic \in Mutexes /\ sub \in Mutexes
  BY DEF Mutexes
<1> DEFINE u == <<"unlock", sub>> ** <<>>
           f == <<"find", topic, sub>> ** u
           a == <<"all", sub>> ** u
<1>2. <<>> \in Seq(Op) /\ u \in Seq(Op) /\ f \in Seq(Op) /\ a \in Seq(Op) /\ <<"lock", sub>> \in Op
      /\ <<"find", topic, sub>> \in Op /\ <<"all", sub>> \in Op /\ <<"unlock", sub>> \in Op
  BY <1>1, SubscribesSeqs, Operations, ThenIs
<1>3. \A x \in Op, r \in Seq(Op) : x[1] # "clear_next" => (Clearing(T, x ** r) <=> Clearing(T, r))
  BY Clearings
<1>4. ~Clearing(T, u)
  BY <1>2, <1>3, Clearings
<1>5. ~Clearing(T, f) /\ ~Clearing(T, a)
  <2> HIDE DEF u
  <2> QED BY <1>2, <1>3, <1>4
<1> HIDE DEF f, a
<1>6. ~Clearing(T, <<"lock", sub>> ** f) /\ ~Clearing(T, <<"lock", sub>> ** a)
  BY <1>2, <1>3, <1>5
<1> QED BY <1>5, <1>6 DEF Begins, f, a

\* nor one that publishes, or is to clear, ...
LEMMA PublishesClears ==
  ASSUME NEW T \in Topics, NEW topic \in Topics, NEW s, NEW h, Publishes(topic, s, h)
  PROVE  ~Clearing(T, s)
<1> DEFINE last == <<"unlock", topic>> ** <<>>
           two == <<"unlock", topic>> ** last
           clears == <<"clear", topic>> ** last
           erases == <<"clear", topic>> ** two
           walk1 == <<"walk", topic>> ** last
           mid == <<"lock", topic>> ** erases
           walk2 == <<"walk", topic>> ** mid
<1>1. /\ <<>> \in Seq(Op) /\ last \in Seq(Op) /\ two \in Seq(Op)
      /\ walk1 \in Seq(Op) /\ walk2 \in Seq(Op)
      /\ clears \in Seq(Op) /\ erases \in Seq(Op) /\ mid \in Seq(Op)
      /\ <<"lock", topic>> \in Op /\ <<"walk", topic>> \in Op /\ <<"clear", topic>> \in Op
      /\ <<"unlock", topic>> \in Op
  BY PublishesSeqs
<1>2. \A x \in Op, r \in Seq(Op) : x[1] # "clear_next" => (Clearing(T, x ** r) <=> Clearing(T, r))
  BY Clearings
<1>3. ~Clearing(T, last)
  BY <1>1, <1>2, Clearings
<1>4. ~Clearing(T, two) /\ ~Clearing(T, clears) /\ ~Clearing(T, walk1)
  <2> HIDE DEF last
  <2> QED BY <1>1, <1>2, <1>3
<1>5. ~Clearing(T, erases)
  <2> HIDE DEF two
  <2> QED BY <1>1, <1>2, <1>4
<1>6. ~Clearing(T, mid)
  <2> HIDE DEF erases
  <2> QED BY <1>1, <1>2, <1>5
<1>7. ~Clearing(T, walk2)
  <2> HIDE DEF mid
  <2> QED BY <1>1, <1>2, <1>6
<1> HIDE DEF clears, walk1, walk2
<1>8. /\ ~Clearing(T, <<"lock", topic>> ** walk1) /\ ~Clearing(T, <<"lock", topic>> ** clears)
      /\ ~Clearing(T, <<"lock", topic>> ** walk2)
  BY <1>1, <1>2, <1>4, <1>7
<1> QED BY <1>4, <1>5, <1>6, <1>7, <1>8 DEF Publishes, clears, walk1, walk2, two, erases, mid, last

\* nor one that is at its end.
LEMMA EndsClears ==
  ASSUME NEW T \in Topics, NEW s, NEW h, Ends(s, h)
  PROVE  ~Clearing(T, s)
<1>1. \A m \in Mutexes : <<"unlock", m>> \in Op
  BY Operations
<1>2. \A x \in Op, r \in Seq(Op) : x[1] # "clear_next" => (Clearing(T, x ** r) <=> Clearing(T, r))
  BY Clearings
<1>3. <<>> \in Seq(Op) /\ ~Clearing(T, <<>>)
  BY Clearings
<1>4. \A m \in Mutexes : ~Clearing(T, <<"unlock", m>> ** <<>>)
  BY <1>1, <1>2, <1>3
<1> QED BY <1>3, <1>4 DEF Ends

\* The loops that clear have clear_next left.
LEMMA RestClears ==
  ASSUME NEW T \in Topics, NEW topic \in Topics, NEW sub \in Subscribers, NEW job \in Jobs
  PROVE  Clearing(T, Rest(job, topic, sub)) <=> Clears(job) /\ T = topic
<1>1. topic \in Mutexes /\ sub \in Mutexes /\ <<>> \in Seq(Op)
  BY DEF Mutexes
<1> DEFINE u == <<"unlock", sub>> ** <<>>
           v == <<"unlock", topic>> ** <<>>
           w == <<"unlock", topic>> ** v
<1>2. u \in Seq(Op) /\ v \in Seq(Op) /\ w \in Seq(Op) /\ <<"all", sub>> \in Op
      /\ <<"unlock", sub>> \in Op /\ <<"unlock", topic>> \in Op
  BY <1>1, Operations, ThenIs
<1>3. /\ \A x \in Op, r \in Seq(Op) : x[1] # "clear_next" => (Clearing(T, x ** r) <=> Clearing(T, r))
      /\ \A r \in Seq(Op) : Clearing(T, <<"clear_next", topic>> ** r) <=> T = topic \/ Clearing(T, r)
      /\ ~Clearing(T, <<>>)
  BY Clearings
<1>4. ~Clearing(T, u) /\ ~Clearing(T, v)
  BY <1>1, <1>2, <1>3
<1>5. ~Clearing(T, w)
  <2> HIDE DEF v
  <2> QED BY <1>2, <1>3, <1>4
<1> HIDE DEF u, v, w
<1>6. ~Clearing(T, <<"all", sub>> ** u)
  BY <1>2, <1>3, <1>4
<1>7. /\ Clearing(T, <<"clear_next", topic>> ** v) <=> T = topic
      /\ Clearing(T, <<"clear_next", topic>> ** w) <=> T = topic
  BY <1>2, <1>3, <1>4, <1>5
<1> QED BY <1>4, <1>6, <1>7 DEF Rest, Jobs, Clears, u, v, w

\* A thread that erases clears if its job is to.
LEMMA ErasesClears ==
  ASSUME NEW T \in Topics, NEW topic \in Topics, NEW sub \in Subscribers, NEW job \in Jobs,
         NEW t \in Threads, NEW n \in Nodes, NEW s, NEW h,
         GoesOn(job, topic, sub, s, h) \/ Erases(t, job, topic, sub, n, s, h)
  PROVE  Clearing(T, s) <=> Clears(job) /\ T = topic
<1> DEFINE own == Own(job, topic, sub)
           other == Other(job, topic, sub)
           c == CellOf(job, t, sub)
           rest == Rest(job, topic, sub)
           o == <<"unlock", other>> ** rest
           e == <<"erase", c, n>> ** o
<1>1. own \in Mutexes /\ other \in Mutexes /\ c \in Cell /\ rest \in Seq(Op) /\ o \in Seq(Op)
  BY Rests DEF CellOf, Cell, Mutexes
<1>2. Clearing(T, rest) <=> Clears(job) /\ T = topic
  BY RestClears
<1>3. \A x \in Op, r \in Seq(Op) : x[1] # "clear_next" => (Clearing(T, x ** r) <=> Clearing(T, r))
  BY Clearings
<1>4. CASE GoesOn(job, topic, sub, s, h)
  <2>1. s = <<"unlock", other>> ** rest \/ s = rest
    BY <1>4 DEF GoesOn
  <2> HIDE DEF own, other, c, rest
  <2>2. <<"unlock", other>> \in Op
    BY <1>1, Operations
  <2> QED BY <1>1, <1>2, <1>3, <2>1, <2>2
<1>5. CASE Erases(t, job, topic, sub, n, s, h)
  <2>1. \/ s = <<"relock", own, other>> ** e
        \/ s = <<"lock", other>> ** e
        \/ s = <<"unlock", own>> ** (<<"lock", other>> ** (<<"lock", own>> ** e))
        \/ s = <<"lock", other>> ** (<<"lock", own>> ** e)
        \/ s = <<"lock", own>> ** e
        \/ s = e
    BY <1>5 DEF Erases, Erasing
  <2> HIDE DEF own, other, c, rest
  <2>2. /\ <<"unlock", other>> \in Op /\ <<"erase", c, n>> \in Op /\ <<"lock", own>> \in Op
        /\ <<"lock", other>> \in Op /\ <<"unlock", own>> \in Op /\ <<"relock", own, other>> \in Op
    BY <1>1, Operations
  <2>3. o \in Seq(Op) /\ (Clearing(T, o) <=> Clearing(T, rest))
    BY <1>1, <1>3, <2>2
  <2> HIDE DEF o
  <2>4. e \in Seq(Op) /\ (Clearing(T, e) <=> Clearing(T, rest))
    BY <1>3, <2>2, <2>3, ThenIs
  <2> HIDE DEF e
  <2> DEFINE k == <<"lock", own>> ** e
             l == <<"lock", other>> ** k
  <2>5. k \in Seq(Op) /\ (Clearing(T, k) <=> Clearing(T, rest))
    BY <1>3, <2>2, <2>4, ThenIs
  <2> HIDE DEF k
  <2>6. l \in Seq(Op) /\ (Clearing(T, l) <=> Clearing(T, rest))
    BY <1>3, <2>2, <2>5, ThenIs
  <2> HIDE DEF l
  <2>7. /\ Clearing(T, <<"relock", own, other>> ** e) <=> Clearing(T, rest)
        /\ Clearing(T, <<"lock", other>> ** e) <=> Clearing(T, rest)
        /\ Clearing(T, <<"unlock", own>> ** l) <=> Clearing(T, rest)
    BY <1>3, <2>2, <2>4, <2>6
  <2> QED BY <1>2, <2>1, <2>4, <2>5, <2>6, <2>7 DEF k, l
<1> QED BY <1>4, <1>5

\* Who clears a topic publishes, and has the topic's list begin in its variable.
LEMMA PlaceClears ==
  ASSUME NEW m, NEW t \in Threads, NEW first, NEW s, NEW h, Place(m, t, first, s, h),
         NEW T \in Topics, Clearing(T, s)
  PROVE  Publisher(t) /\ first[T] = Local(t)
<1>1. PICK topic \in Topics, sub \in Subscribers :
       \/ \E job \in Jobs :
            /\ GoesOn(job, topic, sub, s, h)
            /\ Clears(job) => Publisher(t) /\ first[topic] = Local(t)
       \/ \E job \in Jobs, n \in Nodes :
            /\ Erases(t, job, topic, sub, n, s, h)
            /\ Clears(job) => Publisher(t) /\ first[topic] = Local(t)
  BY EndsClears, SubscribesClears, BeginsClears, PublishesClears DEF Place
<1>2. ASSUME NEW job \in Jobs, GoesOn(job, topic, sub, s, h),
             Clears(job) => Publisher(t) /\ first[topic] = Local(t)
      PROVE  Publisher(t) /\ first[T] = Local(t)
  <2>1. CASE Nodes = {}
    <3>1. s = <<"unlock", Other(job, topic, sub)>> ** Rest(job, topic, sub) \/ s = Rest(job, topic, sub)
      BY <1>2 DEF GoesOn
    <3>2. <<"unlock", Other(job, topic, sub)>> \in Op /\ Rest(job, topic, sub) \in Seq(Op)
      BY Rests, Operations
    <3>3. Clearing(T, Rest(job, topic, sub))
      BY <3>1, <3>2, Clearings
    <3> QED BY <1>2, <3>3, RestClears
  <2>2. CASE Nodes # {}
    BY <1>2, <2>2, ErasesClears
  <2> QED BY <2>1, <2>2
<1>3. ASSUME NEW job \in Jobs, NEW n \in Nodes, Erases(t, job, topic, sub, n, s, h),
             Clears(job) => Publisher(t) /\ first[topic] = Local(t)
      PROVE  Publisher(t) /\ first[T] = Local(t)
  BY <1>3, ErasesClears
<1> QED BY <1>1, <1>2, <1>3


-----------------------------------------------------------------------------
(* What a step of a thread leaves to the others *)

\* The operation a thread does, and what comes after.
LEMMA Doing ==
  ASSUME todo \in [Threads -> Seq(Op)], NEW t \in Threads, NEW name, Does(t, name)
  PROVE  /\ todo[t][1] \in Op /\ Tail(todo[t]) \in Seq(Op) /\ todo[t][1][1] = name
         /\ todo[t] = todo[t][1] ** Tail(todo[t])
         /\ \A ops \in Seq(Op) : /\ ops \o Tail(todo[t]) \in Seq(Op)
                                 /\ Goes(t, ops) => todo' = [todo EXCEPT ![t] = ops \o Tail(todo[t])]
         /\ Goes(t, <<>>) => todo' = [todo EXCEPT ![t] = Tail(todo[t])]
<1>1. todo[t] \in Seq(Op) /\ todo[t] # <<>> /\ todo[t][1][1] = name
  BY DEF Does
<1>2. todo[t][1] \in Op /\ Tail(todo[t]) \in Seq(Op) /\ todo[t] = todo[t][1] ** Tail(todo[t])
  BY <1>1, ThenOrEmpty
<1>3. \A ops \in Seq(Op) : /\ ops \o Tail(todo[t]) \in Seq(Op)
                           /\ Goes(t, ops) => todo' = [todo EXCEPT ![t] = ops \o Tail(todo[t])]
  BY <1>2 DEF Goes
<1>4. <<>> \o Tail(todo[t]) = Tail(todo[t])
  BY <1>2
<1>5. Goes(t, <<>>) => todo' = [todo EXCEPT ![t] = Tail(todo[t])]
  BY <1>4 DEF Goes
<1> QED BY <1>1, <1>2, <1>3, <1>5

\* A mutex is taken: ...
LEMMA TakenIs ==
  ASSUME owner \in [Mutexes -> [by : Threads \cup {Nil}, depth : Nat]],
         \A m \in Mutexes : owner[m].by = Nil <=> owner[m].depth = 0,
         NEW t \in Threads, NEW x \in Mutexes, Available(x, t), owner' = Taken(x, t)
  PROVE  /\ owner' \in [Mutexes -> [by : Threads \cup {Nil}, depth : Nat]]
         /\ \A m \in Mutexes : owner'[m].by = Nil <=> owner'[m].depth = 0
         /\ Depth(t)' = Plus(Depth(t), x)
         /\ \A u \in Threads : u # t => Depth(u)' = Depth(u)
<1>1. Nil \notin Threads /\ owner[x].depth \in Nat /\ owner[x].by \in {Nil, t}
  BY SubscriptionAssumption DEF Available
<1>2. /\ owner'[x] = [by |-> t, depth |-> owner[x].depth + 1]
      /\ \A m \in Mutexes : m # x => owner'[m] = owner[m]
      /\ owner' \in [Mutexes -> [by : Threads \cup {Nil}, depth : Nat]]
  BY <1>1 DEF Taken
<1>3. \A m \in Mutexes : owner'[m].by = Nil <=> owner'[m].depth = 0
  BY <1>1, <1>2
<1>4. Depth(t)' = Plus(Depth(t), x)
  <2>1. \A m \in Mutexes : (IF owner'[m].by = t THEN owner'[m].depth ELSE 0) =
            IF m = x THEN (IF owner[m].by = t THEN owner[m].depth ELSE 0) + 1
                     ELSE (IF owner[m].by = t THEN owner[m].depth ELSE 0)
    BY <1>1, <1>2
  <2> QED BY <2>1 DEF Depth, Plus
<1>5. ASSUME NEW u \in Threads, u # t PROVE Depth(u)' = Depth(u)
  <2>1. \A m \in Mutexes : (IF owner'[m].by = u THEN owner'[m].depth ELSE 0) =
                           IF owner[m].by = u THEN owner[m].depth ELSE 0
    BY <1>1, <1>2, <1>5
  <2> QED BY <2>1 DEF Depth
<1> QED BY <1>2, <1>3, <1>4, <1>5

\* and given back.
LEMMA GivenBackIs ==
  ASSUME owner \in [Mutexes -> [by : Threads \cup {Nil}, depth : Nat]],
         \A m \in Mutexes : owner[m].by = Nil <=> owner[m].depth = 0,
         NEW t \in Threads, NEW x \in Mutexes, Depth(t)[x] >= 1,
         owner' = [owner EXCEPT ![x] = IF @.depth = 1 THEN [by |-> Nil, depth |-> 0]
                                       ELSE [by |-> @.by, depth |-> @.depth - 1]]
  PROVE  /\ owner' \in [Mutexes -> [by : Threads \cup {Nil}, depth : Nat]]
         /\ \A m \in Mutexes : owner'[m].by = Nil <=> owner'[m].depth = 0
         /\ Depth(t)' = Minus(Depth(t), x)
         /\ \A u \in Threads : u # t => Depth(u)' = Depth(u)
<1>1. Nil \notin Threads /\ owner[x].depth \in Nat \ {0} /\ owner[x].by = t
  BY SubscriptionAssumption DEF Depth
<1>2. /\ owner'[x] = IF owner[x].depth = 1 THEN [by |-> Nil, depth |-> 0]
                     ELSE [by |-> t, depth |-> owner[x].depth - 1]
      /\ \A m \in Mutexes : m # x => owner'[m] = owner[m]
      /\ owner' \in [Mutexes -> [by : Threads \cup {Nil}, depth : Nat]]
  BY <1>1
<1>3. \A m \in Mutexes : owner'[m].by = Nil <=> owner'[m].depth = 0
  BY <1>1, <1>2
<1>4. Depth(t)' = Minus(Depth(t), x)
  <2>1. \A m \in Mutexes : (IF owner'[m].by = t THEN owner'[m].depth ELSE 0) =
            IF m = x THEN (IF owner[m].by = t THEN owner[m].depth ELSE 0) - 1
                     ELSE (IF owner[m].by = t THEN owner[m].depth ELSE 0)
    BY <1>1, <1>2
  <2> QED BY <2>1 DEF Depth, Minus
<1>5. ASSUME NEW u \in Threads, u # t PROVE Depth(u)' = Depth(u)
  <2>1. \A m \in Mutexes : (IF owner'[m].by = u THEN owner'[m].depth ELSE 0) =
                           IF owner[m].by = u THEN owner[m].depth ELSE 0
    BY <1>1, <1>2, <1>5
  <2> QED BY <2>1 DEF Depth
<1> QED BY <1>2, <1>3, <1>4, <1>5

\* The memory keeps what a thread at a place relies on.
Keeps(m, m2) ==
  \A n \in Nodes : n \notin Fresh(m) =>
    /\ n \notin Fresh(m2)
    /\ m2.m_topic[n] \in {m.m_topic[n], Nil} /\ m2.m_subscriber[n] \in {m.m_subscriber[n], Nil}

\* A thread at a place is still there.
LEMMA PlaceKept ==
  ASSUME NEW m, NEW m2, Keeps(m, m2), NEW u \in Threads, NEW first, NEW first2, NEW s, NEW h,
         Place(m, u, first, s, h),
         \A T \in Topics : first[T] = Local(u) => first2[T] = Local(u),
         \A n \in Nodes, T \in Topics, S \in Subscribers :
           n \notin Fresh(m) /\ Erases(u, "unsubscribe", T, S, n, s, h) /\ Told(m, u, n) => Told(m2, u, n)
  PROVE  Place(m2, u, first2, s, h)
<1>1. \A n \in Nodes, T \in Topics, S \in Subscribers : Was(m, n, T, S) => Was(m2, n, T, S) /\ n \notin Fresh(m)
  BY DEF Was, Keeps
<1>2. ASSUME NEW T \in Topics, NEW S \in Subscribers, NEW job \in Jobs, NEW n \in Nodes,
             Erases(u, job, T, S, n, s, h), Was(m, n, T, S),
             Clears(job) => Publisher(u) /\ first[T] = Local(u),
             job = "unsubscribe" => Told(m, u, n)
      PROVE  Place(m2, u, first2, s, h)
  BY <1>1, <1>2 DEF Place
<1>3. ASSUME NEW T \in Topics, NEW S \in Subscribers, NEW job \in Jobs,
             GoesOn(job, T, S, s, h),
             Clears(job) => Publisher(u) /\ first[T] = Local(u)
      PROVE  Place(m2, u, first2, s, h)
  BY <1>3 DEF Place
<1> QED BY <1>2, <1>3 DEF Place

\* The topics' lists begin where they did.
LEMMA FirstKept ==
  ASSUME todo \in [Threads -> Seq(Op)], NEW t \in Threads, NEW s, todo' = [todo EXCEPT ![t] = s],
         NEW T \in Topics, Clearing(T, s) <=> Clearing(T, todo[t])
  PROVE  FirstOf(T)' = FirstOf(T)
<1>1. \A u \in Threads : Clearing(T, todo'[u]) <=> Clearing(T, todo[u])
  OBVIOUS
<1>2. {u \in Threads : Clearing(T, todo'[u])} = {u \in Threads : Clearing(T, todo[u])}
  BY <1>1
<1> DEFINE C == {u \in Threads : Clearing(T, todo[u])}
<1>3. FirstOf(T) = IF C = {} THEN Head_(T) ELSE Local(CHOOSE u \in C : TRUE)
  BY DEF FirstOf, Clearing, Occurs
<1> DEFINE D == {u \in Threads : Clearing(T, todo'[u])}
<1>4. FirstOf(T)' = IF D = {} THEN Head_(T) ELSE Local(CHOOSE u \in D : TRUE)
  BY DEF FirstOf, Clearing, Occurs
<1>5. C = D
  BY <1>2
<1> HIDE DEF C, D
<1> QED BY <1>3, <1>4, <1>5

\* A step of one thread.
LEMMA Moves ==
  ASSUME Sound, NEW t \in Threads, NEW s \in Seq(Op), todo' = [todo EXCEPT ![t] = s],
         addr' = addr, met' = met, calls' \in 0..MaxCalls,
         owner' \in [Mutexes -> [by : Threads \cup {Nil}, depth : Nat]],
         \A m \in Mutexes : owner'[m].by = Nil <=> owner'[m].depth = 0,
         \A u \in Threads : u # t => Depth(u)' = Depth(u),
         Linked(mem, First)', Keeps(mem, mem'),
         \A u \in Threads : u # t => \A T \in Topics : First[T] = Local(u) => First'[T] = Local(u),
         \A u \in Threads : u # t => \A n \in Nodes, T \in Topics, S \in Subscribers :
           n \notin Fresh(mem) /\ Erases(u, "unsubscribe", T, S, n, todo[u], Depth(u)) /\ Told(mem, u, n)
             => Told(mem', u, n),
         Place(mem', t, First', s, Depth(t)'),
         ErasersKnown', Room'
  PROVE  Sound'
<1>1. /\ todo \in [Threads -> Seq(Op)] /\ addr \in Addresses /\ met = {}
      /\ \A u \in Threads : Place(mem, u, First, todo[u], Depth(u))
  BY DEF Sound, Types
<1>2. todo' \in [Threads -> Seq(Op)] /\ todo'[t] = s /\ \A u \in Threads : u # t => todo'[u] = todo[u]
  BY <1>1
<1>3. Types'
  BY <1>1, <1>2 DEF Types
<1>4. ASSUME NEW u \in Threads PROVE Place(mem', u, First', todo'[u], Depth(u)')
  <2>1. CASE u = t
    BY <1>2, <2>1
  <2>2. CASE u # t
    <3> DEFINE first == First
               first2 == First'
               h == Depth(u)
               r == todo[u]
    <3>1. Place(mem, u, first, r, h) /\ todo'[u] = r /\ Depth(u)' = h
      BY <1>1, <1>2, <2>2
    <3>2. \A T \in Topics : first[T] = Local(u) => first2[T] = Local(u)
      BY <2>2
    <3>3. \A n \in Nodes, T \in Topics, S \in Subscribers :
            n \notin Fresh(mem) /\ Erases(u, "unsubscribe", T, S, n, r, h) /\ Told(mem, u, n) => Told(mem', u, n)
      BY <2>2
    <3> HIDE DEF first, first2, h, r
    <3>4. Place(mem', u, first2, r, h)
      BY <3>1, <3>2, <3>3, PlaceKept
    <3> QED BY <3>1, <3>4 DEF first2
  <2> QED BY <2>1, <2>2
<1> QED BY <1>3, <1>4 DEF Sound


\* Threads that are to link a node.
LEMMA LinkingIs == Linking = {u \in Threads : ToLink(todo[u])} /\ New = Fresh(mem)
  BY DEF Linking, ToLink, New, Fresh

\* There is a node for each of them as long as they do not become more.
LEMMA RoomKept ==
  ASSUME Room, todo \in [Threads -> Seq(Op)], NEW t \in Threads, NEW s, todo' = [todo EXCEPT ![t] = s],
         ToLink(s) => ToLink(todo[t]), Fresh(mem)' = Fresh(mem)
  PROVE  Room'
<1>1. \A u \in Threads : ToLink(todo'[u]) => ToLink(todo[u])
  OBVIOUS
<1>2. Linking' = {u \in Threads : ToLink(todo'[u])} /\ New' = Fresh(mem)'
  BY DEF Linking, ToLink, New, Fresh
<1>3. Linking' \subseteq Linking /\ New' = New
  BY <1>1, <1>2, LinkingIs
<1>4. IsFiniteSet(Linking) /\ IsFiniteSet(New)
  BY FS_Subset, SubscriptionAssumption, LinkingIs DEF Fresh
<1>5. Cardinality(Linking') <= Cardinality(Linking) /\ IsFiniteSet(Linking')
  BY <1>3, <1>4, FS_Subset
<1>6. Cardinality(Linking) \in Nat /\ Cardinality(New) \in Nat /\ Cardinality(Linking') \in Nat
  BY <1>4, <1>5, FS_CardinalityType
<1>7. Cardinality(Linking) <= Cardinality(New)
  BY DEF Room
<1>8. Cardinality(Linking') <= Cardinality(New')
  BY <1>3, <1>5, <1>6, <1>7
<1> QED BY <1>8 DEF Room

\* A step that leaves the lists alone.
LEMMA Stays ==
  ASSUME Sound, NEW t \in Threads, NEW s \in Seq(Op), todo' = [todo EXCEPT ![t] = s],
         addr' = addr, met' = met, mem' = mem, calls' \in 0..MaxCalls,
         owner' \in [Mutexes -> [by : Threads \cup {Nil}, depth : Nat]],
         \A m \in Mutexes : owner'[m].by = Nil <=> owner'[m].depth = 0,
         \A u \in Threads : u # t => Depth(u)' = Depth(u),
         \A T \in Topics : Clearing(T, s) <=> Clearing(T, todo[t]),
         Place(mem, t, First, s, Depth(t)'),
         ToLink(s) => ToLink(todo[t]),
         \A n \in Nodes, T \in Topics, S \in Subscribers :
           Live(mem, n) /\ Erases(t, "unsubscribe", T, S, n, todo[t], Depth(t)) =>
             Erases(t, "unsubscribe", T, S, n, s, Depth(t)')
  PROVE  Sound'
<1>1. todo \in [Threads -> Seq(Op)] /\ Room /\ Linked(mem, First) /\ ErasersKnown
  BY DEF Sound, Types
<1>2. First' = First
  <2>1. \A T \in Topics : FirstOf(T)' = FirstOf(T)
    BY <1>1, FirstKept
  <2> QED BY <2>1 DEF First
<1>3. Linked(mem, First)'
  BY <1>1, <1>2
<1>4. Keeps(mem, mem')
  BY DEF Keeps
<1>5. Room'
  BY <1>1, RoomKept
<1>6. ErasersKnown'
  <2> SUFFICES ASSUME NEW n \in Nodes, Live(mem, n), NEW u \in Threads, Local(u) \in mem.m_erasing_nodes[n]
               PROVE  /\ mem.ptr[Local(u)] = n
                      /\ \E T \in Topics, S \in Subscribers :
                           Erases(u, "unsubscribe", T, S, n, todo'[u], Depth(u)')
    BY DEF ErasersKnown
  <2>1. mem.ptr[Local(u)] = n
    BY <1>1 DEF ErasersKnown
  <2>2. PICK T \in Topics, S \in Subscribers : Erases(u, "unsubscribe", T, S, n, todo[u], Depth(u))
    BY <1>1 DEF ErasersKnown
  <2>3. CASE u = t
    <3>1. todo'[u] = s
      BY <1>1, <2>3
    <3> QED BY <2>1, <2>2, <2>3, <3>1
  <2>4. CASE u # t
    <3>1. todo'[u] = todo[u] /\ Depth(u)' = Depth(u)
      BY <1>1, <2>4
    <3> QED BY <2>1, <2>2, <3>1
  <2> QED BY <2>3, <2>4
<1>7. Place(mem', t, First', s, Depth(t)')
  BY <1>2
<1>8. \A u \in Threads : u # t => \A n \in Nodes, T \in Topics, S \in Subscribers :
        n \notin Fresh(mem) /\ Erases(u, "unsubscribe", T, S, n, todo[u], Depth(u)) /\ Told(mem, u, n)
          => Told(mem', u, n)
  OBVIOUS
<1>9. \A u \in Threads : u # t => \A T \in Topics : First[T] = Local(u) => First'[T] = Local(u)
  BY <1>2
<1> QED BY <1>3, <1>4, <1>5, <1>6, <1>7, <1>8, <1>9, Moves


-----------------------------------------------------------------------------
(* The steps that leave the lists alone *)

\* OrderRelock leads from place to place, whichever way it goes.
LEMMA PlaceRelocks ==
  ASSUME NEW m \in Mem, NEW t \in Threads, NEW first, NEW x \in Mutexes, NEW y \in Mutexes,
         NEW r \in Seq(Op), NEW h, Place(m, t, first, <<"relock", x, y>> ** r, h)
  PROVE  /\ Place(m, t, first, <<"lock", y>> ** r, h)
         /\ Place(m, t, first, r, Plus(h, y))
         /\ Place(m, t, first, <<"unlock", x>> ** (<<"lock", y>> ** (<<"lock", x>> ** r)), h)
<1>1. <<"relock", x, y>> \in Op /\ <<"relock", x, y>>[1] = "relock"
  BY Operations
<1> DEFINE o == <<"relock", x, y>>
<1> HIDE DEF o
<1>2. o \in Op /\ o[1] = "relock" /\ Place(m, t, first, o ** r, h)
  BY <1>1 DEF o
<1>3. ~Ends(o ** r, h)
  BY <1>2, EndsAt
<1>4. \A T \in Topics, S \in Subscribers :
        /\ ~Subscribes(T, S, o ** r, h) /\ ~Begins(t, T, S, o ** r, h) /\ ~Publishes(T, o ** r, h)
        /\ \A job \in Jobs : ~GoesOn(job, T, S, o ** r, h)
  <2> SUFFICES ASSUME NEW T \in Topics, NEW S \in Subscribers
               PROVE  /\ ~Subscribes(T, S, o ** r, h) /\ ~Begins(t, T, S, o ** r, h) /\ ~Publishes(T, o ** r, h)
                      /\ \A job \in Jobs : ~GoesOn(job, T, S, o ** r, h)
    OBVIOUS
  <2>1. /\ \A p, q : <<"has_topic", p, q>>[1] # "relock" /\ <<"link", p, q>>[1] # "relock" /\ <<"find", p, q>>[1] # "relock"
        /\ \A p : /\ <<"walk", p>>[1] # "relock" /\ <<"clear", p>>[1] # "relock"
                  /\ <<"all", p>>[1] # "relock" /\ <<"clear_next", p>>[1] # "relock"
    OBVIOUS
  <2>0. o # <<"has_topic", T, S>> /\ o # <<"link", T, S>> /\ o # <<"find", T, S>> /\ o[1] \notin {"lock", "unlock"}
    BY <1>2
  <2>2. ~Subscribes(T, S, o ** r, h)
    BY <1>2, <2>0, SubscribesAt
  <2>3. ~Begins(t, T, S, o ** r, h)
    BY <1>2, <2>0, BeginsAt
  <2>4. ~Publishes(T, o ** r, h)
    BY <1>2, <2>1, PublishesAt
  <2>5. \A job \in Jobs : ~GoesOn(job, T, S, o ** r, h)
    BY <1>2, <2>1, GoesOnAt
  <2> QED BY <2>2, <2>3, <2>4, <2>5
<1>5. PICK T \in Topics, S \in Subscribers, job \in Jobs, n \in Nodes :
        /\ Erases(t, job, T, S, n, o ** r, h)
        /\ Was(m, n, T, S)
        /\ Clears(job) => Publisher(t) /\ first[T] = Local(t)
        /\ job = "unsubscribe" => Told(m, t, n)
  BY <1>2, <1>3, <1>4 DEF Place
<1>6. CellOf(job, t, S) \in Cell
  BY DEF CellOf, Cell, Mutexes
<1>7. /\ Erases(t, job, T, S, n, <<"lock", y>> ** r, h)
      /\ Erases(t, job, T, S, n, r, Plus(h, y))
      /\ Erases(t, job, T, S, n, <<"unlock", x>> ** (<<"lock", y>> ** (<<"lock", x>> ** r)), h)
  <2>1. Erasing(Own(job, T, S), Times(job), Other(job, T, S), CellOf(job, t, S), n, Rest(job, T, S),
                <<"relock", x, y>> ** r, h)
    BY <1>5 DEF Erases, o
  <2> QED BY <1>6, <2>1, Rests, ErasingRelocks DEF Erases
<1> QED BY <1>5, <1>7 DEF Place

\* A thread in unsubscribe() is, after these, about to erase the same node.
LEMMA UnsubscribeGoesOn ==
  ASSUME NEW t \in Threads, NEW n \in Nodes, NEW T \in Topics, NEW S \in Subscribers, NEW h,
         NEW x \in Mutexes, NEW y \in Mutexes, NEW r \in Seq(Op)
  PROVE  /\ Erases(t, "unsubscribe", T, S, n, <<"lock", x>> ** r, h) =>
              Erases(t, "unsubscribe", T, S, n, r, Plus(h, x))
         /\ Erases(t, "unsubscribe", T, S, n, <<"unlock", x>> ** r, h) =>
              Erases(t, "unsubscribe", T, S, n, r, Minus(h, x))
         /\ Erases(t, "unsubscribe", T, S, n, <<"relock", x, y>> ** r, h) =>
              /\ Erases(t, "unsubscribe", T, S, n, <<"lock", y>> ** r, h)
              /\ Erases(t, "unsubscribe", T, S, n, r, Plus(h, y))
              /\ Erases(t, "unsubscribe", T, S, n, <<"unlock", x>> ** (<<"lock", y>> ** (<<"lock", x>> ** r)), h)
<1> DEFINE job == "unsubscribe"
<1>1. /\ Own(job, T, S) \in Mutexes /\ Other(job, T, S) \in Mutexes /\ Own(job, T, S) # Other(job, T, S)
      /\ Times(job) \in Nat \ {0} /\ Rest(job, T, S) \in Seq(Op) /\ CellOf(job, t, S) \in Cell
  BY Rests DEF Jobs, CellOf, Cell
<1> HIDE DEF job
<1>2. Erases(t, job, T, S, n, <<"lock", x>> ** r, h) => Erases(t, job, T, S, n, r, Plus(h, x))
  BY <1>1, ErasingLocks DEF Erases
<1>3. Erases(t, job, T, S, n, <<"unlock", x>> ** r, h) => Erases(t, job, T, S, n, r, Minus(h, x))
  BY <1>1, ErasingUnlocks DEF Erases
<1>4. Erases(t, job, T, S, n, <<"relock", x, y>> ** r, h) =>
        /\ Erases(t, job, T, S, n, <<"lock", y>> ** r, h)
        /\ Erases(t, job, T, S, n, r, Plus(h, y))
        /\ Erases(t, job, T, S, n, <<"unlock", x>> ** (<<"lock", y>> ** (<<"lock", x>> ** r)), h)
  BY <1>1, ErasingRelocks DEF Erases
<1> QED BY <1>2, <1>3, <1>4 DEF job

\* A mutex is taken, ...
LEMMA LockStep ==
  ASSUME Sound, NEW t \in Threads, lock(t)
  PROVE  Sound'
<1> DEFINE x == Arg(t, 2)
           r == Tail(todo[t])
<1>1. /\ todo \in [Threads -> Seq(Op)] /\ mem \in Mem /\ Place(mem, t, First, todo[t], Depth(t))
      /\ owner \in [Mutexes -> [by : Threads \cup {Nil}, depth : Nat]] /\ calls \in 0..MaxCalls
      /\ \A m \in Mutexes : owner[m].by = Nil <=> owner[m].depth = 0
  BY DEF Sound, Types, Linked
<1>2. Does(t, "lock") /\ Available(x, t) /\ owner' = Taken(x, t) /\ Goes(t, <<>>)
      /\ UNCHANGED <<addr, mem, calls, met>>
  BY DEF lock
<1>3. todo[t][1] \in Op /\ r \in Seq(Op) /\ todo[t][1][1] = "lock" /\ todo[t] = todo[t][1] ** r
      /\ todo' = [todo EXCEPT ![t] = r]
  BY <1>1, <1>2, Doing
<1>4. x \in Mutexes /\ todo[t] = <<"lock", x>> ** r
  BY <1>3, NameTells DEF Arg
<1> HIDE DEF x, r
<1>5. /\ owner' \in [Mutexes -> [by : Threads \cup {Nil}, depth : Nat]]
      /\ \A m \in Mutexes : owner'[m].by = Nil <=> owner'[m].depth = 0
      /\ Depth(t)' = Plus(Depth(t), x)
      /\ \A u \in Threads : u # t => Depth(u)' = Depth(u)
  BY <1>1, <1>2, <1>4, TakenIs
<1>6. Place(mem, t, First, r, Depth(t)')
  <2> DEFINE h == Depth(t)
             f == First
  <2>1. Place(mem, t, f, <<"lock", x>> ** r, h)
    BY <1>1, <1>4
  <2> HIDE DEF h, f
  <2>2. Place(mem, t, f, r, Plus(h, x))
    BY <1>1, <1>3, <1>4, <2>1, PlaceLocks
  <2> QED BY <1>5, <2>2 DEF h, f
<1>7. \A T \in Topics : Clearing(T, r) <=> Clearing(T, todo[t])
  BY <1>3, Clearings
<1>8. ToLink(r) => ToLink(todo[t])
  BY <1>3, ToLinks
<1>9. \A n \in Nodes, T \in Topics, S \in Subscribers :
        Erases(t, "unsubscribe", T, S, n, todo[t], Depth(t)) => Erases(t, "unsubscribe", T, S, n, r, Depth(t)')
  <2> TAKE n \in Nodes, T \in Topics, S \in Subscribers
  <2> DEFINE h == Depth(t)
  <2> HIDE DEF h
  <2>1. Erases(t, "unsubscribe", T, S, n, <<"lock", x>> ** r, h) =>
              Erases(t, "unsubscribe", T, S, n, r, Plus(h, x))
    BY <1>3, <1>4, UnsubscribeGoesOn
  <2> QED BY <1>4, <1>5, <2>1 DEF h
<1> QED BY <1>1, <1>2, <1>3, <1>5, <1>6, <1>7, <1>8, <1>9, Stays

\* or given back, ...
LEMMA UnlockStep ==
  ASSUME Sound, NEW t \in Threads, unlock(t)
  PROVE  Sound'
<1> DEFINE x == Arg(t, 2)
           r == Tail(todo[t])
<1>1. /\ todo \in [Threads -> Seq(Op)] /\ mem \in Mem /\ Place(mem, t, First, todo[t], Depth(t))
      /\ owner \in [Mutexes -> [by : Threads \cup {Nil}, depth : Nat]] /\ calls \in 0..MaxCalls
      /\ \A m \in Mutexes : owner[m].by = Nil <=> owner[m].depth = 0
  BY DEF Sound, Types, Linked
<1>2. /\ Does(t, "unlock") /\ Goes(t, <<>>)
      /\ owner' = [owner EXCEPT ![x] = IF @.depth = 1 THEN [by |-> Nil, depth |-> 0]
                                       ELSE [by |-> @.by, depth |-> @.depth - 1]]
      /\ UNCHANGED <<addr, mem, calls, met>>
  BY DEF unlock
<1>3. todo[t][1] \in Op /\ r \in Seq(Op) /\ todo[t][1][1] = "unlock" /\ todo[t] = todo[t][1] ** r
      /\ todo' = [todo EXCEPT ![t] = r]
  BY <1>1, <1>2, Doing
<1>4. x \in Mutexes /\ todo[t] = <<"unlock", x>> ** r
  BY <1>3, NameTells DEF Arg
<1> HIDE DEF x, r
<1>5. Depth(t)[x] >= 1 /\ Place(mem, t, First, r, Minus(Depth(t), x))
  <2> DEFINE h == Depth(t)
             f == First
  <2>1. Place(mem, t, f, <<"unlock", x>> ** r, h)
    BY <1>1, <1>4
  <2> HIDE DEF h, f
  <2>2. h[x] >= 1 /\ Place(mem, t, f, r, Minus(h, x))
    BY <1>1, <1>3, <1>4, <2>1, PlaceUnlocks
  <2> QED BY <2>2 DEF h, f
<1>6. /\ owner' \in [Mutexes -> [by : Threads \cup {Nil}, depth : Nat]]
      /\ \A m \in Mutexes : owner'[m].by = Nil <=> owner'[m].depth = 0
      /\ Depth(t)' = Minus(Depth(t), x)
      /\ \A u \in Threads : u # t => Depth(u)' = Depth(u)
  BY <1>1, <1>2, <1>4, <1>5, GivenBackIs
<1>7. \A T \in Topics : Clearing(T, r) <=> Clearing(T, todo[t])
  BY <1>3, Clearings
<1>8. ToLink(r) => ToLink(todo[t])
  BY <1>3, ToLinks
<1>9. \A n \in Nodes, T \in Topics, S \in Subscribers :
        Erases(t, "unsubscribe", T, S, n, todo[t], Depth(t)) => Erases(t, "unsubscribe", T, S, n, r, Depth(t)')
  <2> TAKE n \in Nodes, T \in Topics, S \in Subscribers
  <2> DEFINE h == Depth(t)
  <2> HIDE DEF h
  <2>1. Erases(t, "unsubscribe", T, S, n, <<"unlock", x>> ** r, h) =>
              Erases(t, "unsubscribe", T, S, n, r, Minus(h, x))
    BY <1>3, <1>4, UnsubscribeGoesOn
  <2> QED BY <1>4, <1>6, <2>1 DEF h
<1>10. Place(mem, t, First, r, Depth(t)')
  BY <1>5, <1>6
<1> QED BY <1>1, <1>2, <1>3, <1>6, <1>7, <1>8, <1>9, <1>10, Stays

\* or two are put in order.
LEMMA RelockStep ==
  ASSUME Sound, NEW t \in Threads, OrderRelock(t)
  PROVE  Sound'
<1> DEFINE x == Arg(t, 2)
           y == Arg(t, 3)
           r == Tail(todo[t])
           o == <<"relock", x, y>>
           s1 == <<"lock", y>> ** r
           s3 == <<"unlock", x>> ** (<<"lock", y>> ** (<<"lock", x>> ** r))
<1>1. /\ todo \in [Threads -> Seq(Op)] /\ mem \in Mem /\ Place(mem, t, First, todo[t], Depth(t))
      /\ owner \in [Mutexes -> [by : Threads \cup {Nil}, depth : Nat]] /\ calls \in 0..MaxCalls
      /\ \A m \in Mutexes : owner[m].by = Nil <=> owner[m].depth = 0
  BY DEF Sound, Types, Linked
<1>2. /\ Does(t, "relock") /\ UNCHANGED <<addr, mem, calls, met>>
      /\ \/ Goes(t, <<<<"lock", y>> >>) /\ UNCHANGED owner
         \/ Available(y, t) /\ owner' = Taken(y, t) /\ Goes(t, <<>>)
         \/ Goes(t, <<<<"unlock", x>>, <<"lock", y>>, <<"lock", x>> >>) /\ UNCHANGED owner
  BY DEF OrderRelock
<1>3. todo[t][1] \in Op /\ r \in Seq(Op) /\ todo[t][1][1] = "relock" /\ todo[t] = todo[t][1] ** r
  BY <1>1, <1>2, Doing
<1>4. x \in Mutexes /\ y \in Mutexes /\ todo[t] = o ** r
  BY <1>3, NameTells DEF Arg
<1>5. <<"lock", y>> \in Op /\ <<"unlock", x>> \in Op /\ <<"lock", x>> \in Op /\ o \in Op /\ o[1] = "relock"
      /\ <<"lock", y>>[1] = "lock" /\ <<"unlock", x>>[1] = "unlock" /\ <<"lock", x>>[1] = "lock"
  BY <1>4, Operations
<1>6. s1 \in Seq(Op) /\ s3 \in Seq(Op) /\ <<"lock", x>> ** r \in Seq(Op) /\ <<"lock", y>> ** (<<"lock", x>> ** r) \in Seq(Op)
  BY <1>3, <1>5, ThenIs
<1>7. \/ todo' = [todo EXCEPT ![t] = s1] /\ UNCHANGED owner
      \/ Available(y, t) /\ owner' = Taken(y, t) /\ todo' = [todo EXCEPT ![t] = r]
      \/ todo' = [todo EXCEPT ![t] = s3] /\ UNCHANGED owner
  <2> DEFINE a == <<"unlock", x>>
             b == <<"lock", y>>
             c == <<"lock", x>>
             ops1 == <<b>>
             ops3 == <<a, b, c>>
  <2>1. a \in Op /\ b \in Op /\ c \in Op
    BY <1>5
  <2>2. s1 = b ** r /\ s3 = a ** (b ** (c ** r))
    OBVIOUS
  <2>3. \/ Goes(t, ops1) /\ UNCHANGED owner
        \/ Available(y, t) /\ owner' = Taken(y, t) /\ todo' = [todo EXCEPT ![t] = r]
        \/ Goes(t, ops3) /\ UNCHANGED owner
    BY <1>1, <1>2, Doing
  <2>4. r \in Seq(Op) /\ \A ops \in Seq(Op) : Goes(t, ops) => todo' = [todo EXCEPT ![t] = ops \o r]
    BY <1>1, <1>2, Doing
  <2> HIDE DEF x, y, s1, s3, r, a, b, c
  <2>5. ops1 \o r = s1 /\ ops3 \o r = s3
    BY <2>1, <2>2, <2>4, Several
  <2>6. ops1 \in Seq(Op) /\ ops3 \in Seq(Op)
    BY <2>1
  <2> HIDE DEF ops1, ops3
  <2> QED BY <2>3, <2>4, <2>5, <2>6
<1> HIDE DEF x, y, r
<1>8. /\ Place(mem, t, First, s1, Depth(t)) /\ Place(mem, t, First, s3, Depth(t))
      /\ Place(mem, t, First, r, Plus(Depth(t), y))
  <2> DEFINE h == Depth(t)
             f == First
  <2>1. Place(mem, t, f, <<"relock", x, y>> ** r, h)
    BY <1>1, <1>4
  <2> HIDE DEF h, f
  <2>2. Place(mem, t, f, s1, h) /\ Place(mem, t, f, s3, h) /\ Place(mem, t, f, r, Plus(h, y))
    BY <1>1, <1>3, <1>4, <2>1, PlaceRelocks
  <2> QED BY <2>2 DEF h, f
<1>9. \A T \in Topics : /\ Clearing(T, r) <=> Clearing(T, todo[t])
                        /\ Clearing(T, s1) <=> Clearing(T, todo[t])
                        /\ Clearing(T, s3) <=> Clearing(T, todo[t])
  <2> TAKE T \in Topics
  <2>1. \A a \in Op, s \in Seq(Op) : a[1] # "clear_next" => (Clearing(T, a ** s) <=> Clearing(T, s))
    BY Clearings
  <2>2. Clearing(T, r) <=> Clearing(T, todo[t])
    BY <1>3, <2>1
  <2>3. Clearing(T, s1) <=> Clearing(T, r)
    BY <1>3, <1>5, <2>1
  <2>4. Clearing(T, <<"lock", x>> ** r) <=> Clearing(T, r)
    BY <1>3, <1>5, <2>1
  <2>5. Clearing(T, <<"lock", y>> ** (<<"lock", x>> ** r)) <=> Clearing(T, r)
    BY <1>5, <1>6, <2>1, <2>4
  <2>6. Clearing(T, s3) <=> Clearing(T, r)
    BY <1>5, <1>6, <2>1, <2>5
  <2> QED BY <2>2, <2>3, <2>6
<1>10. /\ ToLink(r) => ToLink(todo[t])
       /\ ToLink(s1) => ToLink(todo[t])
       /\ ToLink(s3) => ToLink(todo[t])
  <2>1. \A a \in Op, s \in Seq(Op) : ToLink(a ** s) <=> a[1] \in {"has_topic", "link"} \/ ToLink(s)
    BY ToLinks
  <2>2. ToLink(r) => ToLink(todo[t])
    BY <1>3, <2>1
  <2>3. ToLink(s1) => ToLink(r)
    BY <1>3, <1>5, <2>1
  <2>4. ToLink(<<"lock", x>> ** r) => ToLink(r)
    BY <1>3, <1>5, <2>1
  <2>5. ToLink(<<"lock", y>> ** (<<"lock", x>> ** r)) => ToLink(r)
    BY <1>5, <1>6, <2>1, <2>4
  <2>6. ToLink(s3) => ToLink(r)
    BY <1>5, <1>6, <2>1, <2>5
  <2> QED BY <2>2, <2>3, <2>6
<1>11. \A n \in Nodes, T \in Topics, S \in Subscribers :
         Erases(t, "unsubscribe", T, S, n, todo[t], Depth(t)) =>
           /\ Erases(t, "unsubscribe", T, S, n, s1, Depth(t))
           /\ Erases(t, "unsubscribe", T, S, n, s3, Depth(t))
           /\ Erases(t, "unsubscribe", T, S, n, r, Plus(Depth(t), y))
  BY <1>3, <1>4, UnsubscribeGoesOn
<1> HIDE DEF s1, s3
<1>12. CASE UNCHANGED owner /\ (todo' = [todo EXCEPT ![t] = s1] \/ todo' = [todo EXCEPT ![t] = s3])
  <2>1. \A u \in Threads : Depth(u)' = Depth(u)
    BY <1>12 DEF Depth
  <2>2. PICK s \in {s1, s3} : todo' = [todo EXCEPT ![t] = s]
    BY <1>12
  <2>3. s \in Seq(Op) /\ Place(mem, t, First, s, Depth(t)') /\ (ToLink(s) => ToLink(todo[t]))
    BY <1>6, <1>8, <1>10, <2>1
  <2>4. \A T \in Topics : Clearing(T, s) <=> Clearing(T, todo[t])
    BY <1>9
  <2>5. \A n \in Nodes, T \in Topics, S \in Subscribers :
          Erases(t, "unsubscribe", T, S, n, todo[t], Depth(t)) => Erases(t, "unsubscribe", T, S, n, s, Depth(t)')
    BY <1>11, <2>1
  <2>6. /\ owner' \in [Mutexes -> [by : Threads \cup {Nil}, depth : Nat]] /\ calls' \in 0..MaxCalls
        /\ \A m \in Mutexes : owner'[m].by = Nil <=> owner'[m].depth = 0
        /\ addr' = addr /\ met' = met /\ mem' = mem
    BY <1>1, <1>2, <1>12
  <2> QED BY <2>1, <2>2, <2>3, <2>4, <2>5, <2>6, Stays
<1>13. CASE Available(y, t) /\ owner' = Taken(y, t) /\ todo' = [todo EXCEPT ![t] = r]
  <2>1. /\ owner' \in [Mutexes -> [by : Threads \cup {Nil}, depth : Nat]]
        /\ \A m \in Mutexes : owner'[m].by = Nil <=> owner'[m].depth = 0
        /\ Depth(t)' = Plus(Depth(t), y)
        /\ \A u \in Threads : u # t => Depth(u)' = Depth(u)
    BY <1>1, <1>4, <1>13, TakenIs
  <2>2. Place(mem, t, First, r, Depth(t)')
    BY <1>8, <2>1
  <2>3. \A n \in Nodes, T \in Topics, S \in Subscribers :
          Erases(t, "unsubscribe", T, S, n, todo[t], Depth(t)) => Erases(t, "unsubscribe", T, S, n, r, Depth(t)')
    BY <1>11, <2>1
  <2>4. addr' = addr /\ met' = met /\ mem' = mem /\ calls' \in 0..MaxCalls
    BY <1>1, <1>2
  <2> QED BY <1>3, <1>9, <1>10, <1>13, <2>1, <2>2, <2>3, <2>4, Stays
<1> QED BY <1>7, <1>12, <1>13



-----------------------------------------------------------------------------
(* The steps between locking and unlocking *)

\* What a thread that does one of these operations has left, and has.
Ready(m, t, first, x, r, h) ==
  /\ x[1] = "has_topic" => \E T \in Topics, S \in Subscribers :
       x = <<"has_topic", T, S>> /\ r = <<>> /\ h = Has(S, 1)
  /\ x[1] = "link" => \E T \in Topics, S \in Subscribers :
       /\ x = <<"link", T, S>> /\ r = <<"unlock", T>> ** (<<"unlock", S>> ** <<>>)
       /\ h = Both(T, 1, S)
  /\ x[1] = "find" => \E T \in Topics, S \in Subscribers :
       x = <<"find", T, S>> /\ r = <<"unlock", S>> ** <<>> /\ h = Has(S, 1)
  /\ x[1] = "all" => \E S \in Subscribers :
       x = <<"all", S>> /\ r = <<"unlock", S>> ** <<>> /\ h = Has(S, 1)
  /\ x[1] = "walk" => \E T \in Topics :
       /\ Subscribers # {} /\ Publisher(t) /\ x = <<"walk", T>> /\ h = Has(T, 1)
       /\ \/ r = <<"unlock", T>> ** <<>>
          \/ r = <<"lock", T>> ** (<<"clear", T>> ** (<<"unlock", T>> ** (<<"unlock", T>> ** <<>>)))
  /\ x[1] = "clear" => \E T \in Topics :
       /\ Subscribers # {} /\ Publisher(t) /\ x = <<"clear", T>>
       /\ \/ r = <<"unlock", T>> ** <<>> /\ h = Has(T, 1)
          \/ r = <<"unlock", T>> ** (<<"unlock", T>> ** <<>>) /\ h = Has(T, 2)
  /\ x[1] = "clear_next" => \E T \in Topics :
       /\ Subscribers # {} /\ Publisher(t) /\ first[T] = Local(t) /\ x = <<"clear_next", T>>
       /\ \/ r = <<"unlock", T>> ** <<>> /\ h = Has(T, 1)
          \/ r = <<"unlock", T>> ** (<<"unlock", T>> ** <<>>) /\ h = Has(T, 2)
  /\ x[1] = "erase" => \E T \in Topics, S \in Subscribers, job \in Jobs, n \in Nodes :
       /\ x = <<"erase", CellOf(job, t, S), n>>
       /\ r = <<"unlock", Other(job, T, S)>> ** Rest(job, T, S)
       /\ h = Both(Own(job, T, S), Times(job), Other(job, T, S))
       /\ Was(m, n, T, S)
       /\ Clears(job) => Publisher(t) /\ first[T] = Local(t)
       /\ job = "unsubscribe" => Told(m, t, n)
\* A thread that is to do an operation has left what it does afterwards.
LEMMA PlaceAt ==
  ASSUME NEW m, NEW t \in Threads, NEW first, NEW x \in Op, NEW r \in Seq(Op), NEW h,
         Place(m, t, first, x ** r, h)
  PROVE  Ready(m, t, first, x, r, h)
<1> DEFINE Goal == Ready(m, t, first, x, r, h)
<1> USE DEF Ready
<1>1. x[1] \in {"lock", "unlock", "relock"} => Goal
  OBVIOUS
<1>2. Ends(x ** r, h) => Goal
  BY <1>1, EndsAt
<1>3. ASSUME NEW T \in Topics, NEW S \in Subscribers, Subscribes(T, S, x ** r, h)
      PROVE  Goal
  <2>1. <<"has_topic", T, S>>[1] = "has_topic" /\ <<"link", T, S>>[1] = "link"
    OBVIOUS
  <2>2. x = <<"has_topic", T, S>> /\ r = <<>> /\ h = Has(S, 1) => Goal
    BY <2>1
  <2>3. CASE x = <<"link", T, S>> /\ r = <<"unlock", T>> ** (<<"unlock", S>> ** <<>>) /\ h = Both(T, 1, S)
    BY <2>1, <2>3
  <2> HIDE DEF Goal
  <2> QED BY <1>1, <1>3, <2>2, <2>3, SubscribesAt
<1>4. ASSUME NEW T \in Topics, NEW S \in Subscribers, Begins(t, T, S, x ** r, h)
      PROVE  Goal
  <2>1. <<"find", T, S>>[1] = "find"
    OBVIOUS
  <2>2. CASE x = <<"find", T, S>> /\ r = <<"unlock", S>> ** <<>> /\ h = Has(S, 1)
    BY <2>1, <2>2
  <2> HIDE DEF Goal
  <2> QED BY <1>1, <1>4, <2>2, BeginsAt
<1>5. ASSUME NEW T \in Topics, NEW S \in Subscribers, Publishes(T, x ** r, h), Publisher(t)
      PROVE  Goal
  <2> DEFINE last == <<"unlock", T>> ** <<>>
             two == <<"unlock", T>> ** last
             mid == <<"lock", T>> ** (<<"clear", T>> ** two)
  <2>1. <<"walk", T>>[1] = "walk" /\ <<"clear", T>>[1] = "clear"
    OBVIOUS
  <2>2. \/ x[1] \in {"lock", "unlock"}
        \/ x = <<"walk", T>> /\ r \in {last, mid} /\ h = Has(T, 1)
        \/ x = <<"clear", T>> /\ r = last /\ h = Has(T, 1)
        \/ x = <<"clear", T>> /\ r = two /\ h = Has(T, 2)
    BY <1>5, PublishesAt
  <2>3. CASE x = <<"walk", T>> /\ r \in {last, mid} /\ h = Has(T, 1)
    BY <1>5, <2>1, <2>3
  <2>4. CASE x = <<"clear", T>> /\ r = last /\ h = Has(T, 1)
    BY <1>5, <2>1, <2>4
  <2>5. CASE x = <<"clear", T>> /\ r = two /\ h = Has(T, 2)
    BY <1>5, <2>1, <2>5
  <2> HIDE DEF Goal, last, two, mid
  <2>6. CASE x[1] \in {"lock", "unlock"}
    BY <1>1, <2>6
  <2> QED BY <2>2, <2>3, <2>4, <2>5, <2>6
<1>6. ASSUME NEW T \in Topics, NEW S \in Subscribers, NEW job \in Jobs, GoesOn(job, T, S, x ** r, h),
             Clears(job) => Publisher(t) /\ first[T] = Local(t)
      PROVE  Goal
  <2> DEFINE last == <<"unlock", T>> ** <<>>
             two == <<"unlock", T>> ** last
  <2>1. <<"all", S>>[1] = "all" /\ <<"clear_next", T>>[1] = "clear_next"
    OBVIOUS
  <2>2. \/ x[1] = "unlock"
        \/ x = <<"all", S>> /\ r = <<"unlock", S>> ** <<>> /\ h = Has(S, 1)
        \/ /\ Clears(job) /\ x = <<"clear_next", T>>
           /\ (r = last /\ h = Has(T, 1)) \/ (r = two /\ h = Has(T, 2))
    BY <1>6, GoesOnAt DEF Clears
  <2>3. CASE x = <<"all", S>> /\ r = <<"unlock", S>> ** <<>> /\ h = Has(S, 1)
    BY <2>1, <2>3
  <2>4. CASE /\ Clears(job) /\ x = <<"clear_next", T>>
             /\ (r = last /\ h = Has(T, 1)) \/ (r = two /\ h = Has(T, 2))
    BY <1>6, <2>1, <2>4
  <2> HIDE DEF Goal, last, two
  <2> QED BY <1>1, <2>2, <2>3, <2>4
<1>7. ASSUME NEW T \in Topics, NEW S \in Subscribers, NEW job \in Jobs, NEW n \in Nodes,
             Erases(t, job, T, S, n, x ** r, h), Was(m, n, T, S),
             Clears(job) => Publisher(t) /\ first[T] = Local(t),
             job = "unsubscribe" => Told(m, t, n)
      PROVE  Goal
  <2>1. /\ <<"erase", CellOf(job, t, S), n>>[1] = "erase"
        /\ <<"relock", Own(job, T, S), Other(job, T, S)>>[1] = "relock"
    OBVIOUS
  <2>2. CASE /\ x = <<"erase", CellOf(job, t, S), n>>
             /\ r = <<"unlock", Other(job, T, S)>> ** Rest(job, T, S)
             /\ h = Both(Own(job, T, S), Times(job), Other(job, T, S))
    BY <1>7, <2>1, <2>2
  <2>3. \/ x[1] \in {"lock", "unlock", "relock"}
        \/ /\ x = <<"erase", CellOf(job, t, S), n>>
           /\ r = <<"unlock", Other(job, T, S)>> ** Rest(job, T, S)
           /\ h = Both(Own(job, T, S), Times(job), Other(job, T, S))
    <3>1. Erases(t, job, T, S, n, x ** r, h)
      BY <1>7
    <3>2. x[1] \in {"lock", "unlock", "relock"} \/ Erasure(t, job, T, S, n, x, r, h)
      BY <3>1, ErasesAt
    <3> QED BY <3>2, <2>1 DEF Erasure
  <2> HIDE DEF Goal
  <2> QED BY <1>1, <2>1, <2>2, <2>3
<1> HIDE DEF Goal
<1>8. Goal
  <2>1. CASE ~Ends(x ** r, h)
    <3>1. PICK T \in Topics, S \in Subscribers :
            \/ Subscribes(T, S, x ** r, h)
            \/ Begins(t, T, S, x ** r, h)
            \/ Publisher(t) /\ Publishes(T, x ** r, h)
            \/ \E job \in Jobs :
                 /\ GoesOn(job, T, S, x ** r, h)
                 /\ Clears(job) => Publisher(t) /\ first[T] = Local(t)
            \/ \E job \in Jobs, n \in Nodes :
                 /\ Erases(t, job, T, S, n, x ** r, h)
                 /\ Was(m, n, T, S)
                 /\ Clears(job) => Publisher(t) /\ first[T] = Local(t)
                 /\ job = "unsubscribe" => Told(m, t, n)
      BY <2>1 DEF Place
    <3> QED BY <1>3, <1>4, <1>5, <1>6, <1>7, <3>1
  <2> QED BY <1>2, <2>1
<1> QED BY <1>8 DEF Goal


\* A thread that does another operation is not about to erase.
LEMMA NotErasing ==
  ASSUME NEW t \in Threads, NEW x \in Op, NEW r \in Seq(Op), NEW h,
         x[1] \notin {"lock", "unlock", "relock", "erase"}
  PROVE  \A n \in Nodes, T \in Topics, S \in Subscribers : ~Erases(t, "unsubscribe", T, S, n, x ** r, h)
<1> SUFFICES ASSUME NEW n \in Nodes, NEW T \in Topics, NEW S \in Subscribers,
                    Erases(t, "unsubscribe", T, S, n, x ** r, h)
             PROVE  FALSE
  OBVIOUS
<1> DEFINE job == "unsubscribe"
           o == <<"erase", CellOf(job, t, S), n>>
<1>1. job \in Jobs /\ o[1] = "erase" /\ Erases(t, job, T, S, n, x ** r, h)
  BY DEF Jobs
<1> HIDE DEF job
<1>2. Erasure(t, job, T, S, n, x, r, h)
  BY <1>1, ErasesAt
<1> QED BY <1>1, <1>2 DEF Erasure

\* A step that leaves the lists and the mutexes alone.
LEMMA StaysPut ==
  ASSUME Sound, NEW t \in Threads, NEW s \in Seq(Op), todo' = [todo EXCEPT ![t] = s],
         addr' = addr, met' = met, mem' = mem, calls' \in 0..MaxCalls, owner' = owner,
         \A T \in Topics : Clearing(T, s) <=> Clearing(T, todo[t]),
         Place(mem, t, First, s, Depth(t)),
         ToLink(s) => ToLink(todo[t]),
         \A n \in Nodes, T \in Topics, S \in Subscribers : ~Erases(t, "unsubscribe", T, S, n, todo[t], Depth(t))
  PROVE  Sound'
<1>1. /\ owner' \in [Mutexes -> [by : Threads \cup {Nil}, depth : Nat]]
      /\ \A m \in Mutexes : owner'[m].by = Nil <=> owner'[m].depth = 0
  BY DEF Sound, Types
<1>2. \A u \in Threads : Depth(u)' = Depth(u)
  BY DEF Depth
<1>3. Place(mem, t, First, s, Depth(t)')
  BY <1>2
<1> QED BY <1>1, <1>2, <1>3, Stays

\* Who clears a topic is where its list begins.
LEMMA FirstClears ==
  ASSUME Sound
  PROVE  /\ \A T \in Topics, u \in Threads : First[T] = Local(u) <=> Clearing(T, todo[u])
         /\ \A T \in Topics, u \in Threads : Clearing(T, todo[u]) => Publisher(u)
         /\ \A T \in Topics : (\A u \in Threads : ~Clearing(T, todo[u])) => First[T] = Head_(T)
<1>1. \A u \in Threads : Place(mem, u, First, todo[u], Depth(u))
  BY DEF Sound
<1>2. ASSUME NEW T \in Topics, NEW u \in Threads, Clearing(T, todo[u])
      PROVE  First[T] = Local(u) /\ Publisher(u)
  <2> DEFINE f == First
             s == todo[u]
             h == Depth(u)
  <2>1. Place(mem, u, f, s, h) /\ Clearing(T, s)
    BY <1>1, <1>2
  <2> HIDE DEF f, s, h
  <2>2. Publisher(u) /\ f[T] = Local(u)
    BY <2>1, PlaceClears
  <2> QED BY <2>2 DEF f
<1>3. ASSUME NEW T \in Topics
      PROVE  LET C == {u \in Threads : Clearing(T, todo[u])}
             IN  First[T] = IF C = {} THEN Head_(T) ELSE Local(CHOOSE u \in C : TRUE)
  BY DEF First, FirstOf, Clearing, Occurs
<1>4. ASSUME NEW T \in Topics, NEW u \in Threads, First[T] = Local(u)
      PROVE  Clearing(T, todo[u])
  <2> DEFINE C == {v \in Threads : Clearing(T, todo[v])}
  <2>1. C # {} /\ Local(CHOOSE v \in C : TRUE) = Local(u)
    BY <1>3, <1>4, CellKinds
  <2>2. (CHOOSE v \in C : TRUE) \in C /\ (CHOOSE v \in C : TRUE) = u
    BY <2>1, CellKinds
  <2> QED BY <2>2
<1>5. ASSUME NEW T \in Topics, \A u \in Threads : ~Clearing(T, todo[u])
      PROVE  First[T] = Head_(T)
  BY <1>3, <1>5
<1> QED BY <1>2, <1>4, <1>5

\* The only publisher, if it does not clear a topic, finds its list at its head.
LEMMA Unclear ==
  ASSUME Sound, OnePublisher, NEW t \in Threads, Publisher(t), NEW T \in Topics, ~Clearing(T, todo[t])
  PROVE  First[T] = Head_(T)
<1>1. \A u \in Threads : Publisher(u) => u = t
  BY DEF OnePublisher, Publisher
<1> QED BY <1>1, FirstClears


\* What has_topic() puts into its place.
LEMMA Subscribing ==
  ASSUME NEW T \in Topics, NEW S \in Subscribers, NEW a \in Mutexes, NEW b \in Mutexes
  PROVE  LET ops == <<<<"unlock", S>> >> \o <<<<"lock", a>>, <<"lock", b>> >> \o
                    <<<<"link", T, S>>, <<"unlock", T>>, <<"unlock", S>> >>
         IN  /\ ops \in Seq(Op)
             /\ ops \o <<>> = <<"unlock", S>> ** (<<"lock", a>> ** (<<"lock", b>> ** LinkThen(T, S)))
<1> DEFINE u == <<"unlock", S>>
           v == <<"unlock", T>>
           l == <<"link", T, S>>
           la == <<"lock", a>>
           lb == <<"lock", b>>
           two == <<la, lb>>
           rest == <<l, v, u>>
<1>1. u \in Op /\ v \in Op /\ l \in Op /\ la \in Op /\ lb \in Op
  BY Operations DEF Mutexes
<1>2. LinkThen(T, S) = l ** (v ** (u ** <<>>))
  BY DEF LinkThen
<1> HIDE DEF u, v, l, la, lb
<1>3. <<u>> \in Seq(Op) /\ two \in Seq(Op) /\ rest \in Seq(Op) /\ <<>> \in Seq(Op)
  BY <1>1
<1>4. rest \o <<>> = LinkThen(T, S)
  <2>1. \A s \in Seq(Op) : rest \o s = l ** (v ** (u ** s))
    BY <1>1, Several
  <2> QED BY <1>2, <1>3, <2>1
<1>5. rest = LinkThen(T, S)
  BY <1>3, <1>4
<1>6. LinkThen(T, S) \in Seq(Op)
  BY <1>3, <1>5
<1>7. two \o LinkThen(T, S) = la ** (lb ** LinkThen(T, S))
  BY <1>1, <1>6, Several
<1>8. la ** (lb ** LinkThen(T, S)) \in Seq(Op)
  BY <1>1, <1>6, ThenIs
<1> HIDE DEF two, rest
<1>9. (<<u>> \o two) \o rest = <<u>> \o (two \o rest)
  BY <1>3, ConcatAssociative
<1>10. (<<u>> \o two) \o rest = u ** (la ** (lb ** LinkThen(T, S)))
  BY <1>5, <1>7, <1>9 DEF **
<1>11. (<<u>> \o two) \o rest \in Seq(Op)
  BY <1>3
<1>12. ((<<u>> \o two) \o rest) \o <<>> = (<<u>> \o two) \o rest
  BY <1>11
<1> QED BY <1>10, <1>11, <1>12 DEF u, v, l, la, lb, two, rest

\* A thread finds out whether the subscriber has the topic.
LEMMA HasTopicStep ==
  ASSUME Sound, NEW t \in Threads, has_topic(t)
  PROVE  Sound'
<1> DEFINE x == todo[t][1]
           r == Tail(todo[t])
<1>1. todo \in [Threads -> Seq(Op)] /\ Place(mem, t, First, todo[t], Depth(t)) /\ calls \in 0..MaxCalls
  BY DEF Sound, Types
<1>2. Does(t, "has_topic") /\ UNCHANGED <<addr, owner, mem, calls, met>>
  BY DEF has_topic
<1>3. x \in Op /\ r \in Seq(Op) /\ x[1] = "has_topic" /\ todo[t] = x ** r
      /\ \A ops \in Seq(Op) : Goes(t, ops) => todo' = [todo EXCEPT ![t] = ops \o r]
  BY <1>1, <1>2, Doing
<1> HIDE DEF x, r
<1>4. PICK T \in Topics, S \in Subscribers :
        x = <<"has_topic", T, S>> /\ r = <<>> /\ Depth(t) = Has(S, 1)
  <2> DEFINE f == First
             h == Depth(t)
  <2>1. Place(mem, t, f, x ** r, h)
    BY <1>1, <1>3
  <2> HIDE DEF f, h
  <2>2. Ready(mem, t, f, x, r, h)
    BY <1>3, <2>1, PlaceAt
  <2> QED BY <1>3, <2>2 DEF Ready, h
<1>5. S \in Mutexes /\ T \in Mutexes /\ <<"unlock", S>> \in Op /\ <<>> \in Seq(Op)
  <2>1. <<>> \in Seq(Op)
    OBVIOUS
  <2> QED BY <2>1, Operations DEF Mutexes
<1>6. Arg(t, 2) = T /\ Arg(t, 3) = S
  BY <1>4 DEF Arg, x
<1>7. ToLink(todo[t]) /\ (\A U \in Topics : ~Clearing(U, todo[t]))
      /\ \A n \in Nodes, U \in Topics, V \in Subscribers : ~Erases(t, "unsubscribe", U, V, n, todo[t], Depth(t))
  <2>1. ToLink(x ** r)
    BY <1>3, ToLinks
  <2>2. \A U \in Topics : ~Clearing(U, x ** r)
    BY <1>3, <1>4, Clearings
  <2>3. \A n \in Nodes, U \in Topics, V \in Subscribers : ~Erases(t, "unsubscribe", U, V, n, x ** r, Depth(t))
    <3> DEFINE h == Depth(t)
    <3> HIDE DEF h
    <3>1. \A n \in Nodes, U \in Topics, V \in Subscribers : ~Erases(t, "unsubscribe", U, V, n, x ** r, h)
      BY <1>3, NotErasing
    <3> QED BY <3>1 DEF h
  <2> QED BY <1>3, <2>1, <2>2, <2>3
<1>8. PICK a \in Mutexes, b \in Mutexes :
        ((a = T /\ b = S) \/ (a = S /\ b = T)) /\ OrderLock(T, S) = <<<<"lock", a>>, <<"lock", b>> >>
  BY <1>5 DEF OrderLock
<1> DEFINE s1 == <<"unlock", S>> ** <<>>
           s2 == <<"unlock", S>> ** (<<"lock", a>> ** (<<"lock", b>> ** LinkThen(T, S)))
<1>9. /\ s1 \in Seq(Op) /\ s2 \in Seq(Op)
      /\ todo' = [todo EXCEPT ![t] = s1] \/ todo' = [todo EXCEPT ![t] = s2]
  <2> DEFINE u == <<"unlock", S>>
             ops1 == <<u>>
             ops2 == <<u>> \o OrderLock(T, S) \o <<<<"link", T, S>>, <<"unlock", T>>, <<"unlock", S>> >>
  <2>1. Goes(t, ops1) \/ Goes(t, ops2)
    BY <1>6 DEF has_topic
  <2>2. ops2 \in Seq(Op) /\ ops2 \o <<>> = s2
    <3>1. LET ops == <<<<"unlock", S>> >> \o <<<<"lock", a>>, <<"lock", b>> >> \o
                     <<<<"link", T, S>>, <<"unlock", T>>, <<"unlock", S>> >>
          IN  /\ ops \in Seq(Op)
              /\ ops \o <<>> = <<"unlock", S>> ** (<<"lock", a>> ** (<<"lock", b>> ** LinkThen(T, S)))
      BY Subscribing
    <3> QED BY <1>8, <3>1
  <2>3. ops1 \in Seq(Op) /\ ops1 \o <<>> = s1
    BY <1>5 DEF **
  <2>4. s1 \in Seq(Op) /\ s2 \in Seq(Op)
    <3>1. s1 \in Seq(Op)
      BY <1>5, ThenIs
    <3>2. ops2 \o <<>> = ops2
      BY <2>2
    <3> QED BY <2>2, <3>1, <3>2
  <2> HIDE DEF ops1, ops2, s1, s2
  <2> QED BY <1>3, <1>4, <2>1, <2>2, <2>3, <2>4
<1>10. CASE todo' = [todo EXCEPT ![t] = s1]
  <2>1. Ends(s1, Depth(t))
    BY <1>4, <1>5 DEF Ends
  <2>2. Place(mem, t, First, s1, Depth(t)) /\ \A U \in Topics : ~Clearing(U, s1)
    BY <2>1, EndsClears DEF Place
  <2> HIDE DEF s1
  <2> QED BY <1>1, <1>2, <1>7, <1>9, <1>10, <2>2, StaysPut
<1>11. CASE todo' = [todo EXCEPT ![t] = s2]
  <2>1. Subscribes(T, S, s2, Depth(t))
    BY <1>4, <1>8 DEF Subscribes
  <2>2. Place(mem, t, First, s2, Depth(t)) /\ \A U \in Topics : ~Clearing(U, s2)
    <3> DEFINE h == Depth(t)
               f == First
    <3>1. Subscribes(T, S, s2, h)
      BY <2>1
    <3> HIDE DEF h, s2, f
    <3>2. Place(mem, t, f, s2, h) /\ \A U \in Topics : ~Clearing(U, s2)
      BY <3>1, SubscribesClears DEF Place
    <3> QED BY <3>2 DEF h, f
  <2> HIDE DEF s2
  <2> QED BY <1>1, <1>2, <1>7, <1>9, <1>11, <2>2, StaysPut
<1> QED BY <1>9, <1>10, <1>11


\* What find, all and clear_next put before what is left.
RelockOps(o, p, c, n) == <<<<"relock", o, p>>, <<"erase", c, n>>, <<"unlock", p>> >>
RelockOpsAnd(o, p, c, n, y) == <<<<"relock", o, p>>, <<"erase", c, n>>, <<"unlock", p>>, y>>
RelockThen(o, p, c, n, q) == <<"relock", o, p>> ** (<<"erase", c, n>> ** (<<"unlock", p>> ** q))
\* What find() and the loops put in front of the rest.
LEMMA Relocking ==
  ASSUME NEW o \in Mutexes, NEW p \in Mutexes, NEW c \in Cell, NEW n \in Nodes, NEW q \in Seq(Op)
  PROVE  /\ RelockThen(o, p, c, n, q) \in Seq(Op) /\ (ToLink(RelockThen(o, p, c, n, q)) <=> ToLink(q))
         /\ \A T \in Topics : Clearing(T, RelockThen(o, p, c, n, q)) <=> Clearing(T, q)
         /\ RelockOps(o, p, c, n) \in Seq(Op) /\ RelockOps(o, p, c, n) \o q = RelockThen(o, p, c, n, q)
<1> DEFINE a == <<"relock", o, p>>
           b == <<"erase", c, n>>
           d == <<"unlock", p>>
           w == b ** (d ** q)
           s == RelockThen(o, p, c, n, q)
<1>1. a \in Op /\ b \in Op /\ d \in Op /\ a[1] = "relock" /\ b[1] = "erase" /\ d[1] = "unlock"
  BY Operations
<1> HIDE DEF a, b, d
<1>2. s = a ** w
  BY DEF RelockThen, a, b, d
<1>3. d ** q \in Seq(Op) /\ w \in Seq(Op) /\ a ** w \in Seq(Op)
  BY <1>1, ThenIs
<1> HIDE DEF s, w
<1>4. ToLink(s) <=> ToLink(q)
  <2>1. \A y \in Op, r \in Seq(Op) : ToLink(y ** r) <=> y[1] \in {"has_topic", "link"} \/ ToLink(r)
    BY ToLinks
  <2>2. ToLink(d ** q) <=> ToLink(q)
    BY <1>1, <2>1
  <2>3. ToLink(w) <=> ToLink(q)
    BY <1>1, <1>3, <2>1, <2>2 DEF w
  <2> QED BY <1>1, <1>2, <1>3, <2>1, <2>3
<1>5. ASSUME NEW T \in Topics PROVE Clearing(T, s) <=> Clearing(T, q)
  <2>1. \A y \in Op, r \in Seq(Op) : y[1] # "clear_next" => (Clearing(T, y ** r) <=> Clearing(T, r))
    BY Clearings
  <2>2. Clearing(T, d ** q) <=> Clearing(T, q)
    BY <1>1, <2>1
  <2>3. Clearing(T, w) <=> Clearing(T, q)
    BY <1>1, <1>3, <2>1, <2>2 DEF w
  <2> QED BY <1>1, <1>2, <1>3, <2>1, <2>3
<1>6. <<a, b, d>> \in Seq(Op) /\ <<a, b, d>> \o q = s
  <2>1. <<a, b, d>> \in Seq(Op)
    BY <1>1
  <2>2. \A r \in Seq(Op) : <<a, b, d>> \o r = a ** (b ** (d ** r))
    BY <1>1, Several
  <2> QED BY <1>2, <2>1, <2>2 DEF w
<1> QED BY <1>2, <1>3, <1>4, <1>5, <1>6 DEF a, b, d, s, RelockOps

\* And what all and clear_next put instead of themselves, to be done again.
LEMMA RelockingAnd ==
  ASSUME NEW o \in Mutexes, NEW p \in Mutexes, NEW c \in Cell, NEW n \in Nodes,
         NEW y \in Op, NEW r \in Seq(Op)
  PROVE  /\ RelockOpsAnd(o, p, c, n, y) \in Seq(Op)
         /\ RelockOpsAnd(o, p, c, n, y) \o r = RelockThen(o, p, c, n, y ** r)
<1> DEFINE a == <<"relock", o, p>>
           b == <<"erase", c, n>>
           d == <<"unlock", p>>
<1>1. a \in Op /\ b \in Op /\ d \in Op
  BY Operations
<1> HIDE DEF a, b, d
<1>2. <<a, b, d, y>> \in Seq(Op)
  BY <1>1
<1>3. <<a, b, d, y>> \o r = a ** (b ** (d ** (y ** r)))
  BY <1>1, Several
<1> QED BY <1>2, <1>3 DEF a, b, d, RelockOpsAnd, RelockThen

\* unsubscribe_all() looks for its first node.
LEMMA AllStep ==
  ASSUME Sound, NEW t \in Threads, all(t)
  PROVE  Sound'
<1> DEFINE x == todo[t][1]
           r == Tail(todo[t])
<1>1. /\ todo \in [Threads -> Seq(Op)] /\ Place(mem, t, First, todo[t], Depth(t)) /\ calls \in 0..MaxCalls
      /\ Linked(mem, First)
  BY DEF Sound, Types
<1>2. Does(t, "all") /\ UNCHANGED <<addr, owner, mem, calls, met>>
  BY DEF all
<1>3. x \in Op /\ r \in Seq(Op) /\ x[1] = "all" /\ todo[t] = x ** r
      /\ \A ops \in Seq(Op) : Goes(t, ops) => todo' = [todo EXCEPT ![t] = ops \o r]
  BY <1>1, <1>2, Doing
<1>11. Goes(t, <<>>) => todo' = [todo EXCEPT ![t] = r]
  BY <1>1, <1>2, Doing
<1> HIDE DEF x, r
<1>4. PICK S \in Subscribers :
        x = <<"all", S>> /\ r = <<"unlock", S>> ** <<>> /\ Depth(t) = Has(S, 1)
  <2> DEFINE f == First
             h == Depth(t)
  <2>1. Place(mem, t, f, x ** r, h)
    BY <1>1, <1>3
  <2> HIDE DEF f, h
  <2>2. Ready(mem, t, f, x, r, h)
    BY <1>3, <2>1, PlaceAt
  <2> QED BY <1>3, <2>2 DEF Ready, h
<1>5. S \in Mutexes /\ Arg(t, 2) = S
  BY <1>4 DEF Arg, x, Mutexes
<1>6. \A n \in Nodes, U \in Topics, V \in Subscribers : ~Erases(t, "unsubscribe", U, V, n, todo[t], Depth(t))
  <2> DEFINE h == Depth(t)
  <2> HIDE DEF h
  <2>1. \A n \in Nodes, U \in Topics, V \in Subscribers : ~Erases(t, "unsubscribe", U, V, n, x ** r, h)
    BY <1>3, NotErasing
  <2> QED BY <1>3, <2>1 DEF h
<1>7. Ends(r, Depth(t))
  BY <1>4, <1>5 DEF Ends
<1>8. \A U \in Topics : ~Clearing(U, r) /\ ~Clearing(U, todo[t])
  BY <1>3, <1>7, EndsClears, Clearings
<1> DEFINE n == mem.ptr[Head_(S)]
<1>9. CASE n = Nil
  <2>1. Goes(t, <<>>)
    BY <1>5, <1>9 DEF all
  <2>4. todo' = [todo EXCEPT ![t] = r]
    BY <1>11, <2>1
  <2>2. Place(mem, t, First, r, Depth(t))
    BY <1>7 DEF Place
  <2>3. ToLink(r) => ToLink(todo[t])
    BY <1>3, ToLinks
  <2> QED BY <1>1, <1>2, <1>3, <1>6, <1>8, <2>2, <2>3, <2>4, StaysPut
<1>10. CASE n # Nil
  <2>1. n \in OfSub(mem, S)
    BY <1>1, <1>10 DEF Linked, List, Cells
  <2>2. n \in Nodes /\ mem.m_subscriber[n] = S /\ Live(mem, n)
    <3>1. Nil \notin Mutexes /\ \A y \in Nodes : mem.m_topic[y] = Nil <=> mem.m_subscriber[y] = Nil
      BY <1>1, SubscriptionAssumption DEF Linked
    <3> QED BY <1>5, <2>1, <3>1 DEF OfSub, Live
  <2> DEFINE T == mem.m_topic[n]
  <2>3. T \in Topics /\ n \notin Fresh(mem)
    <3> DEFINE f == First
    <3> HIDE DEF f, n
    <3>1. Linked(mem, f)
      BY <1>1 DEF f
    <3> QED BY <2>2, <3>1, LiveNode
  <2>4. T \in Mutexes /\ Head_(S) \in Cell
    BY <1>5, <2>3, CellKinds DEF Mutexes
  <2> DEFINE c == Head_(S)
             q == todo[t]
             y == <<"all", S>>
             ops == RelockOpsAnd(S, T, c, n, y)
             s == RelockThen(S, T, c, n, q)
  <2>5. Goes(t, ops)
    BY <1>5, <1>10 DEF all, RelockOpsAnd
  <2>6. q \in Seq(Op) /\ q = y ** r /\ y \in Op /\ r \in Seq(Op) /\ c \in Cell
    BY <1>1, <1>3, <1>4, <2>4
  <2> HIDE DEF n, T, c, q, y
  <2>7. /\ s \in Seq(Op) /\ (ToLink(s) <=> ToLink(q)) /\ \A U \in Topics : Clearing(U, s) <=> Clearing(U, q)
        /\ ops \in Seq(Op) /\ ops \o r = s
    <3>1. n \in Nodes /\ T \in Mutexes /\ S \in Mutexes
      BY <1>5, <2>2, <2>4
    <3>2. s \in Seq(Op) /\ (ToLink(s) <=> ToLink(q)) /\ \A U \in Topics : Clearing(U, s) <=> Clearing(U, q)
      BY <2>6, <3>1, Relocking
    <3>3. ops \in Seq(Op) /\ ops \o r = RelockThen(S, T, c, n, y ** r)
      BY <2>6, <3>1, RelockingAnd
    <3> QED BY <2>6, <3>2, <3>3
  <2> HIDE DEF ops, s
  <2>11. todo' = [todo EXCEPT ![t] = s]
    BY <1>3, <2>5, <2>7
  <2>8. Erases(t, "unsubscribe_all", T, S, n, s, Depth(t))
    <3>1. todo[t] = Rest("unsubscribe_all", T, S)
      BY <1>3, <1>4 DEF Rest
    <3> QED BY <1>4, <3>1 DEF Erases, Erasing, Own, Other, Times, CellOf, s, c, q, RelockThen
  <2>9. Was(mem, n, T, S)
    BY <2>2, <2>3 DEF Was, T
  <2>10. Place(mem, t, First, s, Depth(t))
    <3> DEFINE f == First
               h == Depth(t)
    <3>1. "unsubscribe_all" \in Jobs /\ ~Clears("unsubscribe_all") /\ Erases(t, "unsubscribe_all", T, S, n, s, h)
      BY <2>8 DEF Jobs, Clears
    <3> HIDE DEF f, h, s
    <3>2. Place(mem, t, f, s, h)
      BY <2>2, <2>3, <2>9, <3>1 DEF Place
    <3> QED BY <3>2 DEF f, h
  <2> QED BY <1>1, <1>2, <1>6, <2>7, <2>10, <2>11, StaysPut DEF q
<1> QED BY <1>9, <1>10


\* The same for the thread that does it.
LEMMA Readies ==
  ASSUME Sound, NEW t \in Threads, NEW name, Does(t, name)
  PROVE  /\ todo[t][1] \in Op /\ Tail(todo[t]) \in Seq(Op) /\ todo[t][1][1] = name
         /\ todo[t] = todo[t][1] ** Tail(todo[t])
         /\ Ready(mem, t, First, todo[t][1], Tail(todo[t]), Depth(t))
         /\ name \notin {"lock", "unlock", "relock", "erase"} =>
              \A n \in Nodes, U \in Topics, V \in Subscribers : ~Erases(t, "unsubscribe", U, V, n, todo[t], Depth(t))
<1> DEFINE x == todo[t][1]
           r == Tail(todo[t])
           f == First
           h == Depth(t)
<1>1. todo \in [Threads -> Seq(Op)] /\ Place(mem, t, f, todo[t], h)
  BY DEF Sound, Types
<1>2. x \in Op /\ r \in Seq(Op) /\ x[1] = name /\ todo[t] = x ** r
  BY <1>1, Doing
<1> HIDE DEF x, r, f, h
<1>3. Ready(mem, t, f, x, r, h)
  BY <1>1, <1>2, PlaceAt
<1>4. name \notin {"lock", "unlock", "relock", "erase"} =>
        \A n \in Nodes, U \in Topics, V \in Subscribers : ~Erases(t, "unsubscribe", U, V, n, x ** r, h)
  BY <1>2, NotErasing
<1> QED BY <1>2, <1>3, <1>4 DEF x, r, f, h

\* The publish thread walks through a list in which all have their subscribers.
LEMMA WalkStep ==
  ASSUME Sound, OnePublisher, NEW t \in Threads, walk(t)
  PROVE  Sound'
<1> DEFINE x == todo[t][1]
           r == Tail(todo[t])
<1>1. /\ todo \in [Threads -> Seq(Op)] /\ calls \in 0..MaxCalls /\ Linked(mem, First) /\ met = {}
  BY DEF Sound, Types
<1>2. Does(t, "walk") /\ UNCHANGED <<addr, owner, mem, calls>> /\ Goes(t, <<>>)
      /\ met' = met \cup {n \in InTopic(mem, Arg(t, 2)) : mem.m_subscriber[n] = Nil}
  BY DEF walk
<1>3. x \in Op /\ r \in Seq(Op) /\ x[1] = "walk" /\ todo[t] = x ** r
      /\ \A n \in Nodes, U \in Topics, V \in Subscribers : ~Erases(t, "unsubscribe", U, V, n, todo[t], Depth(t))
  BY <1>2, Readies
<1>4. Ready(mem, t, First, x, r, Depth(t))
  BY <1>2, Readies
<1>5. todo' = [todo EXCEPT ![t] = r]
  BY <1>1, <1>2, Doing
<1> HIDE DEF r
<1>6. PICK T \in Topics :
        /\ Subscribers # {} /\ Publisher(t) /\ x = <<"walk", T>> /\ Depth(t) = Has(T, 1)
        /\ \/ r = <<"unlock", T>> ** <<>>
           \/ r = <<"lock", T>> ** (<<"clear", T>> ** (<<"unlock", T>> ** (<<"unlock", T>> ** <<>>)))
  BY <1>3, <1>4 DEF Ready
<1>7. T \in Mutexes /\ Arg(t, 2) = T
  BY <1>6 DEF Arg, Mutexes
<1> HIDE DEF x
<1>8. Ends(r, Depth(t)) \/ Publishes(T, r, Depth(t))
  BY <1>6, <1>7 DEF Ends, Publishes
<1>9. \A U \in Topics : ~Clearing(U, r) /\ ~Clearing(U, todo[t])
  <2> DEFINE h == Depth(t)
  <2>1. Ends(r, h) \/ Publishes(T, r, h)
    BY <1>8
  <2> HIDE DEF h
  <2>2. \A U \in Topics : ~Clearing(U, r)
    BY <2>1, EndsClears, PublishesClears
  <2> QED BY <1>3, <2>2, Clearings
<1>10. Place(mem, t, First, r, Depth(t))
  <2> DEFINE h == Depth(t)
             f == First
  <2>1. Ends(r, h) \/ Publishes(T, r, h)
    BY <1>8
  <2> HIDE DEF h, f
  <2>2. Place(mem, t, f, r, h)
    BY <2>1, <1>6 DEF Place
  <2> QED BY <2>2 DEF h, f
<1>11. met' = met
  <2> DEFINE f == First
  <2>1. f[T] = Head_(T) /\ Linked(mem, f)
    BY <1>1, <1>6, <1>9, Unclear
  <2> HIDE DEF f
  <2>2. Chain(mem, f[T], TopicNext) = OfTopic(mem, T)
    BY <2>1, ChainIs
  <2>3. InTopic(mem, T) = OfTopic(mem, T)
    BY <2>1, <2>2 DEF InTopic
  <2>4. \A n \in OfTopic(mem, T) : mem.m_subscriber[n] # Nil
    <3>1. Nil \notin Mutexes
      BY SubscriptionAssumption
    <3> QED BY <2>1, <1>7, <3>1 DEF OfTopic, Linked
  <2> QED BY <1>1, <1>2, <1>7, <2>3, <2>4
<1>12. ToLink(r) => ToLink(todo[t])
  BY <1>3, ToLinks
<1> QED BY <1>1, <1>2, <1>3, <1>5, <1>9, <1>10, <1>11, <1>12, StaysPut


\* Where a topic's list begins that only this thread may clear.
LEMMA FirstMoved ==
  ASSUME todo \in [Threads -> Seq(Op)], NEW t \in Threads, NEW s, todo' = [todo EXCEPT ![t] = s],
         NEW T \in Topics, \A u \in Threads : u # t => ~Clearing(T, todo[u])
  PROVE  FirstOf(T)' = IF Clearing(T, s) THEN Local(t) ELSE Head_(T)
<1> DEFINE D == {u \in Threads : Clearing(T, todo'[u])}
<1>1. FirstOf(T)' = IF D = {} THEN Head_(T) ELSE Local(CHOOSE u \in D : TRUE)
  BY DEF FirstOf, Clearing, Occurs
<1>2. D = IF Clearing(T, s) THEN {t} ELSE {}
  OBVIOUS
<1> HIDE DEF D
<1>3. (CHOOSE u \in {t} : TRUE) = t
  OBVIOUS
<1> QED BY <1>1, <1>2, <1>3

\* Those who are about to erase a node are still known to it.
LEMMA ErasersStay ==
  ASSUME ErasersKnown, todo \in [Threads -> Seq(Op)], NEW t \in Threads, NEW s, todo' = [todo EXCEPT ![t] = s],
         \A u \in Threads : u # t => Depth(u)' = Depth(u),
         \A n \in Nodes, u \in Threads : u # t /\ Live(mem', n) /\ Local(u) \in mem'.m_erasing_nodes[n] =>
           Live(mem, n) /\ Local(u) \in mem.m_erasing_nodes[n] /\ mem'.ptr[Local(u)] = mem.ptr[Local(u)],
         \A n \in Nodes : Live(mem', n) /\ Local(t) \in mem'.m_erasing_nodes[n] =>
           /\ mem'.ptr[Local(t)] = n
           /\ \E T \in Topics, S \in Subscribers : Erases(t, "unsubscribe", T, S, n, s, Depth(t)')
  PROVE  ErasersKnown'
<1> SUFFICES ASSUME NEW n \in Nodes, Live(mem', n), NEW u \in Threads, Local(u) \in mem'.m_erasing_nodes[n]
             PROVE  /\ mem'.ptr[Local(u)] = n
                    /\ \E T \in Topics, S \in Subscribers :
                         Erases(u, "unsubscribe", T, S, n, todo'[u], Depth(u)')
  BY DEF ErasersKnown
<1>1. CASE u = t
  <2>1. todo'[u] = s
    BY <1>1
  <2> QED BY <1>1, <2>1
<1>2. CASE u # t
  <2>1. todo'[u] = todo[u] /\ Depth(u)' = Depth(u)
    BY <1>2
  <2>2. Live(mem, n) /\ Local(u) \in mem.m_erasing_nodes[n] /\ mem'.ptr[Local(u)] = mem.ptr[Local(u)]
    BY <1>2
  <2>3. /\ mem.ptr[Local(u)] = n
        /\ \E T \in Topics, S \in Subscribers : Erases(u, "unsubscribe", T, S, n, todo[u], Depth(u))
    BY <2>2 DEF ErasersKnown
  <2> QED BY <2>1, <2>2, <2>3
<1> QED BY <1>1, <1>2


\* The thread clears the topic, with what it has left after that.
AfterClear(T, r, h) ==
  \/ r = <<"unlock", T>> ** <<>> /\ h = Has(T, 1)
  \/ r = <<"unlock", T>> ** (<<"unlock", T>> ** <<>>) /\ h = Has(T, 2)
\* Such a thread is at a place of clear() or of erase_topic().
LEMMA PlaceClearing ==
  ASSUME NEW m, NEW t \in Threads, NEW first, NEW T \in Topics, NEW r, NEW h,
         Subscribers # {}, Publisher(t), first[T] = Local(t), AfterClear(T, r, h)
  PROVE  /\ Place(m, t, first, <<"clear_next", T>> ** r, h)
         /\ \E job \in Jobs : /\ Clears(job) /\ h = Has(T, Times(job))
                              /\ \A S \in Subscribers : Rest(job, T, S) = <<"clear_next", T>> ** r
<1>1. PICK S \in Subscribers : TRUE
  OBVIOUS
<1>2. PICK job \in {"clear", "erase_topic"} :
        h = Has(T, Times(job)) /\ \A V \in Subscribers : Rest(job, T, V) = <<"clear_next", T>> ** r
  BY DEF AfterClear, Times, Rest
<1>3. job \in Jobs /\ Clears(job) /\ Own(job, T, S) = T
  BY <1>2 DEF Jobs, Clears, Own
<1>4. GoesOn(job, T, S, <<"clear_next", T>> ** r, h)
  BY <1>1, <1>2, <1>3 DEF GoesOn
<1>5. Place(m, t, first, <<"clear_next", T>> ** r, h)
  BY <1>1, <1>3, <1>4 DEF Place
<1> QED BY <1>2, <1>3, <1>5

\* clear() begins.
LEMMA ClearStep ==
  ASSUME Sound, OnePublisher, NEW t \in Threads, clear(t)
  PROVE  Sound'
<1> DEFINE x == todo[t][1]
           r == Tail(todo[t])
<1>1. /\ todo \in [Threads -> Seq(Op)] /\ calls \in 0..MaxCalls /\ Linked(mem, First) /\ Room /\ ErasersKnown
      /\ owner \in [Mutexes -> [by : Threads \cup {Nil}, depth : Nat]]
      /\ \A m \in Mutexes : owner[m].by = Nil <=> owner[m].depth = 0
  BY DEF Sound, Types
<1>2. Does(t, "clear") /\ UNCHANGED <<addr, owner, calls, met>>
  BY DEF clear
<1>3. x \in Op /\ r \in Seq(Op) /\ x[1] = "clear" /\ todo[t] = x ** r
      /\ \A n \in Nodes, U \in Topics, V \in Subscribers : ~Erases(t, "unsubscribe", U, V, n, todo[t], Depth(t))
  BY <1>2, Readies
<1>4. Ready(mem, t, First, x, r, Depth(t))
  BY <1>2, Readies
<1>5. \A ops \in Seq(Op) : Goes(t, ops) => todo' = [todo EXCEPT ![t] = ops \o r]
  BY <1>1, <1>2, Doing
<1>6. Goes(t, <<>>) => todo' = [todo EXCEPT ![t] = r]
  BY <1>1, <1>2, Doing
<1> HIDE DEF r
<1>7. PICK T \in Topics :
        /\ Subscribers # {} /\ Publisher(t) /\ x = <<"clear", T>>
        /\ \/ r = <<"unlock", T>> ** <<>> /\ Depth(t) = Has(T, 1)
           \/ r = <<"unlock", T>> ** (<<"unlock", T>> ** <<>>) /\ Depth(t) = Has(T, 2)
  BY <1>3, <1>4 DEF Ready
<1>8. T \in Mutexes /\ Arg(t, 2) = T
  BY <1>7 DEF Arg, Mutexes
<1> HIDE DEF x
<1>9. Ends(r, Depth(t)) \/ Publishes(T, r, Depth(t))
  BY <1>7, <1>8 DEF Ends, Publishes
<1>10. \A U \in Topics : ~Clearing(U, r) /\ ~Clearing(U, todo[t])
  <2> DEFINE h == Depth(t)
  <2>1. Ends(r, h) \/ Publishes(T, r, h)
    BY <1>9
  <2> HIDE DEF h
  <2>2. \A U \in Topics : ~Clearing(U, r)
    BY <2>1, EndsClears, PublishesClears
  <2> QED BY <1>3, <2>2, Clearings
<1>11. ToLink(r) => ToLink(todo[t])
  BY <1>3, ToLinks
<1>12. \A u \in Threads : Depth(u)' = Depth(u)
  BY <1>2 DEF Depth
<1> DEFINE n == mem.ptr[Head_(T)]
<1>13. CASE n = Nil
  <2>1. Goes(t, <<>>) /\ mem' = mem
    BY <1>8, <1>13 DEF clear
  <2>2. todo' = [todo EXCEPT ![t] = r]
    BY <1>6, <2>1
  <2>3. Place(mem, t, First, r, Depth(t))
    <3> DEFINE h == Depth(t)
               f == First
    <3>1. Ends(r, h) \/ Publishes(T, r, h)
      BY <1>9
    <3> HIDE DEF h, f
    <3>2. Place(mem, t, f, r, h)
      BY <3>1, <1>7 DEF Place
    <3> QED BY <3>2 DEF h, f
  <2> QED BY <1>1, <1>2, <1>3, <1>10, <1>11, <2>1, <2>2, <2>3, StaysPut
<1>14. CASE n # Nil
  <2> DEFINE s == <<"clear_next", T>> ** r
  <2>1. Goes(t, <<<<"clear_next", T>> >>) /\ mem' = [mem EXCEPT !.ptr[Local(t)] = n, !.topic_prev[n] = Local(t)]
    BY <1>8, <1>14 DEF clear
  <2>2. s \in Seq(Op) /\ todo' = [todo EXCEPT ![t] = s]
    <3>1. <<"clear_next", T>> \in Op
      BY <1>8, Operations
    <3> DEFINE o == <<"clear_next", T>>
               ops == <<o>>
    <3>2. o \in Op /\ Goes(t, ops)
      BY <2>1, <3>1
    <3> HIDE DEF o
    <3>3. ops \in Seq(Op) /\ ops \o r = o ** r /\ o ** r \in Seq(Op)
      BY <1>3, <3>2 DEF **
    <3> HIDE DEF ops
    <3>4. todo' = [todo EXCEPT ![t] = o ** r]
      BY <1>5, <3>2, <3>3
    <3> QED BY <3>3, <3>4 DEF o
  <2>3. \A U \in Topics : Clearing(U, s) <=> U = T
    BY <1>3, <1>10, Clearings
  <2>4. ToLink(s) => ToLink(todo[t])
    <3>1. <<"clear_next", T>> \in Op /\ <<"clear_next", T>>[1] = "clear_next"
      BY <1>8, Operations
    <3> QED BY <1>3, <1>11, <3>1, ToLinks
  <2> HIDE DEF s
  <2>5. \A u \in Threads : u # t => ~Clearing(T, todo[u])
    BY <1>7, FirstClears DEF OnePublisher, Publisher
  <2>6. First' = [First EXCEPT ![T] = Local(t)]
    <3>1. FirstOf(T)' = Local(t)
      BY <1>1, <2>2, <2>3, <2>5, FirstMoved
    <3>2. ASSUME NEW U \in Topics, U # T PROVE FirstOf(U)' = FirstOf(U)
      BY <1>1, <1>10, <2>2, <2>3, <3>2, FirstKept
    <3>3. \A U \in Topics : FirstOf(U)' = IF U = T THEN Local(t) ELSE FirstOf(U)
      BY <3>1, <3>2
    <3> QED BY <3>3 DEF First
  <2>7. First[T] = Head_(T) /\ \A U \in Topics : First[U] # Local(t)
    BY <1>7, <1>10, Unclear, FirstClears
  <2>8. Linked(mem', First') /\ Fresh(mem') = Fresh(mem)
    <3> DEFINE f == First
               f2 == First'
               m2 == mem'
    <3>1. /\ Linked(mem, f) /\ f[T] = Head_(T) /\ \A U \in Topics : f[U] # Local(t)
          /\ mem.ptr[Head_(T)] # Nil
      BY <1>1, <1>14, <2>7
    <3>2. BeginsIn(mem, m2, f, f2, T, t)
      BY <2>1, <2>6 DEF BeginsIn
    <3> HIDE DEF f, f2, m2, n
    <3>3. Linked(m2, f2) /\ Fresh(m2) = Fresh(mem)
      BY <3>1, <3>2, Cleared
    <3> QED BY <3>3 DEF f2, m2
  <2>9. /\ mem'.m_topic = mem.m_topic /\ mem'.m_subscriber = mem.m_subscriber
        /\ mem'.m_erasing_nodes = mem.m_erasing_nodes
        /\ \A u \in Threads : u # t => mem'.ptr[Local(u)] = mem.ptr[Local(u)]
    <3>1. mem \in Mem /\ \A u \in Threads : Local(u) \in Cell /\ (u # t => Local(u) # Local(t))
      BY <1>1, CellKinds DEF Linked
    <3> HIDE DEF n
    <3> QED BY <2>1, <3>1 DEF Mem
  <2>10. Keeps(mem, mem')
    BY <2>8, <2>9 DEF Keeps
  <2>11. \A u \in Threads : u # t => \A U \in Topics : First[U] = Local(u) => First'[U] = Local(u)
    <3>1. \A u \in Threads : Local(u) # Head_(T)
      BY CellKinds
    <3> QED BY <2>6, <2>7, <3>1 DEF First
  <2>12. \A u \in Threads : u # t => \A k \in Nodes : Told(mem, u, k) => Told(mem', u, k)
    BY <2>9 DEF Told, Live
  <2>13. Place(mem', t, First', s, Depth(t)')
    <3> DEFINE h == Depth(t)
               f2 == First'
               m2 == mem'
    <3>1. f2[T] = Local(t)
      BY <2>6 DEF First
    <3>2. AfterClear(T, r, h)
      BY <1>7 DEF AfterClear
    <3> HIDE DEF h, f2, m2
    <3>3. Place(m2, t, f2, s, h)
      BY <1>7, <3>1, <3>2, PlaceClearing DEF s
    <3> QED BY <3>3, <1>12 DEF h, f2, m2
  <2>14. ErasersKnown'
    <3>1. \A k \in Nodes, u \in Threads : u # t /\ Live(mem', k) /\ Local(u) \in mem'.m_erasing_nodes[k] =>
            Live(mem, k) /\ Local(u) \in mem.m_erasing_nodes[k] /\ mem'.ptr[Local(u)] = mem.ptr[Local(u)]
      BY <2>9 DEF Live
    <3>2. \A k \in Nodes : Live(mem', k) => ~(Local(t) \in mem'.m_erasing_nodes[k])
      BY <1>1, <1>3, <2>9 DEF ErasersKnown, Live
    <3> QED BY <1>1, <1>12, <2>2, <3>1, <3>2, ErasersStay
  <2>15. Room'
    BY <1>1, <2>2, <2>4, <2>8, RoomKept
  <2> QED BY <1>1, <1>2, <1>12, <2>2, <2>8, <2>10, <2>11, <2>12, <2>13, <2>14, <2>15, Moves
<1> QED BY <1>13, <1>14


\* clear() goes on, or ends.
LEMMA ClearNextStep ==
  ASSUME Sound, OnePublisher, NEW t \in Threads, clear_next(t)
  PROVE  Sound'
<1> DEFINE x == todo[t][1]
           r == Tail(todo[t])
<1>1. /\ todo \in [Threads -> Seq(Op)] /\ calls \in 0..MaxCalls /\ Linked(mem, First) /\ Room /\ ErasersKnown
      /\ owner \in [Mutexes -> [by : Threads \cup {Nil}, depth : Nat]]
      /\ \A m \in Mutexes : owner[m].by = Nil <=> owner[m].depth = 0
  BY DEF Sound, Types
<1>2. Does(t, "clear_next") /\ UNCHANGED <<addr, owner, calls, met>>
  BY DEF clear_next
<1>3. x \in Op /\ r \in Seq(Op) /\ x[1] = "clear_next" /\ todo[t] = x ** r
      /\ \A n \in Nodes, U \in Topics, V \in Subscribers : ~Erases(t, "unsubscribe", U, V, n, todo[t], Depth(t))
  BY <1>2, Readies
<1>4. Ready(mem, t, First, x, r, Depth(t))
  BY <1>2, Readies
<1>5. \A ops \in Seq(Op) : Goes(t, ops) => todo' = [todo EXCEPT ![t] = ops \o r]
  BY <1>1, <1>2, Doing
<1>6. Goes(t, <<>>) => todo' = [todo EXCEPT ![t] = r]
  BY <1>1, <1>2, Doing
<1> HIDE DEF r
<1>7. PICK T \in Topics :
        /\ Subscribers # {} /\ Publisher(t) /\ First[T] = Local(t) /\ x = <<"clear_next", T>>
        /\ \/ r = <<"unlock", T>> ** <<>> /\ Depth(t) = Has(T, 1)
           \/ r = <<"unlock", T>> ** (<<"unlock", T>> ** <<>>) /\ Depth(t) = Has(T, 2)
  BY <1>3, <1>4 DEF Ready
<1>8. T \in Mutexes /\ Arg(t, 2) = T
  BY <1>7 DEF Arg, Mutexes
<1> HIDE DEF x
<1>9. Ends(r, Depth(t)) \/ Publishes(T, r, Depth(t))
  BY <1>7, <1>8 DEF Ends, Publishes
<1>10. \A U \in Topics : ~Clearing(U, r) /\ (Clearing(U, todo[t]) <=> U = T)
  <2> DEFINE h == Depth(t)
  <2>1. Ends(r, h) \/ Publishes(T, r, h)
    BY <1>9
  <2> HIDE DEF h
  <2>2. \A U \in Topics : ~Clearing(U, r)
    BY <2>1, EndsClears, PublishesClears
  <2> QED BY <1>3, <1>7, <2>2, Clearings
<1>11. ToLink(r) => ToLink(todo[t])
  BY <1>3, ToLinks
<1>12. \A u \in Threads : Depth(u)' = Depth(u)
  BY <1>2 DEF Depth
<1> DEFINE n == mem.ptr[Local(t)]
<1>13. CASE n = Nil
  <2>1. Goes(t, <<>>) /\ mem' = [mem EXCEPT !.ptr[Head_(T)] = Nil, !.m_tail[T] = Nil]
    BY <1>8, <1>13 DEF clear_next
  <2>2. todo' = [todo EXCEPT ![t] = r]
    BY <1>6, <2>1
  <2>3. \A u \in Threads : u # t => ~Clearing(T, todo[u])
    BY <1>7, FirstClears DEF OnePublisher, Publisher
  <2>4. First' = [First EXCEPT ![T] = Head_(T)]
    <3>1. FirstOf(T)' = Head_(T)
      BY <1>1, <1>10, <2>2, <2>3, FirstMoved
    <3>2. ASSUME NEW U \in Topics, U # T PROVE FirstOf(U)' = FirstOf(U)
      BY <1>1, <1>10, <2>2, <3>2, FirstKept
    <3>3. \A U \in Topics : FirstOf(U)' = IF U = T THEN Head_(T) ELSE FirstOf(U)
      BY <3>1, <3>2
    <3> QED BY <3>3 DEF First
  <2>5. Linked(mem', First') /\ Fresh(mem') = Fresh(mem)
    <3> DEFINE f == First
               f2 == First'
               m2 == mem'
    <3>1. Linked(mem, f) /\ mem.ptr[f[T]] = Nil
      BY <1>1, <1>7, <1>13
    <3>2. BeginsAgain(mem, m2, f, f2, T)
      BY <2>1, <2>4 DEF BeginsAgain
    <3> HIDE DEF f, f2, m2, n
    <3>3. Linked(m2, f2) /\ Fresh(m2) = Fresh(mem)
      BY <3>1, <3>2, ClearEnded
    <3> QED BY <3>3 DEF f2, m2
  <2>6. /\ mem'.m_topic = mem.m_topic /\ mem'.m_subscriber = mem.m_subscriber
        /\ mem'.m_erasing_nodes = mem.m_erasing_nodes
        /\ \A u \in Threads : mem'.ptr[Local(u)] = mem.ptr[Local(u)]
    <3>1. mem \in Mem /\ \A u \in Threads : Local(u) \in Cell /\ Local(u) # Head_(T)
      BY <1>1, CellKinds DEF Linked
    <3> QED BY <2>1, <3>1 DEF Mem
  <2>7. Keeps(mem, mem')
    BY <2>5, <2>6 DEF Keeps
  <2>8. \A u \in Threads : u # t => \A U \in Topics : First[U] = Local(u) => First'[U] = Local(u)
    <3>1. \A u \in Threads : u # t => Local(u) # Local(t)
      BY CellKinds
    <3> QED BY <1>7, <2>4, <3>1 DEF First
  <2>9. \A u \in Threads : \A k \in Nodes : Told(mem, u, k) => Told(mem', u, k)
    BY <2>6 DEF Told, Live
  <2>10. Place(mem', t, First', r, Depth(t)')
    <3> DEFINE h == Depth(t)
               f2 == First'
               m2 == mem'
    <3>1. Ends(r, h) \/ Publishes(T, r, h)
      BY <1>9
    <3> HIDE DEF h, f2, m2
    <3>2. Place(m2, t, f2, r, h)
      BY <1>7, <3>1 DEF Place
    <3> QED BY <3>2, <1>12 DEF h, f2, m2
  <2>11. ErasersKnown'
    <3>1. \A k \in Nodes, u \in Threads : u # t /\ Live(mem', k) /\ Local(u) \in mem'.m_erasing_nodes[k] =>
            Live(mem, k) /\ Local(u) \in mem.m_erasing_nodes[k] /\ mem'.ptr[Local(u)] = mem.ptr[Local(u)]
      BY <2>6 DEF Live
    <3>2. \A k \in Nodes : Live(mem', k) => ~(Local(t) \in mem'.m_erasing_nodes[k])
      BY <1>1, <1>3, <2>6 DEF ErasersKnown, Live
    <3> QED BY <1>1, <1>12, <2>2, <3>1, <3>2, ErasersStay
  <2>12. Room'
    BY <1>1, <1>11, <2>2, <2>5, RoomKept
  <2> QED BY <1>1, <1>2, <1>3, <1>12, <2>2, <2>5, <2>7, <2>8, <2>9, <2>10, <2>11, <2>12, Moves
<1>14. CASE n # Nil
  <2>1. n \in OfTopic(mem, T)
    BY <1>1, <1>7, <1>14 DEF Linked, List, Cells
  <2>2. n \in Nodes /\ mem.m_topic[n] = T /\ Live(mem, n)
    <3>1. Nil \notin Mutexes
      BY SubscriptionAssumption
    <3> QED BY <1>8, <2>1, <3>1 DEF OfTopic, Live
  <2> DEFINE S == mem.m_subscriber[n]
  <2>3. S \in Subscribers /\ n \notin Fresh(mem)
    <3> DEFINE f == First
    <3> HIDE DEF f, n
    <3>1. Linked(mem, f)
      BY <1>1 DEF f
    <3> QED BY <2>2, <3>1, LiveNode
  <2>4. S \in Mutexes /\ Local(t) \in Cell
    BY <2>3, CellKinds DEF Mutexes
  <2> DEFINE c == Local(t)
             q == todo[t]
             y == <<"clear_next", T>>
             ops == RelockOpsAnd(T, S, c, n, y)
             s == RelockThen(T, S, c, n, q)
  <2>5. Goes(t, ops) /\ mem' = mem
    BY <1>8, <1>14 DEF clear_next, RelockOpsAnd
  <2>6. q \in Seq(Op) /\ q = y ** r /\ y \in Op /\ r \in Seq(Op) /\ c \in Cell
    BY <1>1, <1>3, <1>7, <2>4
  <2>7. \E job \in Jobs : /\ Clears(job) /\ Depth(t) = Has(T, Times(job))
                          /\ \A V \in Subscribers : Rest(job, T, V) = <<"clear_next", T>> ** r
    <3> DEFINE h == Depth(t)
               f == First
    <3>1. Subscribers # {} /\ Publisher(t) /\ f[T] = Local(t) /\ AfterClear(T, r, h)
      BY <1>7 DEF AfterClear
    <3> HIDE DEF h, f
    <3>2. \E job \in Jobs : /\ Clears(job) /\ h = Has(T, Times(job))
                            /\ \A V \in Subscribers : Rest(job, T, V) = <<"clear_next", T>> ** r
      BY <3>1, PlaceClearing
    <3> QED BY <3>2 DEF h
  <2> HIDE DEF n, S, c, q, y
  <2>8. /\ s \in Seq(Op) /\ (ToLink(s) <=> ToLink(q)) /\ \A U \in Topics : Clearing(U, s) <=> Clearing(U, q)
        /\ ops \in Seq(Op) /\ ops \o r = s
    <3>1. n \in Nodes /\ T \in Mutexes /\ S \in Mutexes
      BY <1>8, <2>2, <2>4
    <3>2. s \in Seq(Op) /\ (ToLink(s) <=> ToLink(q)) /\ \A U \in Topics : Clearing(U, s) <=> Clearing(U, q)
      BY <2>6, <3>1, Relocking
    <3>3. c \in Cell /\ y \in Op /\ r \in Seq(Op)
      BY <2>6
    <3>4. ops \in Seq(Op) /\ ops \o r = RelockThen(T, S, c, n, y ** r)
      BY <3>1, <3>3, RelockingAnd
    <3> QED BY <2>6, <3>2, <3>4
  <2> HIDE DEF ops, s
  <2>9. todo' = [todo EXCEPT ![t] = s]
    BY <1>5, <2>5, <2>8
  <2>10. PICK job \in Jobs : Clears(job) /\ Depth(t) = Has(T, Times(job)) /\ Rest(job, T, S) = q
    BY <2>3, <2>6, <2>7 DEF y
  <2>11. Erases(t, job, T, S, n, s, Depth(t))
    <3>1. Own(job, T, S) = T /\ Other(job, T, S) = S /\ CellOf(job, t, S) = c
      BY <2>10 DEF Clears, Own, Other, CellOf, c
    <3> QED BY <2>10, <3>1 DEF Erases, Erasing, s, RelockThen
  <2>12. Was(mem, n, T, S)
    BY <2>2, <2>3 DEF Was, S
  <2>13. Place(mem, t, First, s, Depth(t))
    <3> DEFINE f == First
               h == Depth(t)
    <3>1. Publisher(t) /\ f[T] = Local(t) /\ Erases(t, job, T, S, n, s, h) /\ job # "unsubscribe"
      BY <1>7, <2>10, <2>11 DEF Clears
    <3> HIDE DEF f, h
    <3>2. Place(mem, t, f, s, h)
      BY <2>2, <2>3, <2>10, <2>12, <3>1 DEF Place
    <3> QED BY <3>2 DEF f, h
  <2> QED BY <1>1, <1>2, <1>3, <2>5, <2>8, <2>9, <2>13, StaysPut DEF q
<1> QED BY <1>13, <1>14


\* unsubscribe() looks for the subscription.
LEMMA FindStep ==
  ASSUME Sound, NEW t \in Threads, find(t)
  PROVE  Sound'
<1> DEFINE x == todo[t][1]
           r == Tail(todo[t])
<1>1. /\ todo \in [Threads -> Seq(Op)] /\ calls \in 0..MaxCalls /\ Linked(mem, First) /\ Room /\ ErasersKnown
      /\ owner \in [Mutexes -> [by : Threads \cup {Nil}, depth : Nat]]
      /\ \A m \in Mutexes : owner[m].by = Nil <=> owner[m].depth = 0
  BY DEF Sound, Types
<1>2. Does(t, "find") /\ UNCHANGED <<addr, owner, calls, met>>
  BY DEF find
<1>3. x \in Op /\ r \in Seq(Op) /\ x[1] = "find" /\ todo[t] = x ** r
      /\ \A n \in Nodes, U \in Topics, V \in Subscribers : ~Erases(t, "unsubscribe", U, V, n, todo[t], Depth(t))
  BY <1>2, Readies
<1>4. Ready(mem, t, First, x, r, Depth(t))
  BY <1>2, Readies
<1>5. \A ops \in Seq(Op) : Goes(t, ops) => todo' = [todo EXCEPT ![t] = ops \o r]
  BY <1>1, <1>2, Doing
<1>6. Goes(t, <<>>) => todo' = [todo EXCEPT ![t] = r]
  BY <1>1, <1>2, Doing
<1> HIDE DEF r
<1>7. PICK T \in Topics, S \in Subscribers :
        x = <<"find", T, S>> /\ r = <<"unlock", S>> ** <<>> /\ Depth(t) = Has(S, 1)
  BY <1>3, <1>4 DEF Ready
<1>8. T \in Mutexes /\ S \in Mutexes /\ Arg(t, 2) = T /\ Arg(t, 3) = S
  BY <1>7 DEF Arg, Mutexes
<1> HIDE DEF x
<1>9. Ends(r, Depth(t))
  BY <1>7, <1>8 DEF Ends
<1>10. \A U \in Topics : ~Clearing(U, r) /\ ~Clearing(U, todo[t])
  <2> DEFINE h == Depth(t)
  <2>1. Ends(r, h)
    BY <1>9
  <2> HIDE DEF h
  <2>2. \A U \in Topics : ~Clearing(U, r)
    BY <2>1, EndsClears
  <2> QED BY <1>3, <2>2, Clearings
<1>11. ToLink(r) => ToLink(todo[t])
  BY <1>3, ToLinks
<1>12. \A u \in Threads : Depth(u)' = Depth(u)
  BY <1>2 DEF Depth
<1> DEFINE found == {n \in InSubscriber(mem, S) : mem.m_topic[n] = T}
<1>13. CASE found = {}
  <2>1. Goes(t, <<>>) /\ mem' = mem
    BY <1>8, <1>13 DEF find
  <2>2. todo' = [todo EXCEPT ![t] = r]
    BY <1>6, <2>1
  <2>3. Place(mem, t, First, r, Depth(t))
    BY <1>9 DEF Place
  <2> QED BY <1>1, <1>2, <1>3, <1>10, <1>11, <2>1, <2>2, <2>3, StaysPut
<1>14. CASE found # {}
  <2>1. PICK n \in found :
          /\ mem' = [mem EXCEPT !.ptr[Local(t)] = n, !.m_erasing_nodes[n] = @ \cup {Local(t)}]
          /\ Goes(t, RelockOps(S, T, Local(t), n))
    BY <1>8, <1>14 DEF find, RelockOps
  <2>2. n \in Nodes /\ mem.m_topic[n] = T /\ mem.m_subscriber[n] = S /\ Live(mem, n) /\ n \notin Fresh(mem)
    <3> DEFINE f == First
    <3>1. Linked(mem, f) /\ Nil \notin Mutexes
      BY <1>1, SubscriptionAssumption
    <3> HIDE DEF f
    <3>2. InSubscriber(mem, S) = OfSub(mem, S)
      BY <3>1, ChainIs
    <3>3. n \in Nodes /\ mem.m_topic[n] = T /\ mem.m_subscriber[n] = S
      BY <3>2 DEF OfSub
    <3>4. Live(mem, n)
      BY <1>8, <3>1, <3>3 DEF Live
    <3> QED BY <3>1, <3>3, <3>4, LiveNode
  <2> DEFINE c == Local(t)
             ops == RelockOps(S, T, c, n)
             s == RelockThen(S, T, c, n, r)
  <2>3. c \in Cell /\ c \in Locals /\ n \in Nodes
    BY <2>2, CellKinds DEF Locals
  <2>4. Goes(t, ops)
    BY <2>1
  <2> HIDE DEF c
  <2>5. /\ s \in Seq(Op) /\ (ToLink(s) <=> ToLink(r)) /\ \A U \in Topics : Clearing(U, s) <=> Clearing(U, r)
        /\ ops \in Seq(Op) /\ ops \o r = s
    <3>1. S \in Mutexes /\ T \in Mutexes /\ n \in Nodes /\ r \in Seq(Op)
      BY <1>3, <1>8, <2>3
    <3>2. s \in Seq(Op) /\ (ToLink(s) <=> ToLink(r)) /\ \A U \in Topics : Clearing(U, s) <=> Clearing(U, r)
      BY <2>3, <3>1, Relocking
    <3>3. ops \in Seq(Op) /\ ops \o r = s
      BY <2>3, <3>1, Relocking
    <3> QED BY <3>2, <3>3
  <2> HIDE DEF ops
  <2>6. todo' = [todo EXCEPT ![t] = s]
    BY <1>5, <2>4, <2>5
  <2> HIDE DEF s
  <2>7. First' = First
    <3>1. \A U \in Topics : FirstOf(U)' = FirstOf(U)
      BY <1>1, <1>10, <2>5, <2>6, FirstKept
    <3> QED BY <3>1 DEF First
  <2>8. /\ mem' \in Mem
        /\ mem'.topic_prev = mem.topic_prev /\ mem'.subscriber_prev = mem.subscriber_prev
        /\ mem'.m_tail = mem.m_tail /\ mem'.m_topic = mem.m_topic /\ mem'.m_subscriber = mem.m_subscriber
        /\ \A d \in Cell : mem'.ptr[d] = IF d = c THEN n ELSE mem.ptr[d]
        /\ \A k \in Nodes : mem'.m_erasing_nodes[k] =
                              IF k = n THEN mem.m_erasing_nodes[k] \cup {c} ELSE mem.m_erasing_nodes[k]
    <3>1. mem \in Mem
      BY <1>1 DEF Linked
    <3>2. mem' = [mem EXCEPT !.ptr[c] = n, !.m_erasing_nodes[n] = @ \cup {c}]
      BY <2>1 DEF c
    <3> QED BY <2>3, <3>1, <3>2 DEF Mem
  <2>9. Linked(mem', First') /\ Fresh(mem') = Fresh(mem)
    <3> DEFINE f == First
               m2 == mem'
    <3>1. \A U \in Topics : f[U] # c
      BY <1>10, FirstClears DEF c
    <3>2. Linked(mem, f) /\ m2 \in Mem
      BY <1>1, <2>8
    <3>3. /\ m2.topic_prev = mem.topic_prev /\ m2.subscriber_prev = mem.subscriber_prev
          /\ m2.m_tail = mem.m_tail /\ m2.m_topic = mem.m_topic /\ m2.m_subscriber = mem.m_subscriber
          /\ \A d \in Cell : m2.ptr[d] # mem.ptr[d] => d \in Locals /\ \A U \in Topics : f[U] # d
      BY <2>3, <2>8, <3>1
    <3>4. \A k \in Fresh(mem) : m2.m_erasing_nodes[k] = {}
      BY <1>1, <2>2, <2>8 DEF Linked, Fresh
    <3> HIDE DEF f, m2
    <3>5. Linked(m2, f) /\ Fresh(m2) = Fresh(mem)
      BY <3>1, <3>2, <3>3, <3>4, LinkedElse
    <3> QED BY <2>7, <3>5 DEF f, m2
  <2>10. Keeps(mem, mem')
    BY <2>8, <2>9 DEF Keeps
  <2>11. \A u \in Threads : u # t => /\ mem'.ptr[Local(u)] = mem.ptr[Local(u)]
                                     /\ Local(u) # c
    BY <2>8, CellKinds DEF c
  <2>12. \A u \in Threads : u # t => \A k \in Nodes : Told(mem, u, k) => Told(mem', u, k)
    BY <2>8, <2>11 DEF Told, Live
  <2>13. Erases(t, "unsubscribe", T, S, n, s, Depth(t))
    <3>1. r = Rest("unsubscribe", T, S)
      BY <1>7 DEF Rest
    <3> QED BY <1>7, <3>1 DEF Erases, Erasing, Own, Other, Times, CellOf, s, c, RelockThen
  <2>14. Place(mem', t, First', s, Depth(t)')
    <3> DEFINE f == First'
               h == Depth(t)
               m2 == mem'
    <3>1. Was(m2, n, T, S)
      BY <2>2, <2>8, <2>9 DEF Was
    <3>2. Told(m2, t, n)
      BY <2>2, <2>3, <2>8 DEF Told, Live, c
    <3>3. "unsubscribe" \in Jobs /\ ~Clears("unsubscribe") /\ Erases(t, "unsubscribe", T, S, n, s, h)
      BY <2>13 DEF Jobs, Clears
    <3> HIDE DEF f, h, m2
    <3>4. Place(m2, t, f, s, h)
      BY <2>3, <3>1, <3>2, <3>3 DEF Place
    <3> QED BY <1>12, <3>4 DEF f, h, m2
  <2>15. ErasersKnown'
    <3>1. \A k \in Nodes : Live(mem', k) => Live(mem, k)
      BY <2>8 DEF Live
    <3>2. \A k \in Nodes, u \in Threads : u # t /\ Live(mem', k) /\ Local(u) \in mem'.m_erasing_nodes[k] =>
            Live(mem, k) /\ Local(u) \in mem.m_erasing_nodes[k] /\ mem'.ptr[Local(u)] = mem.ptr[Local(u)]
      BY <2>8, <2>11, <3>1
    <3>3. \A k \in Nodes : ~(Live(mem, k) /\ c \in mem.m_erasing_nodes[k])
      BY <1>1, <1>3 DEF ErasersKnown, c
    <3>4. ASSUME NEW k \in Nodes, Live(mem', k), Local(t) \in mem'.m_erasing_nodes[k]
          PROVE  /\ mem'.ptr[Local(t)] = k
                 /\ \E U \in Topics, V \in Subscribers : Erases(t, "unsubscribe", U, V, k, s, Depth(t)')
      <4>1. k = n
        BY <2>8, <3>1, <3>3, <3>4 DEF c
      <4>2. mem'.ptr[Local(t)] = n
        BY <2>3, <2>8 DEF c
      <4>3. Erases(t, "unsubscribe", T, S, n, s, Depth(t)')
        BY <1>12, <2>13
      <4> QED BY <4>1, <4>2, <4>3
    <3> QED BY <1>1, <1>12, <2>6, <3>2, <3>4, ErasersStay
  <2>16. Room'
    BY <1>1, <1>11, <2>5, <2>6, <2>9, RoomKept
  <2>17. \A u \in Threads : u # t => \A U \in Topics : First[U] = Local(u) => First'[U] = Local(u)
    BY <2>7
  <2> QED BY <1>1, <1>2, <1>12, <2>5, <2>6, <2>9, <2>10, <2>12, <2>14, <2>15, <2>16, <2>17, Moves
<1> QED BY <1>13, <1>14


\* A node is put in, while nobody else has the topic or the subscriber.
LEMMA LinkStep ==
  ASSUME Sound, NEW t \in Threads, link(t), known' = {}
  PROVE  Sound'
<1> DEFINE x == todo[t][1]
           r == Tail(todo[t])
<1>1. /\ todo \in [Threads -> Seq(Op)] /\ calls \in 0..MaxCalls /\ Linked(mem, First) /\ Room /\ ErasersKnown
      /\ owner \in [Mutexes -> [by : Threads \cup {Nil}, depth : Nat]]
      /\ \A m \in Mutexes : owner[m].by = Nil <=> owner[m].depth = 0
  BY DEF Sound, Types
<1>2. Does(t, "link") /\ Goes(t, <<>>) /\ UNCHANGED <<addr, owner, calls, met>>
  BY DEF link
<1>3. x \in Op /\ r \in Seq(Op) /\ x[1] = "link" /\ todo[t] = x ** r
      /\ \A n \in Nodes, U \in Topics, V \in Subscribers : ~Erases(t, "unsubscribe", U, V, n, todo[t], Depth(t))
  BY <1>2, Readies
<1>4. Ready(mem, t, First, x, r, Depth(t))
  BY <1>2, Readies
<1>5. todo' = [todo EXCEPT ![t] = r]
  BY <1>1, <1>2, Doing
<1> HIDE DEF r
<1>6. PICK T \in Topics, S \in Subscribers :
        /\ x = <<"link", T, S>> /\ r = <<"unlock", T>> ** (<<"unlock", S>> ** <<>>)
        /\ Depth(t) = Both(T, 1, S)
  BY <1>3, <1>4 DEF Ready
<1>7. T \in Mutexes /\ S \in Mutexes /\ T # S /\ Arg(t, 2) = T /\ Arg(t, 3) = S
  BY <1>6, SubscriptionAssumption DEF Arg, Mutexes
<1> HIDE DEF x
<1>8. GoesOn("unsubscribe", T, S, r, Depth(t)) /\ "unsubscribe" \in Jobs /\ ~Clears("unsubscribe")
  <2>1. Both(T, 1, S) = Both(S, 1, T)
    <3>1. \A m \in Mutexes : Both(T, 1, S)[m] = Both(S, 1, T)[m]
      BY <1>7 DEF Both
    <3> QED BY <3>1 DEF Both
  <2> QED BY <1>6, <2>1 DEF GoesOn, Rest, Own, Other, Times, Jobs, Clears
<1>9. \A U \in Topics : ~Clearing(U, r) /\ ~Clearing(U, todo[t])
  <2>1. <<"unlock", T>> \in Op /\ <<"unlock", S>> \in Op /\ <<"unlock", T>>[1] = "unlock" /\ <<"unlock", S>>[1] = "unlock"
    BY <1>7, Operations
  <2> DEFINE q == <<"unlock", S>> ** <<>>
  <2>2. <<>> \in Seq(Op)
    OBVIOUS
  <2>3. \A U \in Topics : ~Clearing(U, q) /\ q \in Seq(Op)
    BY <2>1, <2>2, Clearings, ThenIs
  <2> HIDE DEF q
  <2>4. \A U \in Topics : ~Clearing(U, <<"unlock", T>> ** q)
    BY <2>1, <2>3, Clearings, ThenIs
  <2>5. r = <<"unlock", T>> ** q
    BY <1>6 DEF q
  <2>6. \A U \in Topics : ~Clearing(U, r)
    BY <2>4, <2>5
  <2>7. \A U \in Topics : Clearing(U, x ** r) <=> Clearing(U, r)
    BY <1>3, Clearings
  <2> QED BY <1>3, <2>6, <2>7
<1>10. ToLink(todo[t]) /\ ~ToLink(r)
  <2>1. <<"unlock", T>> \in Op /\ <<"unlock", S>> \in Op /\ <<"unlock", T>>[1] = "unlock" /\ <<"unlock", S>>[1] = "unlock"
    BY <1>7, Operations
  <2> DEFINE q == <<"unlock", S>> ** <<>>
  <2>2. <<>> \in Seq(Op)
    OBVIOUS
  <2>3. ~ToLink(q) /\ q \in Seq(Op)
    BY <2>1, <2>2, ToLinks, ThenIs
  <2> HIDE DEF q
  <2>4. ~ToLink(<<"unlock", T>> ** q)
    BY <2>1, <2>3, ToLinks
  <2> QED BY <1>3, <1>6, <2>4, ToLinks DEF q
<1>11. \A u \in Threads : Depth(u)' = Depth(u)
  BY <1>2 DEF Depth
<1>12. /\ Linking = {u \in Threads : ToLink(todo[u])} /\ New = Fresh(mem)
       /\ IsFiniteSet(Linking) /\ IsFiniteSet(New) /\ t \in Linking
  BY <1>10, LinkingIs, FS_Subset, SubscriptionAssumption DEF Fresh
<1>13. /\ Cardinality(Linking) \in Nat /\ Cardinality(New) \in Nat /\ Cardinality(Linking) <= Cardinality(New)
       /\ New # {}
  <2>1. Cardinality(Linking) \in Nat /\ Cardinality(New) \in Nat /\ Cardinality(Linking) # 0
    BY <1>12, FS_CardinalityType, FS_EmptySet
  <2>2. Cardinality(Linking) <= Cardinality(New)
    BY <1>1 DEF Room
  <2>3. Cardinality(New) # 0
    BY <2>1, <2>2
  <2>4. New # {}
    BY <1>12, <2>3, FS_EmptySet
  <2> QED BY <2>1, <2>2, <2>4
<1> DEFINE n == CHOOSE k \in New : TRUE
<1>14. n \in New /\ n \in Nodes /\ n \in Fresh(mem)
  BY <1>12, <1>13 DEF Fresh
<1>15. mem' = reserve_subscribe(mem, n, T, S) /\ n \in Chain(mem', FirstOf(T), TopicNext)
  BY <1>7 DEF link
<1> HIDE DEF n
<1>16. First' = First
  <2>1. \A U \in Topics : FirstOf(U)' = FirstOf(U)
    BY <1>1, <1>5, <1>9, FirstKept
  <2> QED BY <2>1 DEF First
<1>17. Linked(mem', First') /\ Fresh(mem') = Fresh(mem) \ {n}
  <2> DEFINE f == First
             m2 == mem'
  <2>1. Linked(mem, f) /\ m2 = reserve_subscribe(mem, n, T, S) /\ n \in Chain(m2, f[T], TopicNext)
    BY <1>1, <1>15 DEF First
  <2> HIDE DEF f, m2
  <2>2. Behind(mem, T) \in Cells(TNext, f[T], OfTopic(mem, T))
    BY <1>14, <2>1, Behindhand
  <2>3. Linked(m2, f) /\ Fresh(m2) = Fresh(mem) \ {n}
    BY <1>14, <2>1, <2>2, Reserved
  <2> QED BY <1>16, <2>3 DEF f, m2
<1>18. /\ mem'.m_erasing_nodes = mem.m_erasing_nodes
       /\ \A k \in Nodes : k # n => mem'.m_topic[k] = mem.m_topic[k] /\ mem'.m_subscriber[k] = mem.m_subscriber[k]
       /\ \A u \in Threads : mem'.ptr[Local(u)] = mem.ptr[Local(u)]
  <2> DEFINE m2 == mem'
  <2>1. mem \in Mem /\ m2 = reserve_subscribe(mem, n, T, S)
    BY <1>1, <1>15 DEF Linked
  <2> HIDE DEF m2
  <2>2. /\ m2.m_erasing_nodes = mem.m_erasing_nodes
        /\ \A d \in Cell : m2.ptr[d] = IF d = Head_(S) THEN n
                                       ELSE IF d = SubNext(n) THEN mem.ptr[Head_(S)]
                                       ELSE IF d = Behind(mem, T) THEN n ELSE mem.ptr[d]
        /\ \A k \in Nodes : /\ m2.m_topic[k] = IF k = n THEN T ELSE mem.m_topic[k]
                            /\ m2.m_subscriber[k] = IF k = n THEN S ELSE mem.m_subscriber[k]
    BY <1>14, <2>1, ReserveIs
  <2>3. \A u \in Threads : Local(u) \in Cell /\ Local(u) # Head_(S) /\ Local(u) # SubNext(n) /\ Local(u) # Behind(mem, T)
    BY CellKinds DEF Behind
  <2> QED BY <2>2, <2>3 DEF m2
<1>19. Keeps(mem, mem')
  BY <1>14, <1>17, <1>18 DEF Keeps
<1>20. \A u \in Threads : \A k \in Nodes : k \notin Fresh(mem) /\ Told(mem, u, k) => Told(mem', u, k)
  BY <1>14, <1>18 DEF Told, Live
<1>21. Place(mem', t, First', r, Depth(t)')
  <2> DEFINE f == First'
             h == Depth(t)
             m2 == mem'
  <2>1. GoesOn("unsubscribe", T, S, r, h)
    BY <1>8
  <2> HIDE DEF f, h, m2
  <2>2. Place(m2, t, f, r, h)
    BY <1>8, <2>1 DEF Place
  <2> QED BY <1>11, <2>2 DEF f, h, m2
<1>22. ErasersKnown'
  <2>1. mem.m_erasing_nodes[n] = {}
    BY <1>1, <1>14 DEF Linked
  <2>2. \A k \in Nodes, u \in Threads : u # t /\ Live(mem', k) /\ Local(u) \in mem'.m_erasing_nodes[k] =>
          Live(mem, k) /\ Local(u) \in mem.m_erasing_nodes[k] /\ mem'.ptr[Local(u)] = mem.ptr[Local(u)]
    BY <1>18, <2>1 DEF Live
  <2>3. \A k \in Nodes : Live(mem', k) => ~(Local(t) \in mem'.m_erasing_nodes[k])
    BY <1>1, <1>3, <1>18, <2>1 DEF ErasersKnown, Live
  <2> QED BY <1>1, <1>5, <1>11, <2>2, <2>3, ErasersStay
<1>23. Room'
  <2>1. Linking' = Linking \ {t}
    <3>1. Linking' = {u \in Threads : ToLink(todo'[u])}
      BY DEF Linking, ToLink
    <3>2. \A u \in Threads : ToLink(todo'[u]) <=> ToLink(todo[u]) /\ u # t
      BY <1>1, <1>5, <1>10
    <3> QED BY <1>12, <3>1, <3>2
  <2>2. New' = New \ {n}
    <3>1. New' = Fresh(mem')
      BY DEF New, Fresh
    <3> QED BY <1>12, <1>17, <3>1
  <2>3. Cardinality(Linking \ {t}) = Cardinality(Linking) - 1
    BY <1>12, FS_RemoveElement
  <2>4. Cardinality(New \ {n}) = Cardinality(New) - 1
    BY <1>12, <1>14, FS_RemoveElement
  <2>5. Cardinality(Linking') <= Cardinality(New')
    BY <1>13, <2>1, <2>2, <2>3, <2>4
  <2> QED BY <2>5 DEF Room
<1>24. \A u \in Threads : u # t => \A U \in Topics : First[U] = Local(u) => First'[U] = Local(u)
  BY <1>16
<1> QED BY <1>1, <1>2, <1>3, <1>5, <1>11, <1>17, <1>19, <1>20, <1>21, <1>22, <1>23, <1>24, Moves


\* A thread in unsubscribe() does not clear.
LEMMA EraserClears ==
  ASSUME NEW u \in Threads, NEW k \in Nodes, NEW T \in Topics, NEW S \in Subscribers,
         Erases(u, "unsubscribe", T, S, k, todo[u], Depth(u))
  PROVE  \A U \in Topics : ~Clearing(U, todo[u])
<1> DEFINE s == todo[u]
           h == Depth(u)
           job == "unsubscribe"
<1>1. Erases(u, job, T, S, k, s, h) /\ job \in Jobs /\ ~Clears(job)
  BY DEF Jobs, Clears
<1> HIDE DEF s, h, job
<1>2. \A U \in Topics : Clearing(U, s) <=> Clears(job) /\ U = T
  BY <1>1, ErasesClears
<1> QED BY <1>1, <1>2 DEF s

\* A node is taken out of its lists, and those who are about to erase it are told.
LEMMA ErasedOne ==
  ASSUME Sound, NEW n \in Nodes, Live(mem, n), NEW m2, m2 = unsubscribe(mem, n)
  PROVE  /\ Linked(m2, First) /\ Fresh(m2) = Fresh(mem) /\ Keeps(mem, m2)
         /\ m2.m_erasing_nodes = mem.m_erasing_nodes
         /\ \A k \in Nodes : Live(m2, k) <=> k # n /\ Live(mem, k)
         /\ \A u \in Threads, k \in Nodes, T \in Topics, S \in Subscribers :
              Erases(u, "unsubscribe", T, S, k, todo[u], Depth(u)) /\ Told(mem, u, k) => Told(m2, u, k)
         /\ \A u \in Threads, k \in Nodes : Live(m2, k) /\ Local(u) \in mem.m_erasing_nodes[k] =>
              m2.ptr[Local(u)] = mem.ptr[Local(u)]
<1> DEFINE f == First
<1>1. Linked(mem, f) /\ ErasersKnown /\ mem \in Mem
  BY DEF Sound, Linked
<1>2. Nil \notin Nodes /\ \A T \in Topics, S \in Subscribers : Nil # T /\ Nil # S
  BY SubscriptionAssumption DEF Mutexes
<1>3. \A u \in Threads, k \in Nodes, T \in Topics, S \in Subscribers :
        Erases(u, "unsubscribe", T, S, k, todo[u], Depth(u)) => \A U \in Topics : f[U] # Local(u)
  BY EraserClears, FirstClears
<1>4. mem.m_erasing_nodes[n] \subseteq Locals
  BY <1>1 DEF Mem
<1>5. \A U \in Topics : f[U] \notin mem.m_erasing_nodes[n]
  <2> SUFFICES ASSUME NEW U \in Topics, f[U] \in mem.m_erasing_nodes[n] PROVE FALSE
    OBVIOUS
  <2>1. PICK u \in Threads : f[U] = Local(u)
    BY <1>4 DEF Locals
  <2>2. \E T \in Topics, S \in Subscribers : Erases(u, "unsubscribe", T, S, n, todo[u], Depth(u))
    BY <1>1, <2>1 DEF ErasersKnown
  <2> QED BY <1>3, <2>1, <2>2
<1> HIDE DEF f
<1>6. Linked(m2, f) /\ Fresh(m2) = Fresh(mem)
  BY <1>1, <1>5, Unsubscribed
<1>7. /\ m2.m_erasing_nodes = mem.m_erasing_nodes
      /\ \A c \in Cell : m2.ptr[c] = IF c = mem.topic_prev[n] THEN mem.ptr[TopicNext(n)]
                                     ELSE IF c = mem.subscriber_prev[n] THEN mem.ptr[SubNext(n)]
                                     ELSE IF c \in mem.m_erasing_nodes[n] THEN Nil ELSE mem.ptr[c]
      /\ \A k \in Nodes : /\ m2.m_topic[k] = IF k = n THEN Nil ELSE mem.m_topic[k]
                          /\ m2.m_subscriber[k] = IF k = n THEN Nil ELSE mem.m_subscriber[k]
  BY <1>1, UnsubscribeIs
<1>8. Keeps(mem, m2)
  BY <1>6, <1>7 DEF Keeps
<1>9. \A k \in Nodes : Live(m2, k) <=> k # n /\ Live(mem, k)
  BY <1>7 DEF Live
<1>10. ASSUME NEW u \in Threads, \A U \in Topics : f[U] # Local(u)
       PROVE  m2.ptr[Local(u)] = IF Local(u) \in mem.m_erasing_nodes[n] THEN Nil ELSE mem.ptr[Local(u)]
  <2>1. Local(u) \in Cell /\ Local(u) \in Locals
    BY CellKinds DEF Locals
  <2>2. mem.m_topic[n] \in Topics /\ mem.topic_prev[n] \in Cells(TNext, f[mem.m_topic[n]], OfTopic(mem, mem.m_topic[n]))
        /\ mem.subscriber_prev[n] # Local(u)
    BY <1>1, <2>1, LiveNode
  <2>3. mem.topic_prev[n] # Local(u)
    BY <1>1, <1>10, <2>1, <2>2, CellsApart
  <2> QED BY <1>7, <2>1, <2>2, <2>3
<1>11. \A u \in Threads, k \in Nodes : Live(mem, k) /\ Local(u) \in mem.m_erasing_nodes[k] =>
         /\ mem.ptr[Local(u)] = k
         /\ \E T \in Topics, S \in Subscribers : Erases(u, "unsubscribe", T, S, k, todo[u], Depth(u))
  BY <1>1 DEF ErasersKnown
<1>12. ASSUME NEW u \in Threads, NEW k \in Nodes, NEW T \in Topics, NEW S \in Subscribers,
              Erases(u, "unsubscribe", T, S, k, todo[u], Depth(u)), Told(mem, u, k)
       PROVE  Told(m2, u, k)
  <2>1. m2.ptr[Local(u)] = IF Local(u) \in mem.m_erasing_nodes[n] THEN Nil ELSE mem.ptr[Local(u)]
    BY <1>3, <1>10, <1>12
  <2>2. /\ mem.ptr[Local(u)] = IF Live(mem, k) THEN k ELSE Nil
        /\ Live(mem, k) => Local(u) \in mem.m_erasing_nodes[k]
    BY <1>12 DEF Told
  <2>3. Local(u) \in mem.m_erasing_nodes[n] => mem.ptr[Local(u)] = n
    BY <1>11
  <2>4. m2.ptr[Local(u)] = IF Live(m2, k) THEN k ELSE Nil
    BY <1>2, <1>9, <2>1, <2>2, <2>3
  <2>5. Live(m2, k) => Local(u) \in m2.m_erasing_nodes[k]
    BY <1>7, <1>9, <2>2
  <2> QED BY <2>4, <2>5 DEF Told
<1>13. ASSUME NEW u \in Threads, NEW k \in Nodes, Live(m2, k), Local(u) \in mem.m_erasing_nodes[k]
       PROVE  m2.ptr[Local(u)] = mem.ptr[Local(u)]
  <2>1. k # n /\ mem.ptr[Local(u)] = k /\ \A U \in Topics : f[U] # Local(u)
    BY <1>3, <1>9, <1>11, <1>13
  <2>2. Local(u) \notin mem.m_erasing_nodes[n]
    BY <1>11, <2>1
  <2> QED BY <1>10, <2>1, <2>2
<1> QED BY <1>6, <1>7, <1>8, <1>9, <1>12, <1>13 DEF f

\* Who is at the erasure of a node and known to one is in unsubscribe(), and it
\* is this node.
LEMMA ErasureIs ==
  ASSUME NEW t \in Threads, NEW T \in Topics, NEW S \in Subscribers, NEW job \in Jobs, NEW n \in Nodes,
         NEW x \in Op, NEW r \in Seq(Op), NEW h, Erasure(t, job, T, S, n, x, r, h),
         NEW U \in Topics, NEW V \in Subscribers, NEW k \in Nodes,
         Erases(t, "unsubscribe", U, V, k, x ** r, h)
  PROVE  job = "unsubscribe" /\ k = n
<1> DEFINE o == <<"erase", CellOf(job, t, S), n>>
           p == <<"erase", Local(t), k>>
           q == <<"unlock", Other(job, T, S)>> ** Rest(job, T, S)
<1>1. x = o /\ r = q /\ Rest(job, T, S) \in Seq(Op) /\ <<"unlock", Other(job, T, S)>> \in Op
  BY Rests, Operations DEF Erasure
<1>2. x[1] = "erase" /\ "unsubscribe" \in Jobs
  BY <1>1 DEF Jobs
<1>3. Erasure(t, "unsubscribe", U, V, k, x, r, h)
  <2> DEFINE mine == "unsubscribe"
  <2>1. mine \in Jobs /\ Erases(t, mine, U, V, k, x ** r, h)
    BY <1>2
  <2> HIDE DEF mine
  <2>2. Erasure(t, mine, U, V, k, x, r, h)
    BY <1>2, <2>1, ErasesAt
  <2> QED BY <2>2 DEF mine
<1>4. x = p
  BY <1>3 DEF Erasure, CellOf
<1>5. k = n /\ CellOf(job, t, S) = Local(t)
  BY <1>1, <1>4
<1>6. job # "unsubscribe_all"
  BY <1>5, CellKinds DEF CellOf
<1>7. ~Clearing(T, r)
  <2>1. r = <<"unlock", U>> ** (<<"unlock", V>> ** <<>>)
    BY <1>3 DEF Erasure, Other, Rest
  <2>2. U \in Mutexes /\ V \in Mutexes /\ <<>> \in Seq(Op)
    BY DEF Mutexes
  <2>3. <<"unlock", U>> \in Op /\ <<"unlock", V>> \in Op /\ <<"unlock", U>>[1] = "unlock" /\ <<"unlock", V>>[1] = "unlock"
    BY <2>2, Operations
  <2> DEFINE w == <<"unlock", V>> ** <<>>
  <2>4. ~Clearing(T, w) /\ w \in Seq(Op)
    BY <2>2, <2>3, Clearings, ThenIs
  <2> HIDE DEF w
  <2>5. ~Clearing(T, <<"unlock", U>> ** w)
    BY <2>3, <2>4, Clearings
  <2> QED BY <2>1, <2>5 DEF w
<1>8. Clearing(T, r) <=> Clears(job)
  <2> DEFINE y == <<"unlock", Other(job, T, S)>>
             rest == Rest(job, T, S)
  <2>1. y \in Op /\ y[1] = "unlock" /\ rest \in Seq(Op) /\ r = y ** rest /\ (Clearing(T, rest) <=> Clears(job))
    BY <1>1, RestClears
  <2> HIDE DEF y, rest
  <2>2. Clearing(T, r) <=> Clearing(T, rest)
    BY <2>1, Clearings
  <2> QED BY <2>1, <2>2
<1> QED BY <1>5, <1>6, <1>7, <1>8 DEF Jobs, Clears


\* A node is erased, if it was not by another thread in the meantime.
LEMMA EraseStep ==
  ASSUME Sound, NEW t \in Threads, erase(t), known' = {}
  PROVE  Sound'
<1> DEFINE x == todo[t][1]
           r == Tail(todo[t])
<1>1. /\ todo \in [Threads -> Seq(Op)] /\ calls \in 0..MaxCalls /\ Linked(mem, First) /\ Room /\ ErasersKnown
      /\ owner \in [Mutexes -> [by : Threads \cup {Nil}, depth : Nat]]
      /\ \A m \in Mutexes : owner[m].by = Nil <=> owner[m].depth = 0
  BY DEF Sound, Types
<1>2. Does(t, "erase") /\ Goes(t, <<>>) /\ UNCHANGED <<addr, owner, calls, met>>
  BY DEF erase
<1>3. x \in Op /\ r \in Seq(Op) /\ x[1] = "erase" /\ todo[t] = x ** r
  BY <1>2, Readies
<1>4. Ready(mem, t, First, x, r, Depth(t))
  BY <1>2, Readies
<1>5. todo' = [todo EXCEPT ![t] = r]
  BY <1>1, <1>2, Doing
<1> HIDE DEF r
<1>6. PICK T \in Topics, S \in Subscribers, job \in Jobs, n \in Nodes :
        /\ Erasure(t, job, T, S, n, x, r, Depth(t))
        /\ Was(mem, n, T, S)
        /\ Clears(job) => Publisher(t) /\ First[T] = Local(t)
        /\ job = "unsubscribe" => Told(mem, t, n)
  BY <1>3, <1>4 DEF Ready, Erasure
<1> DEFINE c == CellOf(job, t, S)
<1>7. Arg(t, 2) = c /\ Arg(t, 3) = n
  BY <1>6 DEF Arg, Erasure
<1> HIDE DEF x
<1>8. c \in Cell /\ T \in Mutexes /\ S \in Mutexes
  BY CellKinds DEF CellOf, Mutexes
<1>9. /\ mem' = IF mem.ptr[c] = Nil THEN mem ELSE unsubscribe(mem, mem.ptr[c])
      /\ mem.ptr[c] \in {Nil, n}
  BY <1>7 DEF erase
<1>10. Nil \notin Nodes /\ Nil \notin Mutexes
  BY SubscriptionAssumption
<1>11. mem.ptr[c] = n => Live(mem, n)
  <2> SUFFICES ASSUME mem.ptr[c] = n PROVE Live(mem, n)
    OBVIOUS
  <2>1. CASE job = "unsubscribe"
    BY <1>6, <1>10, <2>1 DEF CellOf, Told
  <2>2. CASE job = "unsubscribe_all"
    <3>1. n \in OfSub(mem, S)
      BY <1>1, <1>10, <2>2 DEF Linked, List, Cells, CellOf
    <3> QED BY <1>1, <1>8, <1>10, <3>1 DEF OfSub, Linked, Live
  <2>3. CASE Clears(job)
    <3> DEFINE f == First
    <3>1. Linked(mem, f) /\ f[T] = c
      BY <1>1, <1>6, <2>3 DEF CellOf, Clears
    <3> HIDE DEF f
    <3>2. n \in OfTopic(mem, T)
      BY <1>10, <3>1 DEF Linked, List, Cells
    <3> QED BY <1>8, <1>10, <3>2 DEF OfTopic, Live
  <2> QED BY <2>1, <2>2, <2>3 DEF Jobs, Clears
<1>12. \A U \in Topics, V \in Subscribers, k \in Nodes :
         Erases(t, "unsubscribe", U, V, k, todo[t], Depth(t)) => job = "unsubscribe" /\ k = n
  BY <1>3, <1>6, ErasureIs
<1>13. \A U \in Topics : Clearing(U, r) <=> Clearing(U, todo[t])
  BY <1>3, Clearings
<1>14. ToLink(r) => ToLink(todo[t])
  BY <1>3, ToLinks
<1>15. \A u \in Threads : Depth(u)' = Depth(u)
  BY <1>2 DEF Depth
<1>16. GoesOn(job, T, S, r, Depth(t))
  BY <1>6 DEF GoesOn, Erasure
<1>17. \A m : Place(m, t, First, r, Depth(t))
  BY <1>6, <1>16 DEF Place
<1>18. /\ owner' \in [Mutexes -> [by : Threads \cup {Nil}, depth : Nat]] /\ calls' \in 0..MaxCalls
       /\ \A m \in Mutexes : owner'[m].by = Nil <=> owner'[m].depth = 0
       /\ addr' = addr /\ met' = met
  BY <1>1, <1>2
<1>19. First' = First
  <2>1. \A U \in Topics : FirstOf(U)' = FirstOf(U)
    BY <1>1, <1>5, <1>13, FirstKept
  <2> QED BY <2>1 DEF First
<1> HIDE DEF c
<1>20. mem.ptr[c] = Nil => ~(job = "unsubscribe" /\ Live(mem, n))
  BY <1>6, <1>10 DEF Told, CellOf, c
<1>21. CASE mem.ptr[c] = Nil
  <2>1. mem' = mem
    BY <1>9, <1>21
  <2>2. \A k \in Nodes, U \in Topics, V \in Subscribers :
          Live(mem, k) /\ Erases(t, "unsubscribe", U, V, k, todo[t], Depth(t)) => FALSE
    BY <1>12, <1>20, <1>21
  <2>3. Place(mem, t, First, r, Depth(t)')
    BY <1>15, <1>17
  <2> QED BY <1>3, <1>5, <1>13, <1>14, <1>15, <1>18, <2>1, <2>2, <2>3, Stays
<1>22. CASE mem.ptr[c] # Nil
  <2>1. mem' = unsubscribe(mem, n) /\ Live(mem, n)
    BY <1>9, <1>11, <1>22
  <2>2. /\ Linked(mem', First) /\ Fresh(mem') = Fresh(mem) /\ Keeps(mem, mem')
        /\ mem'.m_erasing_nodes = mem.m_erasing_nodes
        /\ \A k \in Nodes : Live(mem', k) <=> k # n /\ Live(mem, k)
        /\ \A u \in Threads, k \in Nodes, U \in Topics, V \in Subscribers :
             Erases(u, "unsubscribe", U, V, k, todo[u], Depth(u)) /\ Told(mem, u, k) => Told(mem', u, k)
        /\ \A u \in Threads, k \in Nodes : Live(mem', k) /\ Local(u) \in mem.m_erasing_nodes[k] =>
             mem'.ptr[Local(u)] = mem.ptr[Local(u)]
    BY <2>1, ErasedOne
  <2>3. \A k \in Nodes : Live(mem', k) => ~(Local(t) \in mem'.m_erasing_nodes[k])
    BY <1>1, <1>12, <2>2 DEF ErasersKnown
  <2>4. \A k \in Nodes, u \in Threads : u # t /\ Live(mem', k) /\ Local(u) \in mem'.m_erasing_nodes[k] =>
          Live(mem, k) /\ Local(u) \in mem.m_erasing_nodes[k] /\ mem'.ptr[Local(u)] = mem.ptr[Local(u)]
    BY <2>2
  <2>5. ErasersKnown'
    BY <1>1, <1>5, <1>15, <2>3, <2>4, ErasersStay
  <2>6. Room'
    BY <1>1, <1>5, <1>14, <2>2, RoomKept
  <2>7. Place(mem', t, First', r, Depth(t)')
    BY <1>15, <1>17, <1>19
  <2>8. Linked(mem, First)'
    BY <1>19, <2>2
  <2>9. \A u \in Threads : u # t => \A U \in Topics : First[U] = Local(u) => First'[U] = Local(u)
    BY <1>19
  <2>10. \A u \in Threads : u # t => \A k \in Nodes, U \in Topics, V \in Subscribers :
           k \notin Fresh(mem) /\ Erases(u, "unsubscribe", U, V, k, todo[u], Depth(u)) /\ Told(mem, u, k)
             => Told(mem', u, k)
    BY <2>2
  <2> QED BY <1>3, <1>5, <1>15, <1>18, <2>2, <2>5, <2>6, <2>7, <2>8, <2>9, <2>10, Moves
<1> QED BY <1>21, <1>22



-----------------------------------------------------------------------------
(* A call begins *)

\* A thread that is about to erase has something to do.
LEMMA NotAtEnd ==
  ASSUME NEW t \in Threads, NEW T \in Topics, NEW S \in Subscribers, NEW job \in Jobs, NEW n \in Nodes, NEW h
  PROVE  ~Erases(t, job, T, S, n, <<>>, h)
<1>0. \A x \in Op, s \in Seq(Op) : x ** s # <<>>
  BY ThenIs
<1> DEFINE own == Own(job, T, S)
           other == Other(job, T, S)
           c == CellOf(job, t, S)
           rest == Rest(job, T, S)
           e == <<"erase", c, n>> ** (<<"unlock", other>> ** rest)
<1>1. own \in Mutexes /\ other \in Mutexes /\ rest \in Seq(Op) /\ c \in Cell
  BY Rests, CellKinds DEF CellOf, Mutexes
<1>2. Erases(t, job, T, S, n, <<>>, h) => Erasing(own, Times(job), other, c, n, rest, <<>>, h)
  BY DEF Erases
<1> HIDE DEF own, other, c, rest
<1>3. /\ <<"unlock", other>> ** rest \in Seq(Op)
      /\ e \in Seq(Op) /\ <<"lock", own>> ** e \in Seq(Op)
      /\ <<"lock", other>> ** (<<"lock", own>> ** e) \in Seq(Op)
  BY <1>1, ErasingSeqs
<1>4. /\ <<"erase", c, n>> \in Op /\ <<"lock", own>> \in Op /\ <<"lock", other>> \in Op
      /\ <<"unlock", own>> \in Op /\ <<"relock", own, other>> \in Op
  BY <1>1, Operations
<1>5. e # <<>>
  BY <1>0, <1>1, <1>3, <1>4
<1> HIDE DEF e
<1>6. /\ <<"relock", own, other>> ** e # <<>> /\ <<"lock", other>> ** e # <<>>
      /\ <<"unlock", own>> ** (<<"lock", other>> ** (<<"lock", own>> ** e)) # <<>>
      /\ <<"lock", other>> ** (<<"lock", own>> ** e) # <<>> /\ <<"lock", own>> ** e # <<>>
  BY <1>0, <1>1, <1>3, <1>4
<1>7. ~Erasing(own, Times(job), other, c, n, rest, <<>>, h)
  BY <1>5, <1>6 DEF Erasing, e
<1> QED BY <1>2, <1>7

\* A thread that has nothing to do has no mutex.
LEMMA PlaceNone ==
  ASSUME NEW m, NEW t \in Threads, NEW first, NEW h, Place(m, t, first, <<>>, h)
  PROVE  h = None
<1>1. \A x \in Op, s \in Seq(Op) : x ** s # <<>>
  BY ThenIs
<1>0. <<>> \in Seq(Op)
  OBVIOUS
<1>2. ASSUME Ends(<<>>, h) PROVE h = None
  <2>1. \A a \in Mutexes : <<"unlock", a>> \in Op
    BY Operations
  <2> QED BY <1>0, <1>1, <1>2, <2>1 DEF Ends
<1>3. ASSUME NEW T \in Topics, NEW S \in Subscribers
      PROVE  ~Subscribes(T, S, <<>>, h)
  <2> DEFINE l == LinkThen(T, S)
  <2>1. T \in Mutexes /\ S \in Mutexes
    BY DEF Mutexes
  <2>2. /\ <<"has_topic", T, S>> ** <<>> \in Seq(Op) /\ l \in Seq(Op)
        /\ \A a, b \in Mutexes : <<"lock", b>> ** l \in Seq(Op) /\ <<"lock", a>> ** (<<"lock", b>> ** l) \in Seq(Op)
    BY SubscribesSeqs
  <2>3. <<"link", T, S>> ** (<<"unlock", T>> ** (<<"unlock", S>> ** <<>>)) # <<>>
    BY <1>1, <2>1, SubscribesSeqs, Operations
  <2>4. l # <<>>
    BY <2>3 DEF LinkThen
  <2> HIDE DEF l
  <2>5. /\ \A a \in Mutexes : <<"lock", a>> \in Op /\ <<"unlock", a>> \in Op
        /\ <<"has_topic", T, S>> \in Op
    BY <2>1, Operations
  <2>6. /\ \A a, b \in Mutexes : /\ <<"lock", b>> ** l # <<>> /\ <<"lock", a>> ** (<<"lock", b>> ** l) # <<>>
                                 /\ <<"unlock", S>> ** (<<"lock", a>> ** (<<"lock", b>> ** l)) # <<>>
        /\ <<"lock", S>> ** (<<"has_topic", T, S>> ** <<>>) # <<>>
        /\ <<"has_topic", T, S>> ** <<>> # <<>>
    BY <1>0, <1>1, <2>1, <2>2, <2>5
  <2> QED BY <2>4, <2>6 DEF Subscribes, l
<1>4. ASSUME NEW T \in Topics, NEW S \in Subscribers
      PROVE  ~Begins(t, T, S, <<>>, h)
  <2>1. T \in Mutexes /\ S \in Mutexes /\ <<>> \in Seq(Op)
    BY DEF Mutexes
  <2>2. <<"find", T, S>> \in Op /\ <<"all", S>> \in Op /\ <<"lock", S>> \in Op /\ <<"unlock", S>> \in Op
    BY <2>1, Operations
  <2> DEFINE u == <<"unlock", S>> ** <<>>
  <2>3. u \in Seq(Op)
    BY <2>1, <2>2, ThenIs
  <2> HIDE DEF u
  <2>4. <<"find", T, S>> ** u \in Seq(Op) /\ <<"all", S>> ** u \in Seq(Op) /\ <<"find", T, S>> ** u # <<>>
    BY <2>2, <2>3, ThenIs
  <2>5. <<"lock", S>> ** (<<"find", T, S>> ** u) # <<>> /\ <<"lock", S>> ** (<<"all", S>> ** u) # <<>>
    BY <1>1, <2>2, <2>4
  <2> QED BY <2>4, <2>5 DEF Begins, u
<1>5. ASSUME NEW T \in Topics
      PROVE  ~Publishes(T, <<>>, h)
  <2> DEFINE last == <<"unlock", T>> ** <<>>
             clears == <<"clear", T>> ** last
             erases == <<"clear", T>> ** (<<"unlock", T>> ** last)
  <2>1. /\ last \in Seq(Op) /\ <<"unlock", T>> ** last \in Seq(Op)
        /\ <<"walk", T>> ** last \in Seq(Op) /\ clears \in Seq(Op) /\ erases \in Seq(Op)
        /\ <<"lock", T>> ** erases \in Seq(Op)
        /\ <<"walk", T>> ** (<<"lock", T>> ** erases) \in Seq(Op)
        /\ <<"lock", T>> \in Op /\ <<"walk", T>> \in Op /\ <<"clear", T>> \in Op
        /\ <<"unlock", T>> \in Op
    BY PublishesSeqs
  <2>2. clears # <<>> /\ erases # <<>>
    BY <1>1, <2>1
  <2> HIDE DEF last, clears, erases
  <2>3. /\ <<"lock", T>> ** (<<"walk", T>> ** last) # <<>> /\ <<"walk", T>> ** last # <<>>
        /\ <<"lock", T>> ** clears # <<>> /\ <<"lock", T>> ** erases # <<>>
        /\ <<"lock", T>> ** (<<"walk", T>> ** (<<"lock", T>> ** erases)) # <<>>
        /\ <<"walk", T>> ** (<<"lock", T>> ** erases) # <<>>
        /\ <<"unlock", T>> ** last # <<>>
    BY <1>1, <2>1
  <2> QED BY <2>2, <2>3 DEF Publishes, last, clears, erases
<1>6. ASSUME NEW T \in Topics, NEW S \in Subscribers, NEW job \in Jobs
      PROVE  ~GoesOn(job, T, S, <<>>, h)
  <2>1. <<"unlock", S>> ** <<>> # <<>>
    <3>1. S \in Mutexes /\ <<>> \in Seq(Op)
      BY DEF Mutexes
    <3> QED BY <1>1, <3>1, Operations
  <2>2. Rest(job, T, S) # <<>>
    BY <1>1, <2>1, RestSeqs
  <2>3. <<"unlock", Other(job, T, S)>> ** Rest(job, T, S) # <<>>
    BY <1>1, Rests, Operations
  <2> QED BY <2>2, <2>3 DEF GoesOn
<1>7. \A T \in Topics, S \in Subscribers, job \in Jobs, n \in Nodes : ~Erases(t, job, T, S, n, <<>>, h)
  BY NotAtEnd
<1> QED BY <1>2, <1>3, <1>4, <1>5, <1>6, <1>7 DEF Place

\* What is done under a mutex.
LEMMA Unders ==
  ASSUME NEW m \in Mutexes, NEW ops \in Seq(Op)
  PROVE  /\ Under(m, ops) = <<"lock", m>> ** (ops \o (<<"unlock", m>> ** <<>>))
         /\ Under(m, ops) \in Seq(Op)
         /\ \A o \in Op : <<o>> \in Seq(Op) /\ <<o>> \o (<<"unlock", m>> ** <<>>) = o ** (<<"unlock", m>> ** <<>>)
<1> DEFINE l == <<"lock", m>>
           u == <<"unlock", m>>
<1>1. l \in Op /\ u \in Op
  BY Operations
<1> HIDE DEF l, u
<1>2. <<l>> \in Seq(Op) /\ <<u>> \in Seq(Op) /\ <<>> \in Seq(Op)
  BY <1>1
<1>3. u ** <<>> = <<u>>
  BY <1>1, <1>2 DEF **
<1>4. (<<l>> \o ops) \o <<u>> = <<l>> \o (ops \o <<u>>)
  BY <1>2, ConcatAssociative
<1>5. (<<l>> \o ops) \o <<u>> = l ** (ops \o (u ** <<>>))
  BY <1>3, <1>4 DEF **
<1>6. (<<l>> \o ops) \o <<u>> \in Seq(Op)
  BY <1>2
<1>7. \A o \in Op : <<o>> \in Seq(Op) /\ <<o>> \o (u ** <<>>) = o ** (u ** <<>>)
  BY DEF **
<1>8. Under(m, ops) = (<<l>> \o ops) \o <<u>>
  BY DEF Under, l, u
<1> QED BY <1>5, <1>6, <1>7, <1>8 DEF l, u


\* What each call is to do.
LEMMA CallIs ==
  ASSUME NEW T \in Topics, NEW S \in Subscribers
  PROVE  /\ Ops("subscribe", T, S) = <<"lock", S>> ** (<<"has_topic", T, S>> ** <<>>)
         /\ Ops("unsubscribe", T, S) = <<"lock", S>> ** (<<"find", T, S>> ** (<<"unlock", S>> ** <<>>))
         /\ Ops("unsubscribe_all", T, S) = <<"lock", S>> ** (<<"all", S>> ** (<<"unlock", S>> ** <<>>))
         /\ Ops("publish", T, S) = <<"lock", T>> ** (<<"walk", T>> ** (<<"unlock", T>> ** <<>>))
         /\ Ops("clear", T, S) = <<"lock", T>> ** (<<"clear", T>> ** (<<"unlock", T>> ** <<>>))
         /\ Ops("erase_topic", T, S) =
              <<"lock", T>> ** (<<"walk", T>> ** (<<"lock", T>> ** (<<"clear", T>> **
                                                    (<<"unlock", T>> ** (<<"unlock", T>> ** <<>>)))))
<1>1. T \in Mutexes /\ S \in Mutexes
  BY DEF Mutexes
<1>2. \A m \in Mutexes, o \in Op : Under(m, <<o>>) = <<"lock", m>> ** (o ** (<<"unlock", m>> ** <<>>))
  <2> TAKE m \in Mutexes, o \in Op
  <2>1. <<o>> \in Seq(Op)
    OBVIOUS
  <2> QED BY <2>1, Unders
<1>3. Ops("subscribe", T, S) = <<"lock", S>> ** (<<"has_topic", T, S>> ** <<>>)
  <2> DEFINE a == <<"lock", S>>
             b == <<"has_topic", T, S>>
  <2>1. Ops("subscribe", T, S) = <<a, b>>
    BY DEF Ops
  <2>2. a \in Op /\ b \in Op
    BY <1>1, Operations
  <2> HIDE DEF a, b
  <2>3. <<b>> \in Seq(Op) /\ <<>> \in Seq(Op)
    BY <2>2
  <2>4. b ** <<>> = <<b>>
    BY <2>3 DEF **
  <2>5. <<a, b>> = a ** <<b>>
    BY <2>2, Tuple2
  <2> QED BY <2>1, <2>4, <2>5 DEF a, b
<1>4. Ops("unsubscribe", T, S) = <<"lock", S>> ** (<<"find", T, S>> ** (<<"unlock", S>> ** <<>>))
  <2>1. Ops("unsubscribe", T, S) = Under(S, <<<<"find", T, S>> >>)
    BY DEF Ops
  <2> QED BY <1>1, <1>2, <2>1, Operations
<1>5. Ops("unsubscribe_all", T, S) = <<"lock", S>> ** (<<"all", S>> ** (<<"unlock", S>> ** <<>>))
  <2>1. Ops("unsubscribe_all", T, S) = Under(S, <<<<"all", S>> >>)
    BY DEF Ops
  <2> QED BY <1>1, <1>2, <2>1, Operations
<1>6. Ops("publish", T, S) = <<"lock", T>> ** (<<"walk", T>> ** (<<"unlock", T>> ** <<>>))
  <2>1. Ops("publish", T, S) = Under(T, <<<<"walk", T>> >>)
    BY DEF Ops
  <2> QED BY <1>1, <1>2, <2>1, Operations
<1>7. Ops("clear", T, S) = <<"lock", T>> ** (<<"clear", T>> ** (<<"unlock", T>> ** <<>>))
  <2>1. Ops("clear", T, S) = Under(T, <<<<"clear", T>> >>)
    BY DEF Ops
  <2> QED BY <1>1, <1>2, <2>1, Operations
<1>8. Ops("erase_topic", T, S) =
        <<"lock", T>> ** (<<"walk", T>> ** (<<"lock", T>> ** (<<"clear", T>> **
                                              (<<"unlock", T>> ** (<<"unlock", T>> ** <<>>)))))
  <2> DEFINE l == <<"lock", T>>
             w == <<"walk", T>>
             c == <<"clear", T>>
             u == <<"unlock", T>>
             last == u ** <<>>
             in == Under(T, <<c>>)
             ops == <<w>> \o in
  <2>1. l \in Op /\ w \in Op /\ c \in Op /\ u \in Op
    BY <1>1, Operations
  <2>2. Ops("erase_topic", T, S) = Under(T, ops)
    BY DEF Ops
  <2>3. in = l ** (c ** last)
    BY <1>1, <1>2, <2>1
  <2> HIDE DEF l, w, c, u, in
  <2>4. <<>> \in Seq(Op)
    OBVIOUS
  <2>5. last \in Seq(Op)
    BY <2>1, <2>4, ThenIs
  <2> HIDE DEF last
  <2>6. c ** last \in Seq(Op)
    BY <2>1, <2>5, ThenIs
  <2>7. in \in Seq(Op)
    BY <2>1, <2>3, <2>6, ThenIs
  <2>8. ops = w ** in
    BY DEF **
  <2> HIDE DEF ops
  <2>9. ops \in Seq(Op)
    BY <2>1, <2>7, <2>8, ThenIs
  <2>10. Under(T, ops) = l ** (ops \o last)
    BY <1>1, <2>9, Unders DEF l, u, last
  <2>11. ops \o last = w ** (in \o last)
    BY <2>1, <2>5, <2>7, <2>8, Shift
  <2>12. in \o last = l ** ((c ** last) \o last)
    BY <2>1, <2>3, <2>5, <2>6, Shift
  <2>13. (c ** last) \o last = c ** (last \o last)
    BY <2>1, <2>5, Shift
  <2>14. last \o last = u ** (<<>> \o last)
    BY <2>1, <2>4, <2>5, Shift DEF last
  <2>15. <<>> \o last = last
    BY <2>5
  <2> QED BY <2>2, <2>10, <2>11, <2>12, <2>13, <2>14, <2>15 DEF l, w, c, u, last
<1> QED BY <1>3, <1>4, <1>5, <1>6, <1>7, <1>8

\* A thread at the beginning of a call.
LEMMA CallBegins ==
  ASSUME NEW t \in Threads, NEW call \in Calls[t], NEW T \in Topics, NEW S \in Subscribers
  PROVE  LET s == Ops(call, T, S)
         IN  /\ s \in Seq(Op)
             /\ \A m, first : Place(m, t, first, s, None)
             /\ \A U \in Topics : ~Clearing(U, s)
             /\ ToLink(s) => call = "subscribe"
<1> DEFINE s == Ops(call, T, S)
<1>1. T \in Mutexes /\ S \in Mutexes
  BY DEF Mutexes
<1>2. call \in CallNames
  BY SubscriptionAssumption
<1>3. \/ call = "subscribe" /\ Subscribes(T, S, s, None)
      \/ call \in {"unsubscribe", "unsubscribe_all"} /\ Begins(t, T, S, s, None)
      \/ call \in Publishing /\ Publishes(T, s, None)
  <2>1. call = "subscribe" => Subscribes(T, S, s, None)
    BY CallIs DEF Subscribes
  <2>2. call = "unsubscribe" \/ call = "unsubscribe_all" => Begins(t, T, S, s, None)
    BY CallIs DEF Begins
  <2>3. call = "publish" \/ call = "clear" \/ call = "erase_topic" => Publishes(T, s, None)
    BY CallIs DEF Publishes
  <2> HIDE DEF s
  <2> QED BY <1>2, <2>1, <2>2, <2>3 DEF CallNames, Publishing
<1>4. call \in Publishing => Publisher(t)
  BY DEF Publisher
<1>5. <<>> \in Seq(Op)
  OBVIOUS
<1>6. /\ \A m \in Mutexes : <<"lock", m>> \in Op /\ <<"unlock", m>> \in Op /\ <<"all", m>> \in Op
                            /\ <<"walk", m>> \in Op /\ <<"clear", m>> \in Op
      /\ <<"has_topic", T, S>> \in Op /\ <<"find", T, S>> \in Op
  BY <1>1, Operations
<1> DEFINE Good(r) == r \in Seq(Op) /\ ~ToLink(r)
<1>7. Good(<<>>) /\ \A x \in Op, r \in Seq(Op) : Good(r) /\ x[1] \notin {"has_topic", "link"} => Good(x ** r)
  BY <1>5, ThenIs, ToLinks
<1> HIDE DEF Good
<1>8. \A r : \A x \in Op : Good(r) /\ x[1] \notin {"has_topic", "link"} => Good(x ** r)
  BY <1>7 DEF Good
<1>9. /\ \A m : <<"lock", m>>[1] = "lock" /\ <<"unlock", m>>[1] = "unlock" /\ <<"all", m>>[1] = "all"
                /\ <<"walk", m>>[1] = "walk" /\ <<"clear", m>>[1] = "clear"
      /\ <<"find", T, S>>[1] = "find"
  OBVIOUS
<1>10. /\ \A r : \A m \in Mutexes :
            Good(r) => /\ Good(<<"lock", m>> ** r) /\ Good(<<"unlock", m>> ** r)
                       /\ Good(<<"all", m>> ** r) /\ Good(<<"walk", m>> ** r)
                       /\ Good(<<"clear", m>> ** r)
       /\ \A r : Good(r) => Good(<<"find", T, S>> ** r)
  BY <1>6, <1>8, <1>9
<1>11. call # "subscribe" => Good(s)
  <2>1. call \in {"unsubscribe", "unsubscribe_all", "publish", "clear", "erase_topic", "subscribe"}
    BY <1>2 DEF CallNames
  <2>2. Good(<<"lock", S>> ** (<<"find", T, S>> ** (<<"unlock", S>> ** <<>>)))
    BY <1>1, <1>7, <1>10
  <2>3. Good(<<"lock", S>> ** (<<"all", S>> ** (<<"unlock", S>> ** <<>>)))
    BY <1>1, <1>7, <1>10
  <2>4. Good(<<"lock", T>> ** (<<"walk", T>> ** (<<"unlock", T>> ** <<>>)))
    BY <1>1, <1>7, <1>10
  <2>5. Good(<<"lock", T>> ** (<<"clear", T>> ** (<<"unlock", T>> ** <<>>)))
    BY <1>1, <1>7, <1>10
  <2>6. Good(<<"lock", T>> ** (<<"walk", T>> ** (<<"lock", T>> ** (<<"clear", T>> **
                                                    (<<"unlock", T>> ** (<<"unlock", T>> ** <<>>))))))
    BY <1>1, <1>7, <1>10
  <2>7. call = "unsubscribe" \/ call = "unsubscribe_all" => Good(s)
    BY <2>2, <2>3, CallIs
  <2>8. call = "publish" \/ call = "clear" \/ call = "erase_topic" => Good(s)
    BY <2>4, <2>5, <2>6, CallIs
  <2> HIDE DEF s
  <2> QED BY <2>1, <2>7, <2>8
<1>12. s \in Seq(Op)
  <2>1. <<"lock", S>> ** (<<"has_topic", T, S>> ** <<>>) \in Seq(Op)
    BY <1>1, <1>5, <1>6, ThenIs
  <2> QED BY <1>11, <2>1, CallIs DEF Good
<1> HIDE DEF s
<1>13. \A m, first : Place(m, t, first, s, None)
  BY <1>3, <1>4 DEF Place
<1>14. \A U \in Topics : ~Clearing(U, s)
  BY <1>3, SubscribesClears, BeginsClears, PublishesClears
<1> QED BY <1>11, <1>12, <1>13, <1>14 DEF Good, s

\* A thread begins a call: for each that subscribes there is a node.
LEMMA BeginStep ==
  ASSUME Sound, NEW t \in Threads, Begin(t)
  PROVE  Sound'
<1>1. /\ todo \in [Threads -> Seq(Op)] /\ calls \in 0..MaxCalls /\ MaxCalls \in Nat
      /\ Linked(mem, First) /\ Room /\ ErasersKnown
      /\ owner \in [Mutexes -> [by : Threads \cup {Nil}, depth : Nat]]
      /\ \A m \in Mutexes : owner[m].by = Nil <=> owner[m].depth = 0
  BY SubscriptionAssumption DEF Sound, Types
<1>2. /\ todo[t] = <<>> /\ calls < MaxCalls /\ calls' = calls + 1
      /\ UNCHANGED <<addr, owner, mem, met>>
  BY DEF Begin
<1>3. PICK call \in Calls[t], T \in Topics, S \in Subscribers :
        /\ call = "subscribe" => Cardinality(Linking) < Cardinality(New)
        /\ todo' = [todo EXCEPT ![t] = Ops(call, T, S)]
  BY DEF Begin
<1> DEFINE s == Ops(call, T, S)
<1>4. /\ s \in Seq(Op) /\ \A m, first : Place(m, t, first, s, None)
      /\ \A U \in Topics : ~Clearing(U, s)
      /\ ToLink(s) => call = "subscribe"
  BY CallBegins
<1>5. todo' = [todo EXCEPT ![t] = s]
  BY <1>3
<1> HIDE DEF s
<1>6. \A u \in Threads : Depth(u)' = Depth(u)
  BY <1>2 DEF Depth
<1>7. Depth(t) = None
  <2> DEFINE f == First
             h == Depth(t)
  <2>1. Place(mem, t, f, <<>>, h)
    BY <1>2 DEF Sound
  <2> HIDE DEF f, h
  <2>2. h = None
    BY <2>1, PlaceNone
  <2> QED BY <2>2 DEF h
<1>8. First' = First
  <2>1. \A U \in Topics : ~Clearing(U, todo[t])
    BY <1>2, Clearings
  <2>2. \A U \in Topics : FirstOf(U)' = FirstOf(U)
    BY <1>1, <1>4, <1>5, <2>1, FirstKept
  <2> QED BY <2>2 DEF First
<1>9. Place(mem', t, First', s, Depth(t)')
  <2>1. Depth(t)' = None
    BY <1>6, <1>7
  <2> QED BY <1>4, <2>1
<1>10. \A n \in Nodes : Live(mem, n) => Local(t) \notin mem.m_erasing_nodes[n]
  <2> SUFFICES ASSUME NEW n \in Nodes, Live(mem, n), Local(t) \in mem.m_erasing_nodes[n] PROVE FALSE
    OBVIOUS
  <2> DEFINE h == Depth(t)
             job == "unsubscribe"
  <2>1. PICK U \in Topics, V \in Subscribers : Erases(t, job, U, V, n, <<>>, h)
    BY <1>1, <1>2 DEF ErasersKnown
  <2>2. job \in Jobs
    BY DEF Jobs
  <2> HIDE DEF h, job
  <2> QED BY <2>1, <2>2, NotAtEnd
<1>11. ErasersKnown'
  <2>1. \A n \in Nodes, u \in Threads : u # t /\ Live(mem', n) /\ Local(u) \in mem'.m_erasing_nodes[n] =>
          Live(mem, n) /\ Local(u) \in mem.m_erasing_nodes[n] /\ mem'.ptr[Local(u)] = mem.ptr[Local(u)]
    BY <1>2
  <2>2. \A n \in Nodes : Live(mem', n) => ~(Local(t) \in mem'.m_erasing_nodes[n])
    BY <1>2, <1>10
  <2> QED BY <1>1, <1>5, <1>6, <2>1, <2>2, ErasersStay
<1>12. Room'
  <2>1. New' = New /\ Fresh(mem)' = Fresh(mem)
    BY <1>2 DEF New, Fresh
  <2>2. CASE ~ToLink(s)
    BY <1>1, <1>5, <2>1, <2>2, RoomKept
  <2>3. CASE ToLink(s)
    <3>1. Cardinality(Linking) < Cardinality(New)
      BY <1>3, <1>4, <2>3
    <3>2. Linking' = {u \in Threads : ToLink(todo'[u])}
      BY DEF Linking, ToLink
    <3>3. ~ToLink(todo[t])
      BY <1>2, ToLinks
    <3>4. \A u \in Threads : ToLink(todo'[u]) <=> ToLink(todo[u]) \/ u = t
      BY <1>1, <1>5, <2>3
    <3>5. Linking' = Linking \cup {t} /\ t \notin Linking
      BY <3>2, <3>3, <3>4, LinkingIs
    <3>6. IsFiniteSet(Linking) /\ IsFiniteSet(New)
      BY FS_Subset, SubscriptionAssumption, LinkingIs DEF Fresh
    <3>7. Cardinality(Linking') = Cardinality(Linking) + 1
      BY <3>5, <3>6, FS_AddElement
    <3>8. Cardinality(Linking) \in Nat /\ Cardinality(New) \in Nat
      BY <3>6, FS_CardinalityType
    <3>9. Cardinality(Linking') <= Cardinality(New')
      BY <2>1, <3>1, <3>7, <3>8
    <3> QED BY <3>9 DEF Room
  <2> QED BY <2>2, <2>3
<1>13. Linked(mem, First)'
  BY <1>1, <1>2, <1>8
<1>14. Keeps(mem, mem')
  BY <1>2 DEF Keeps
<1>15. calls' \in 0..MaxCalls
  BY <1>1, <1>2
<1>16. /\ owner' \in [Mutexes -> [by : Threads \cup {Nil}, depth : Nat]]
       /\ \A m \in Mutexes : owner'[m].by = Nil <=> owner'[m].depth = 0
       /\ addr' = addr /\ met' = met
  BY <1>1, <1>2
<1>17. \A u \in Threads : u # t => \A k \in Nodes, U \in Topics, V \in Subscribers :
         k \notin Fresh(mem) /\ Erases(u, "unsubscribe", U, V, k, todo[u], Depth(u)) /\ Told(mem, u, k)
           => Told(mem', u, k)
  BY <1>2
<1>18. \A u \in Threads : u # t => \A U \in Topics : First[U] = Local(u) => First'[U] = Local(u)
  BY <1>8
<1> QED BY <1>4, <1>5, <1>6, <1>9, <1>11, <1>12, <1>13, <1>14, <1>15, <1>16, <1>17, <1>18, Moves



-----------------------------------------------------------------------------
(* The steps together *)

\* What is known stays known.
LEMMA KnownStays ==
  ASSUME [Next]_vars, known' = {}
  PROVE  known = {}
<1>1. CASE UNCHANGED vars
  BY <1>1 DEF vars
<1>2. ASSUME NEW t \in Threads, Begin(t) \/ Step(t)
      PROVE  known = {}
  <2>1. CASE link(t)
    BY <2>1 DEF link
  <2>2. CASE erase(t)
    BY <2>2 DEF erase
  <2>3. CASE Begin(t)
    BY <2>3 DEF Begin
  <2>4. CASE lock(t) \/ unlock(t) \/ OrderRelock(t) \/ has_topic(t) \/ find(t) \/ all(t)
             \/ clear(t) \/ clear_next(t) \/ walk(t)
    <3>1. UNCHANGED known
      BY <2>4 DEF lock, unlock, OrderRelock, has_topic, find, all, clear, clear_next, walk
    <3> QED BY <3>1
  <2> QED BY <1>2, <2>1, <2>2, <2>3, <2>4 DEF Step
<1> QED BY <1>1, <1>2 DEF Next

\* Every step keeps the invariant.
LEMMA EveryStep ==
  ASSUME Sound, OnePublisher, [Next]_vars, known' = {}
  PROVE  Sound'
<1>1. CASE UNCHANGED vars
  <2>1. /\ addr' = addr /\ owner' = owner /\ mem' = mem /\ todo' = todo /\ calls' = calls /\ met' = met
    BY <1>1 DEF vars
  <2>2. First' = First /\ Linking' = Linking /\ New' = New /\ \A u \in Threads : Depth(u)' = Depth(u)
    BY <2>1 DEF First, FirstOf, Linking, New, Depth
  <2>3. Types' /\ Room' /\ Linked(mem, First)'
    BY <2>1, <2>2 DEF Sound, Types, Room
  <2>4. \A u \in Threads : Place(mem', u, First', todo'[u], Depth(u)')
    BY <2>1, <2>2 DEF Sound
  <2>5. ErasersKnown'
    BY <2>1, <2>2 DEF Sound, ErasersKnown
  <2> QED BY <2>3, <2>4, <2>5 DEF Sound
<1>2. ASSUME NEW t \in Threads, Begin(t) \/ Step(t)
      PROVE  Sound'
  <2>1. CASE Begin(t)
    BY <2>1, BeginStep
  <2>2. CASE lock(t)
    BY <2>2, LockStep
  <2>3. CASE unlock(t)
    BY <2>3, UnlockStep
  <2>4. CASE OrderRelock(t)
    BY <2>4, RelockStep
  <2>5. CASE has_topic(t)
    BY <2>5, HasTopicStep
  <2>6. CASE link(t)
    BY <2>6, LinkStep
  <2>7. CASE find(t)
    BY <2>7, FindStep
  <2>8. CASE erase(t)
    BY <2>8, EraseStep
  <2>9. CASE all(t)
    BY <2>9, AllStep
  <2>10. CASE clear(t)
    BY <2>10, ClearStep
  <2>11. CASE clear_next(t)
    BY <2>11, ClearNextStep
  <2>12. CASE walk(t)
    BY <2>12, WalkStep
  <2> QED BY <1>2, <2>1, <2>2, <2>3, <2>4, <2>5, <2>6, <2>7, <2>8, <2>9, <2>10, <2>11, <2>12 DEF Step
<1> QED BY <1>1, <1>2 DEF Next

\* The invariant is inductive, when one thread publishes.
LEMMA Inductive ==
  ASSUME OnePublisher, IInv, [Next]_vars
  PROVE  IInv'
<1>1. known' = {} => Sound'
  BY KnownStays, EveryStep DEF IInv
<1> QED BY <1>1 DEF IInv



-----------------------------------------------------------------------------
(* The subscriptions there are at first *)

\* Mathematical induction, stated with a set: a number left out would make `down'
\* an injection of a finite set into itself that misses one element.
LEMMA Induction ==
  ASSUME NEW S, 0 \in S, \A n \in Nat : n \in S => n + 1 \in S
  PROVE  \A n \in Nat : n \in S
<1> SUFFICES ASSUME NEW x \in Nat, x \notin S PROVE FALSE
  OBVIOUS
<1> DEFINE T == {y \in 0..x : y \notin S}
           down == [y \in T |-> y - 1]
<1>1. \A y \in T : y - 1 \in T
  <2> SUFFICES ASSUME NEW y \in 0..x, y \notin S PROVE y - 1 \in 0..x /\ y - 1 \notin S
    OBVIOUS
  <2>1. y # 0 /\ y - 1 \in Nat /\ (y - 1) + 1 = y
    OBVIOUS
  <2> QED BY <2>1
<1>2. IsFiniteSet(T)
  BY FS_Interval, FS_Subset, 0 \in Int, x \in Int
<1>3. down \in Injection(T, T)
  <2>1. down \in [T -> T]
    BY <1>1
  <2>2. \A a, b \in T : down[a] = down[b] => a = b
    OBVIOUS
  <2> HIDE DEF down, T
  <2> QED BY <2>1, <2>2 DEF Injection, IsInjective
<1>4. down \in Surjection(T, T)
  <2> HIDE DEF down, T
  <2> QED BY <1>2, <1>3, FS_Injection
<1>5. x \in T /\ x + 1 \notin T
  OBVIOUS
<1>6. PICK y \in T : down[y] = x
  <2> HIDE DEF down, T
  <2> QED BY <1>4, <1>5 DEF Surjection
<1> QED BY <1>5, <1>6

\* The lists as they are made, one subscription after the other.
MadeOf(g, i) ==
  IF i = 0 THEN Empty ELSE reserve_subscribe(g[i - 1], Before[i][1], Before[i][2], Before[i][3])
Makes(n, g) == g = [i \in 0..n |-> MadeOf(g, i)]

\* They can be made, however many.
LEMMA MakesExist == \A n \in Nat : \E g : Makes(n, g)
<1> DEFINE N == {n \in Nat : \E g : Makes(n, g)}
<1>1. 0 \in N
  <2> DEFINE g == [i \in 0..0 |-> Empty]
  <2>1. g = [i \in 0..0 |-> MadeOf(g, i)]
    BY DEF MadeOf
  <2> HIDE DEF g
  <2> QED BY <2>1 DEF Makes
<1>2. ASSUME NEW n \in Nat, n \in N PROVE n + 1 \in N
  <2>1. PICK g : Makes(n, g)
    BY <1>2
  <2> DEFINE h == [i \in 0..(n + 1) |-> MadeOf(g, i)]
  <2>2. \A i \in 0..n : h[i] = g[i]
    <3>1. \A i \in 0..n : g[i] = MadeOf(g, i)
      BY <2>1 DEF Makes
    <3>2. \A i \in 0..n : i \in 0..(n + 1)
      OBVIOUS
    <3> QED BY <3>1, <3>2
  <2>3. \A i \in 0..(n + 1) : MadeOf(h, i) = MadeOf(g, i)
    <3> HIDE DEF h
    <3>1. \A i \in 0..(n + 1) : i # 0 => h[i - 1] = g[i - 1]
      BY <2>2
    <3> QED BY <3>1 DEF MadeOf
  <2>4. h = [i \in 0..(n + 1) |-> MadeOf(h, i)]
    BY <2>3
  <2> HIDE DEF h
  <2> QED BY <2>4 DEF Makes
<1> HIDE DEF N
<1>3. \A n \in Nat : n \in N
  BY <1>1, <1>2, Induction
<1> QED BY <1>3 DEF N

\* The heads begin the lists, the tail of each that has a node is in it, nobody
\* is about to erase, and these nodes have not been used.
Heads == [T \in Topics |-> Head_(T)]
Prepared(m, left) ==
  /\ Linked(m, Heads)
  /\ \A T \in Topics : m.ptr[Head_(T)] # Nil => m.m_tail[T] \in OfTopic(m, T)
  /\ \A n \in Nodes : m.m_erasing_nodes[n] = {}
  /\ left \subseteq Fresh(m)

\* Before the first subscription the lists are empty.
LEMMA EmptyIs == Prepared(Empty, Nodes)
<1>1. /\ Nil \notin Nodes /\ Nil \notin Mutexes /\ Nil \notin Cell
  BY SubscriptionAssumption
<1>2. \A T \in Topics : T \in Mutexes /\ Head_(T) \in Cell
  BY CellKinds DEF Mutexes
<1>3. \A S \in Subscribers : S \in Mutexes /\ Head_(S) \in Cell
  BY CellKinds DEF Mutexes
<1>4. /\ Empty.ptr = [c \in Cell |-> Nil]
      /\ Empty.topic_prev = [n \in Nodes |-> Nil] /\ Empty.m_tail = [t \in Topics |-> Nil]
      /\ Empty.m_topic = [n \in Nodes |-> Nil] /\ Empty.m_subscriber = [n \in Nodes |-> Nil]
      /\ Empty.m_erasing_nodes = [n \in Nodes |-> {}]
  BY DEF Empty
<1>5. Empty \in Mem
  BY DEF Empty, Mem
<1>6. \A n \in Nodes : TopicNext(n) \in Cell
  BY CellKinds
<1> DEFINE e == Empty
<1>7. Firsts(Heads)
  BY <1>2, CellKinds DEF Firsts, Heads
<1>8. \A T \in Topics : OfTopic(e, T) = {}
  BY <1>1, <1>2, <1>4 DEF OfTopic
<1>9. \A S \in Subscribers : OfSub(e, S) = {}
  BY <1>1, <1>3, <1>4 DEF OfSub
<1>10. \A T \in Topics : List(e.ptr, e.topic_prev, TNext, Heads[T], OfTopic(e, T))
  <2> TAKE T \in Topics
  <2>1. e.ptr[Heads[T]] = Nil
    BY <1>2, <1>4 DEF Heads
  <2> QED BY <1>8, <2>1, ListEmpty
<1>11. \A S \in Subscribers : List(e.ptr, e.subscriber_prev, SNext, Head_(S), OfSub(e, S))
  <2> TAKE S \in Subscribers
  <2>1. e.ptr[Head_(S)] = Nil
    BY <1>3, <1>4
  <2> QED BY <1>9, <2>1, ListEmpty
<1>12. \A n \in Nodes : /\ e.m_topic[n] = Nil /\ e.m_subscriber[n] = Nil /\ e.topic_prev[n] = Nil
                        /\ e.ptr[TopicNext(n)] = Nil /\ e.m_erasing_nodes[n] = {}
  BY <1>4, <1>6
<1>13. \A T \in Topics : e.m_tail[T] = Nil /\ e.ptr[Head_(T)] = Nil
  BY <1>2, <1>4
<1>14. Linked(e, Heads)
  <2> HIDE DEF e
  <2>1. e \in Mem
    BY <1>5 DEF e
  <2>2. \A n \in Fresh(e) : n \in Nodes
    BY DEF Fresh
  <2> QED BY <1>7, <1>10, <1>11, <1>12, <1>13, <2>1, <2>2 DEF Linked
<1>15. Nodes \subseteq Fresh(e)
  BY <1>12 DEF Fresh
<1> QED BY <1>12, <1>13, <1>14, <1>15 DEF Prepared

\* One more subscription.
LEMMA OneMore ==
  ASSUME NEW m, NEW left, Prepared(m, left), NEW n \in left, NEW T \in Topics, NEW S \in Subscribers
  PROVE  Prepared(reserve_subscribe(m, n, T, S), left \ {n})
<1> DEFINE m2 == reserve_subscribe(m, n, T, S)
<1>1. /\ Linked(m, Heads) /\ n \in Fresh(m) /\ n \in Nodes /\ m \in Mem /\ m.m_topic[n] = Nil
      /\ \A U \in Topics : m.ptr[Head_(U)] # Nil => m.m_tail[U] \in OfTopic(m, U)
      /\ \A k \in Nodes : m.m_erasing_nodes[k] = {}
      /\ left \subseteq Fresh(m)
  BY DEF Prepared, Linked, Fresh
<1>2. Behind(m, T) \in Cells(TNext, Heads[T], OfTopic(m, T))
  <2>1. CASE m.ptr[Head_(T)] = Nil
    BY <2>1 DEF Behind, Heads, Cells
  <2>2. CASE m.ptr[Head_(T)] # Nil
    <3>1. m.m_tail[T] \in OfTopic(m, T) /\ m.m_tail[T] \in Nodes
      BY <1>1, <2>2 DEF OfTopic
    <3>2. TNext[m.m_tail[T]] = TopicNext(m.m_tail[T])
      BY <3>1 DEF TNext
    <3>3. Behind(m, T) = TNext[m.m_tail[T]]
      BY <2>2, <3>2 DEF Behind
    <3> QED BY <3>1, <3>3 DEF Cells
  <2> QED BY <2>1, <2>2
<1>3. Linked(m2, Heads) /\ Fresh(m2) = Fresh(m) \ {n}
  BY <1>1, <1>2, Reserved
<1>4. /\ m2.m_erasing_nodes = m.m_erasing_nodes
      /\ \A U \in Topics : m2.m_tail[U] = IF U = T THEN n ELSE m.m_tail[U]
      /\ \A c \in Cell : m2.ptr[c] = IF c = Head_(S) THEN n
                                     ELSE IF c = SubNext(n) THEN m.ptr[Head_(S)]
                                     ELSE IF c = Behind(m, T) THEN n ELSE m.ptr[c]
      /\ \A x \in Nodes : m2.m_topic[x] = IF x = n THEN T ELSE m.m_topic[x]
  BY <1>1, ReserveIs
<1> HIDE DEF m2
<1>5. ASSUME NEW U \in Topics, m2.ptr[Head_(U)] # Nil
      PROVE  m2.m_tail[U] \in OfTopic(m2, U)
  <2>1. CASE U = T
    BY <1>1, <1>4, <2>1 DEF OfTopic
  <2>2. CASE U # T
    <3>1. U \in Mutexes /\ S # U /\ Nil # U
      BY SubscriptionAssumption DEF Mutexes
    <3>2. Head_(U) \in Cell /\ Head_(U) # Head_(S) /\ Head_(U) # SubNext(n) /\ Head_(U) # Behind(m, T)
      BY <2>2, <3>1, CellKinds DEF Behind
    <3>3. m2.ptr[Head_(U)] = m.ptr[Head_(U)]
      BY <1>4, <3>2
    <3>4. m.m_tail[U] \in Nodes /\ m.m_topic[m.m_tail[U]] = U /\ m.m_tail[U] # n
      BY <1>1, <1>5, <3>1, <3>3 DEF OfTopic
    <3>5. m2.m_tail[U] = m.m_tail[U]
      BY <1>4, <2>2
    <3> QED BY <1>4, <3>4, <3>5 DEF OfTopic
  <2> QED BY <2>1, <2>2
<1> QED BY <1>1, <1>3, <1>4, <1>5 DEF Prepared, m2

\* So the lists are good at first.
LEMMA AtFirstIs == Prepared(AtFirst, {})
<1> DEFINE L == Len(Before)
           g == CHOOSE f : Makes(L, f)
           left(i) == {Before[j][1] : j \in (i + 1)..L}
<1>1. /\ Before \in Seq(Nodes \X Topics \X Subscribers) /\ L \in Nat /\ DOMAIN Before = 1..L
      /\ \A i, j \in 1..L : Before[i][1] = Before[j][1] => i = j
  BY SubscriptionAssumption
<1>2. AtFirst = g[L]
  BY DEF AtFirst, Makes, MadeOf
<1>3. Makes(L, g)
  BY <1>1, MakesExist
<1> HIDE DEF g
<1>4. \A i \in 0..L : g[i] = MadeOf(g, i)
  BY <1>3 DEF Makes
<1> DEFINE N == {i \in Nat : i <= L => Prepared(g[i], left(i))}
<1>5. 0 \in N
  <2>1. g[0] = Empty
    BY <1>1, <1>4 DEF MadeOf
  <2>2. left(0) \subseteq Nodes
    BY <1>1
  <2> HIDE DEF left
  <2>3. Prepared(Empty, left(0))
    BY <2>2, EmptyIs DEF Prepared
  <2> QED BY <2>1, <2>3
<1>6. ASSUME NEW i \in Nat, i \in N PROVE i + 1 \in N
  <2> SUFFICES ASSUME i + 1 <= L PROVE Prepared(g[i + 1], left(i + 1))
    OBVIOUS
  <2>1. Prepared(g[i], left(i)) /\ i + 1 \in 1..L /\ i + 1 \in 0..L /\ (i + 1) - 1 = i
    BY <1>1, <1>6
  <2> DEFINE n == Before[i + 1][1]
             T == Before[i + 1][2]
             S == Before[i + 1][3]
  <2>2. g[i + 1] = reserve_subscribe(g[i], n, T, S)
    BY <1>4, <2>1 DEF MadeOf
  <2>3. n \in left(i) /\ T \in Topics /\ S \in Subscribers
    BY <1>1, <2>1
  <2>4. left(i + 1) = left(i) \ {n}
    <3>1. \A j \in (i + 1)..L : j = i + 1 \/ j \in (i + 1 + 1)..L
      BY <1>1
    <3>2. \A j \in (i + 1 + 1)..L : j \in (i + 1)..L /\ j \in 1..L /\ j # i + 1
      BY <1>1
    <3>3. \A j \in (i + 1 + 1)..L : Before[j][1] # n
      BY <1>1, <2>1, <3>2
    <3> QED BY <3>1, <3>2, <3>3
  <2> HIDE DEF n, T, S, left
  <2>5. Prepared(reserve_subscribe(g[i], n, T, S), left(i) \ {n})
    BY <2>1, <2>3, OneMore
  <2> QED BY <2>2, <2>4, <2>5
<1> HIDE DEF N
<1>7. L \in N
  BY <1>1, <1>5, <1>6, Induction
<1>8. Prepared(g[L], left(L))
  BY <1>1, <1>7 DEF N
<1> QED BY <1>2, <1>8 DEF Prepared


\* The invariant holds at first.
LEMMA Begun ==
  ASSUME Init
  PROVE  Sound
<1>1. /\ addr \in Addresses /\ owner = [x \in Mutexes |-> [by |-> Nil, depth |-> 0]]
      /\ mem = AtFirst /\ todo = [t \in Threads |-> <<>>] /\ calls = 0 /\ met = {}
  BY DEF Init
<1>2. /\ Linked(mem, Heads) /\ \A n \in Nodes : mem.m_erasing_nodes[n] = {}
  BY <1>1, AtFirstIs DEF Prepared
<1>3. \A T \in Topics, t \in Threads : ~Clearing(T, todo[t])
  BY <1>1, Clearings
<1>4. First = Heads
  <2>1. ASSUME NEW T \in Topics PROVE FirstOf(T) = Head_(T)
    <3>1. {t \in Threads : Clearing(T, todo[t])} = {}
      BY <1>3
    <3> QED BY <3>1 DEF FirstOf, Clearing, Occurs
  <2> QED BY <2>1 DEF First, Heads
<1>5. Types
  <2>1. <<>> \in Seq(Op)
    OBVIOUS
  <2>2. MaxCalls \in Nat
    BY SubscriptionAssumption
  <2> QED BY <1>1, <2>1, <2>2 DEF Types
<1>6. Room
  <2>1. \A t \in Threads : ~ToLink(todo[t])
    BY <1>1, ToLinks
  <2>2. Linking = {}
    BY <2>1, LinkingIs
  <2>3. Cardinality(Linking) = 0
    BY <2>2, FS_EmptySet
  <2>4. IsFiniteSet(New)
    BY FS_Subset, SubscriptionAssumption DEF New
  <2>5. Cardinality(New) \in Nat
    BY <2>4, FS_CardinalityType
  <2> QED BY <2>3, <2>5 DEF Room
<1>7. ASSUME NEW t \in Threads PROVE Place(mem, t, First, todo[t], Depth(t))
  <2>1. Depth(t) = None
    <3>1. Nil # t
      BY SubscriptionAssumption
    <3> QED BY <1>1, <3>1 DEF Depth, None
  <2>2. Ends(todo[t], Depth(t))
    BY <1>1, <2>1 DEF Ends
  <2> QED BY <2>2 DEF Place
<1>8. ErasersKnown
  BY <1>2 DEF ErasersKnown
<1>9. Linked(mem, First)
  BY <1>2, <1>4
<1> QED BY <1>5, <1>6, <1>7, <1>8, <1>9 DEF Sound

-----------------------------------------------------------------------------
(* The theorems: one thread publishes, and erases topics *)

\* As long as none of the known faults has come to pass, the lists are good, the
\* threads are where their calls lead them, and those who are about to erase a
\* node are known to it.
THEOREM Soundness ==
  ASSUME OnePublisher
  PROVE  Spec => []IInv
<1>1. Init => IInv
  BY Begun DEF IInv
<1>2. IInv /\ [Next]_vars => IInv'
  BY Inductive
<1> QED BY <1>1, <1>2, PTL DEF Spec

\* The nodes of a topic are those in its list, and each knows the pointers that
\* lead to it, in its topic's list and in its subscriber's (Subscription.h).
THEOREM ListsAlwaysAgree ==
  ASSUME OnePublisher
  PROVE  Spec => []ListsAgree
<1>1. IInv => ListsAgree
  <2> SUFFICES ASSUME Sound, NEW T \in Topics
               PROVE  LET listed == Chain(mem, FirstOf(T), TopicNext)
                      IN  /\ listed = {n \in Nodes : mem.m_topic[n] = T}
                          /\ \A n \in listed :
                               /\ mem.ptr[mem.topic_prev[n]] = n
                               /\ owner[mem.m_subscriber[n]].by = Nil =>
                                    /\ n \in InSubscriber(mem, mem.m_subscriber[n])
                                    /\ mem.ptr[mem.subscriber_prev[n]] = n
    BY DEF ListsAgree, IInv
  <2> DEFINE f == First
  <2>1. Linked(mem, f) /\ FirstOf(T) = f[T]
    BY DEF Sound, First
  <2> HIDE DEF f
  <2>2. Chain(mem, f[T], TopicNext) = OfTopic(mem, T)
    BY <2>1, ChainIs
  <2>3. ASSUME NEW n \in OfTopic(mem, T)
        PROVE  /\ mem.ptr[mem.topic_prev[n]] = n /\ mem.ptr[mem.subscriber_prev[n]] = n
               /\ n \in InSubscriber(mem, mem.m_subscriber[n])
    <3>1. n \in Nodes /\ Live(mem, n)
      BY SubscriptionAssumption DEF OfTopic, Live, Mutexes
    <3>2. /\ mem.ptr[mem.topic_prev[n]] = n /\ mem.ptr[mem.subscriber_prev[n]] = n
          /\ mem.m_subscriber[n] \in Subscribers /\ n \in OfSub(mem, mem.m_subscriber[n])
      BY <2>1, <3>1, LiveNode
    <3>3. InSubscriber(mem, mem.m_subscriber[n]) = OfSub(mem, mem.m_subscriber[n])
      BY <2>1, <3>2, ChainIs
    <3> QED BY <3>2, <3>3
  <2> QED BY <2>1, <2>2, <2>3 DEF OfTopic
<1> QED BY <1>1, Soundness, PTL

\* The publish thread, which has the topic's mutex only, never comes to a node
\* whose subscriber has been taken from it (TopicServer.h, publish_new()).
THEOREM PublisherMeetsSubscribed ==
  ASSUME OnePublisher
  PROVE  Spec => []MeetsSubscribed
<1>1. IInv => MeetsSubscribed
  BY DEF IInv, Sound, Types, MeetsSubscribed
<1> QED BY <1>1, Soundness, PTL

\* A thread whose call has come to its end has no mutex left: every path through
\* OrderLock and OrderRelock (Mutex.h) gives back what it took.
NothingLeftLocked ==
  known = {} => \A t \in Threads : todo[t] = <<>> => \A m \in Mutexes : owner[m].by # t
\* A call that has ended has given back its mutexes.
THEOREM CallsGiveBack ==
  ASSUME OnePublisher
  PROVE  Spec => []NothingLeftLocked
<1>1. IInv => NothingLeftLocked
  <2> SUFFICES ASSUME Sound, NEW t \in Threads, todo[t] = <<>>, NEW m \in Mutexes, owner[m].by = t
               PROVE  FALSE
    BY DEF IInv, NothingLeftLocked
  <2> DEFINE f == First
             h == Depth(t)
  <2>1. Place(mem, t, f, <<>>, h)
    BY DEF Sound
  <2> HIDE DEF f, h
  <2>2. h = None
    BY <2>1, PlaceNone
  <2>3. owner[m].depth = 0
    BY <2>2 DEF h, Depth, None
  <2>4. t = Nil
    BY <2>3 DEF Sound, Types
  <2> QED BY <2>4, SubscriptionAssumption
<1> QED BY <1>1, Soundness, PTL


\* Who has both mutexes.
LEMMA HasBoth ==
  ASSUME NEW t \in Threads, NEW a \in Mutexes, NEW b \in Mutexes, NEW d \in Nat \ {0}, a # b,
         Depth(t) = Both(a, d, b)
  PROVE  owner[a].by = t /\ owner[b].by = t
<1>1. Depth(t)[a] = d /\ Depth(t)[b] = 1
  BY DEF Both
<1> QED BY <1>1 DEF Depth

\* A thread that links a node has both mutexes, ...
LEMMA LinkLocks ==
  ASSUME Sound, NEW t \in Threads, link(t), NEW k \in Nodes, mem.m_topic[k] # mem'.m_topic[k]
  PROVE  \E T \in Topics, S \in Subscribers :
           mem'.m_topic[k] = T /\ mem'.m_subscriber[k] = S /\ owner[T].by = t /\ owner[S].by = t
<1> DEFINE x == todo[t][1]
           r == Tail(todo[t])
<1>1. Does(t, "link") /\ Linked(mem, First) /\ mem \in Mem /\ Room
  BY DEF link, Sound, Linked
<1>2. x \in Op /\ r \in Seq(Op) /\ x[1] = "link" /\ todo[t] = x ** r
  BY <1>1, Readies
<1>3. Ready(mem, t, First, x, r, Depth(t))
  BY <1>1, Readies
<1>4. PICK T \in Topics, S \in Subscribers : x = <<"link", T, S>> /\ Depth(t) = Both(T, 1, S)
  BY <1>2, <1>3 DEF Ready
<1>5. T \in Mutexes /\ S \in Mutexes /\ T # S /\ Arg(t, 2) = T /\ Arg(t, 3) = S
  BY <1>4, SubscriptionAssumption DEF Arg, Mutexes
<1>6. owner[T].by = t /\ owner[S].by = t
  BY <1>4, <1>5, HasBoth
<1>7. ToLink(todo[t])
  <2> HIDE DEF x, r
  <2> QED BY <1>2, ToLinks
<1>8. New # {} /\ New \subseteq Nodes
  <2>1. IsFiniteSet(Linking) /\ IsFiniteSet(New) /\ t \in Linking
    BY <1>7, LinkingIs, FS_Subset, SubscriptionAssumption DEF Fresh
  <2>2. Cardinality(Linking) \in Nat /\ Cardinality(New) \in Nat /\ Cardinality(Linking) # 0
    BY <2>1, FS_CardinalityType, FS_EmptySet
  <2>3. Cardinality(New) # 0
    BY <1>1, <2>2 DEF Room
  <2>4. New # {}
    BY <2>1, <2>3, FS_EmptySet
  <2> QED BY <2>4 DEF New
<1> DEFINE n == CHOOSE o \in New : TRUE
<1>9. n \in Nodes
  BY <1>8
<1>10. mem' = reserve_subscribe(mem, n, T, S)
  BY <1>5 DEF link
<1> HIDE DEF n
<1> DEFINE m2 == mem'
<1>11. m2 = reserve_subscribe(mem, n, T, S)
  BY <1>10
<1> HIDE DEF m2
<1>12. \A o \in Nodes : /\ m2.m_topic[o] = IF o = n THEN T ELSE mem.m_topic[o]
                        /\ m2.m_subscriber[o] = IF o = n THEN S ELSE mem.m_subscriber[o]
  BY <1>1, <1>9, <1>11, ReserveIs
<1>13. k = n
  BY <1>12 DEF m2
<1> QED BY <1>6, <1>12, <1>13 DEF m2

\* and so has one that unlinks a node.
LEMMA EraseLocks ==
  ASSUME Sound, NEW t \in Threads, erase(t), known' = {}, NEW k \in Nodes, mem.m_topic[k] # mem'.m_topic[k]
  PROVE  \E T \in Topics, S \in Subscribers :
           mem.m_topic[k] = T /\ mem.m_subscriber[k] = S /\ owner[T].by = t /\ owner[S].by = t
<1> DEFINE x == todo[t][1]
           r == Tail(todo[t])
<1>1. Does(t, "erase") /\ Linked(mem, First) /\ mem \in Mem
  BY DEF erase, Sound, Linked
<1>2. x \in Op /\ r \in Seq(Op) /\ x[1] = "erase" /\ todo[t] = x ** r
  BY <1>1, Readies
<1>3. Ready(mem, t, First, x, r, Depth(t))
  BY <1>1, Readies
<1>4. PICK T \in Topics, S \in Subscribers, job \in Jobs, n \in Nodes :
        /\ x = <<"erase", CellOf(job, t, S), n>>
        /\ Depth(t) = Both(Own(job, T, S), Times(job), Other(job, T, S))
        /\ Was(mem, n, T, S)
        /\ Clears(job) => First[T] = Local(t)
        /\ job = "unsubscribe" => Told(mem, t, n)
  BY <1>2, <1>3 DEF Ready
<1> DEFINE c == CellOf(job, t, S)
<1>5. Arg(t, 2) = c /\ Arg(t, 3) = n
  BY <1>4 DEF Arg
<1>6. mem' = unsubscribe(mem, n) /\ mem.ptr[c] = n
  BY <1>5 DEF erase
<1>7. Nil \notin Nodes /\ Nil \notin Mutexes /\ T \in Mutexes /\ S \in Mutexes
  BY SubscriptionAssumption DEF Mutexes
<1>8. Live(mem, n)
  <2>1. CASE job = "unsubscribe"
    BY <1>4, <1>6, <1>7, <2>1 DEF CellOf, Told
  <2>2. CASE job = "unsubscribe_all"
    <3>1. n \in OfSub(mem, S)
      BY <1>1, <1>6, <1>7, <2>2 DEF Linked, List, Cells, CellOf
    <3> QED BY <1>1, <1>7, <3>1 DEF OfSub, Linked, Live
  <2>3. CASE Clears(job)
    <3> DEFINE f == First
    <3>1. Linked(mem, f) /\ f[T] = c
      BY <1>1, <1>4, <2>3 DEF CellOf, Clears
    <3> HIDE DEF f, c
    <3>2. n \in OfTopic(mem, T)
      BY <1>6, <1>7, <3>1 DEF Linked, List, Cells
    <3> QED BY <1>7, <3>2 DEF OfTopic, Live
  <2> QED BY <2>1, <2>2, <2>3 DEF Jobs, Clears
<1> DEFINE m2 == mem'
           f == First
<1>9. m2 = unsubscribe(mem, n) /\ Linked(mem, f)
  BY <1>1, <1>6
<1> HIDE DEF m2, f
<1>10. \A o \in Nodes : m2.m_topic[o] = IF o = n THEN Nil ELSE mem.m_topic[o]
  BY <1>8, <1>9, UnsubscribeIs
<1>11. k = n
  BY <1>10 DEF m2
<1>12. mem.m_topic[n] = T /\ mem.m_subscriber[n] = S
  <2>1. mem.m_topic[n] # Nil /\ mem.m_subscriber[n] # Nil
    BY <1>8, <1>9 DEF Live, Linked
  <2> QED BY <1>4, <2>1 DEF Was
<1>13. owner[T].by = t /\ owner[S].by = t
  <2> DEFINE a == Own(job, T, S)
             b == Other(job, T, S)
             d == Times(job)
  <2>1. a \in Mutexes /\ b \in Mutexes /\ a # b /\ d \in Nat \ {0} /\ Depth(t) = Both(a, d, b)
    BY <1>4, Rests
  <2>2. {a, b} = {T, S}
    BY DEF Own, Other
  <2> HIDE DEF a, b, d
  <2>3. owner[a].by = t /\ owner[b].by = t
    BY <2>1, HasBoth
  <2> QED BY <2>2, <2>3
<1> QED BY <1>11, <1>12, <1>13

\* A node is linked and unlinked by a thread that has both its topic's mutex and
\* its subscriber's (reserve_subscribe(), unsubscribe(), clear()).
THEOREM LinkedUnderBothLocks ==
  ASSUME OnePublisher
  PROVE  Spec => BothLocked
<1>1. IInv /\ [Next]_vars => [known' = {} => \A n \in Nodes : mem.m_topic[n] # mem'.m_topic[n] =>
        \E t \in Threads, topic \in {mem.m_topic[n], mem'.m_topic[n]} \ {Nil},
           sub \in {mem.m_subscriber[n], mem'.m_subscriber[n]} \ {Nil} :
          owner[topic].by = t /\ owner[sub].by = t]_vars
  <2> SUFFICES ASSUME IInv, Next, known' = {}, NEW n \in Nodes, mem.m_topic[n] # mem'.m_topic[n]
               PROVE  \E t \in Threads, topic \in {mem.m_topic[n], mem'.m_topic[n]} \ {Nil},
                         sub \in {mem.m_subscriber[n], mem'.m_subscriber[n]} \ {Nil} :
                        owner[topic].by = t /\ owner[sub].by = t
    OBVIOUS
  <2>1. Sound
    BY KnownStays DEF IInv
  <2>2. PICK t \in Threads : Begin(t) \/ Step(t)
    BY DEF Next
  <2>3. Nil \notin Topics /\ Nil \notin Subscribers
    BY SubscriptionAssumption DEF Mutexes
  <2>4. CASE link(t)
    BY <2>1, <2>3, <2>4, LinkLocks
  <2>5. CASE erase(t)
    BY <2>1, <2>3, <2>5, EraseLocks
  <2>6. mem \in Mem
    BY <2>1 DEF Sound, Linked
  <2>7. CASE Begin(t) \/ lock(t) \/ unlock(t) \/ OrderRelock(t) \/ has_topic(t) \/ all(t) \/ walk(t)
    <3>1. mem' = mem
      BY <2>7 DEF Begin, lock, unlock, OrderRelock, has_topic, all, walk
    <3> QED BY <3>1
  <2>8. CASE find(t)
    <3>1. mem'.m_topic = mem.m_topic
      BY <2>6, <2>8 DEF find, Mem
    <3> QED BY <3>1
  <2>9. CASE clear(t)
    <3>1. mem'.m_topic = mem.m_topic
      BY <2>6, <2>9 DEF clear, Mem
    <3> QED BY <3>1
  <2>10. CASE clear_next(t)
    <3>1. mem'.m_topic = mem.m_topic
      BY <2>6, <2>10 DEF clear_next, Mem
    <3> QED BY <3>1
  <2> QED BY <2>2, <2>4, <2>5, <2>7, <2>8, <2>9, <2>10 DEF Step
<1> QED BY <1>1, Soundness, PTL DEF BothLocked, Spec

\* The variables have their types, the pointers of the lists among them.
TypesWhileGood == known = {} => TypeOK
\* The types of the variables, while the lists are good.
THEOREM TypesHold ==
  ASSUME OnePublisher
  PROVE  Spec => []TypesWhileGood
<1>1. IInv => TypesWhileGood
  <2> SUFFICES ASSUME Sound PROVE TypeOK
    BY DEF IInv, TypesWhileGood
  <2>1. Types /\ mem \in Mem
    BY DEF Sound, Linked
  <2>2. \A m \in Mutexes : owner[m].by \in Threads \cup {Nil} /\ (owner[m].by = Nil <=> owner[m].depth = 0)
    BY <2>1 DEF Types
  <2> QED BY <2>1, <2>2 DEF Types, Mem, TypeOK
<1> QED BY <1>1, Soundness, PTL

=============================================================================
