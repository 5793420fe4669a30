-------------------------- MODULE TopicServerProofs --------------------------
(***************************************************************************)
(* Theorems about one topic of the topic server, for any number of          *)
(* publishers, subscribers, contents and tasks.                             *)
(***************************************************************************)
EXTENDS TopicServer, FiniteSetTheorems, SequenceTheorems, TLAPS

-----------------------------------------------------------------------------
(* The inductive invariant *)

\* The subscriptions a subscriber has made are its first ones.
Counted ==
  /\ \A x \in Subscribed : x[2] <= count[x[1]]
  /\ \A s \in Subscribers :
       /\ spc[s] = "got" => count[s] < MaxSubs
       /\ spc[s] = "reserved" => count[s] >= 1

\* What the publish thread has in hand, by where it is.
PublishThread ==
  /\ pub.at = "idle" => pub = Resting
  /\ MutexFree => pub.left = <<>>
  /\ pub.at \in {"lock", "tell"} => pub.set # <<>>
  /\ pub.at \in {"lock_clear", "tell_clear"} => pub.set = <<>> /\ m_snap = <<>>
  /\ IsInjective(pub.left)

\* How many contents the publish thread has taken.
Taken == published - Len(m_new)

\* The contents it has not taken are the last ones, ...
NewAreLast ==
  /\ kind # "set" =>
       Len(m_new) <= published /\ \A i \in DOMAIN m_new : m_new[i] = Taken + i
  /\ kind = "one" => Len(m_new) <= 1
\* ... and a OneTopic keeps one that it has taken.
OneKept ==
  kind = "one" => Len(m_snap) <= 1 /\ \A i \in DOMAIN m_snap : m_snap[i] <= Taken

\* What a SetTopic is about: what is on the way ends with the object.
SetKept ==
  kind = "set" =>
    /\ Len(m_objects) <= 1
    /\ \A i \in DOMAIN m_objects : m_objects[i] <= published /\ m_objects[i] \notin removed
    /\ \A i \in DOMAIN m_new : m_new[i] <= published
    /\ \A c \in removed : c <= published
    /\ m_new # <<>> => ObjectAfter(m_new) = m_objects
    /\ m_new = <<>> => Snap = m_objects
    /\ m_new = <<>> /\ pub.at \in {"lock", "tell"} => ObjectAfter(pub.set) = m_objects

\* What a working subscription was told, with what is being told to it.
Listening == working \cap ToSet(subs)
Telling(x) == log[x] \o Owed(x)
SeqTold(told, clearing) == clearing \/ told = m_snap
PopTold(told, clearing) ==
  /\ \A i \in 1..(Len(told) - 1) : told[i + 1] = told[i] + 1
  /\ clearing \/ told = <<>> \/ Last(told) = Taken
OneTold(told, clearing) ==
  /\ \A i, j \in DOMAIN told : i < j => told[i] < told[j]
  /\ \A i \in DOMAIN told : told[i] <= Taken
  /\ clearing \/ m_snap = <<>> \/ (told # <<>> /\ Last(told) = Last(m_snap))
SetTold(told, owed, clearing) ==
  m_new = <<>> /\ owed = <<>> /\ ~clearing => told = m_objects
InStep ==
  \A x \in Listening :
    /\ kind = "seq" => SeqTold(Telling(x), Clearing(x))
    /\ kind = "pop" => PopTold(Telling(x), Clearing(x))
    /\ kind = "one" => OneTold(Telling(x), Clearing(x))
    /\ kind = "set" => SetTold(log[x], Owed(x), Clearing(x))

IInv ==
  /\ TypeOK /\ Counted /\ PublishThread /\ NewAreLast /\ OneKept /\ SetKept
  /\ InStep /\ TellsSubscribersOnly /\ NewHasTask
-----------------------------------------------------------------------------
(* Sequences without repetition *)

\* The elements of a sequence.
LEMMA SetOf ==
  ASSUME NEW S, NEW s \in Seq(S)
  PROVE  /\ ToSet(s) \subseteq S
         /\ ToSet(s) = {} <=> s = <<>>
         /\ \A e : e \in ToSet(s) <=> \E i \in 1..Len(s) : s[i] = e
<1>1. DOMAIN s = 1..Len(s) /\ Len(s) \in Nat /\ \A i \in 1..Len(s) : s[i] \in S
  BY LenProperties, ElementOfSeq
<1>2. \A e : e \in ToSet(s) <=> \E i \in 1..Len(s) : s[i] = e
  BY <1>1 DEF ToSet
<1>3. ToSet(s) \subseteq S
  BY <1>1, <1>2
<1>4. s # <<>> => 1 \in 1..Len(s)
  BY EmptySeq, <1>1
<1>5. s = <<>> => Len(s) = 0
  BY EmptySeq
<1>6. ToSet(s) = {} <=> s = <<>>
  <2>1. s # <<>> => s[1] \in ToSet(s)
    BY <1>2, <1>4
  <2>2. s = <<>> => \A e : e \notin ToSet(s)
    BY <1>2, <1>5
  <2> QED BY <2>1, <2>2
<1> QED BY <1>2, <1>3, <1>6

\* The last element of a sequence.
LEMMA LastOf ==
  ASSUME NEW S, NEW s \in Seq(S), s # <<>>
  PROVE  /\ Last(s) \in S /\ Last(s) = s[Len(s)]
         /\ Len(s) \in Nat /\ Len(s) >= 1 /\ Len(s) \in DOMAIN s
<1>1. Len(s) \in Nat /\ Len(s) # 0 /\ DOMAIN s = 1..Len(s)
  BY EmptySeq, LenProperties
<1>2. Len(s) \in 1..Len(s)
  BY <1>1
<1>3. s[Len(s)] \in S
  BY <1>2, ElementOfSeq
<1> QED BY <1>1, <1>2, <1>3 DEF Last

\* A sequence of one element.
LEMMA OneElement ==
  ASSUME NEW S, NEW e \in S
  PROVE  /\ <<e>> \in Seq(S) /\ Len(<<e>>) = 1 /\ <<e>>[1] = e /\ <<e>> # <<>>
         /\ DOMAIN <<e>> = {1} /\ Last(<<e>>) = e
  BY DEF Last

\* A sequence of at most one element.
LEMMA Short ==
  ASSUME NEW S, NEW s \in Seq(S), Len(s) <= 1
  PROVE  s = <<>> \/ (Len(s) = 1 /\ DOMAIN s = {1} /\ s # <<>> /\ Last(s) = s[1] /\ s = <<s[1]>>)
<1>1. Len(s) \in Nat /\ DOMAIN s = 1..Len(s) /\ (s # <<>> => Len(s) # 0)
  BY EmptySeq, LenProperties
<1>2. CASE Len(s) = 0
  BY <1>1, <1>2
<1>3. CASE Len(s) = 1
  <2>1. DOMAIN s = {1} /\ s # <<>>
    BY <1>1, <1>3
  <2>2. s[1] \in S
    BY <1>3, ElementOfSeq
  <2>3. s = <<s[1]>>
    BY <1>3, <2>2, SeqEqual, OneElement
  <2> QED BY <1>3, <2>1, <2>3 DEF Last
<1> QED BY <1>1, <1>2, <1>3

\* The empty sequence repeats nothing,
LEMMA InjectiveEmpty == IsInjective(<<>>)
  BY DEF IsInjective

\* nor does one to which something new is appended,
LEMMA InjectiveAppend ==
  ASSUME NEW S, NEW s \in Seq(S), NEW e \in S
  PROVE  /\ Append(s, e) \in Seq(S)
         /\ ToSet(Append(s, e)) = ToSet(s) \cup {e}
         /\ IsInjective(s) /\ e \notin ToSet(s) => IsInjective(Append(s, e))
<1>1. /\ Append(s, e) \in Seq(S)
      /\ DOMAIN s = 1..Len(s) /\ DOMAIN Append(s, e) = 1..(Len(s) + 1)
      /\ \A i \in 1..Len(s) : Append(s, e)[i] = s[i]
      /\ Append(s, e)[Len(s) + 1] = e /\ Len(s) \in Nat
  BY AppendProperties, LenProperties
<1>2. ToSet(Append(s, e)) = ToSet(s) \cup {e}
  <2>1. \A i \in 1..Len(s) : i \in 1..(Len(s) + 1)
    BY <1>1
  <2>2. \A i \in 1..(Len(s) + 1) : i \in 1..Len(s) \/ i = Len(s) + 1
    BY <1>1
  <2>3. Len(s) + 1 \in 1..(Len(s) + 1)
    BY <1>1
  <2> QED BY <1>1, <2>1, <2>2, <2>3 DEF ToSet
<1>3. IsInjective(s) /\ e \notin ToSet(s) => IsInjective(Append(s, e))
  BY <1>1, SetOf DEF IsInjective
<1> QED BY <1>1, <1>2, <1>3

\* nor one without its first element,
LEMMA InjectiveTail ==
  ASSUME NEW S, NEW s \in Seq(S), s # <<>>, IsInjective(s)
  PROVE  /\ Tail(s) \in Seq(S) /\ Head(s) \in ToSet(s)
         /\ ToSet(Tail(s)) = ToSet(s) \ {Head(s)}
         /\ IsInjective(Tail(s))
<1>1. /\ Tail(s) \in Seq(S) /\ Len(s) \in Nat /\ Len(s) >= 1
      /\ Len(Tail(s)) = Len(s) - 1 /\ Head(s) = s[1]
      /\ \A i \in 1..(Len(s) - 1) : Tail(s)[i] = s[i + 1]
      /\ DOMAIN s = 1..Len(s) /\ DOMAIN Tail(s) = 1..(Len(s) - 1)
  BY HeadTailProperties, LenProperties
<1>2. Head(s) \in ToSet(s)
  BY <1>1, SetOf
<1>3. \A i \in 1..(Len(s) - 1) : Tail(s)[i] \in ToSet(s) \ {Head(s)}
  BY <1>1, SetOf DEF IsInjective
<1>4. \A e \in ToSet(s) \ {Head(s)} : e \in ToSet(Tail(s))
  <2> SUFFICES ASSUME NEW e \in ToSet(s) \ {Head(s)}
               PROVE  e \in ToSet(Tail(s))
    OBVIOUS
  <2>1. PICK i \in 1..Len(s) : s[i] = e
    BY SetOf
  <2>2. i - 1 \in 1..(Len(s) - 1) /\ Tail(s)[i - 1] = e
    BY <2>1, <1>1
  <2> QED BY <2>2, <1>1 DEF ToSet
<1>5. ToSet(Tail(s)) \subseteq ToSet(s) \ {Head(s)}
  BY <1>1, <1>3 DEF ToSet
<1>6. IsInjective(Tail(s))
  BY <1>1 DEF IsInjective
<1> QED BY <1>1, <1>2, <1>4, <1>5, <1>6

\* nor one from which an element is taken.
LEMMA InjectiveRemove ==
  ASSUME NEW S, NEW s \in Seq(S), NEW k \in DOMAIN s, IsInjective(s)
  PROVE  /\ RemoveAt(s, k) \in Seq(S)
         /\ ToSet(RemoveAt(s, k)) = ToSet(s) \ {s[k]}
         /\ IsInjective(RemoveAt(s, k))
<1>1. k \in 1..Len(s) /\ Len(s) \in Nat /\ DOMAIN s = 1..Len(s)
  BY LenProperties
<1> DEFINE a == SubSeq(s, 1, k - 1)
           b == SubSeq(s, k + 1, Len(s))
           r == RemoveAt(s, k)
<1>2. /\ a \in Seq(S) /\ Len(a) = k - 1
      /\ \A i \in 1..(k - 1) : a[i] = s[i]
  <2>1. \A i \in 1..(k - 1) : s[i] \in S
    BY <1>1, ElementOfSeq
  <2>2. 1 \in Int /\ k - 1 \in Int
    BY <1>1
  <2> QED BY <1>1, <2>1, <2>2, SubSeqProperties
<1>3. /\ b \in Seq(S) /\ Len(b) = Len(s) - k
      /\ \A i \in 1..(Len(s) - k) : b[i] = s[k + i]
  <2>1. \A i \in (k + 1)..Len(s) : s[i] \in S
    BY <1>1, ElementOfSeq
  <2>2. k + 1 \in Int /\ Len(s) \in Int
    BY <1>1
  <2> QED BY <1>1, <2>1, <2>2, SubSeqProperties
<1> HIDE DEF a, b
<1>4. r = a \o b
  BY DEF r, RemoveAt, a, b
<1>5. /\ r \in Seq(S) /\ DOMAIN r = 1..(Len(s) - 1)
      /\ \A i \in 1..(Len(s) - 1) : r[i] = IF i < k THEN s[i] ELSE s[i + 1]
  <2> HIDE DEF r
  <2>1. /\ r \in Seq(S) /\ Len(r) = Len(s) - 1
        /\ \A i \in 1..(Len(s) - 1) : r[i] = IF i <= k - 1 THEN a[i] ELSE b[i - (k - 1)]
    <3>1. /\ a \o b \in Seq(S) /\ Len(a \o b) = Len(a) + Len(b)
          /\ \A i \in 1..(Len(a) + Len(b)) :
               (a \o b)[i] = IF i <= Len(a) THEN a[i] ELSE b[i - Len(a)]
      BY <1>2, <1>3, ConcatProperties
    <3>2. Len(a) + Len(b) = Len(s) - 1
      BY <1>1, <1>2, <1>3
    <3> QED BY <3>1, <3>2, <1>2, <1>4
  <2>2. \A i \in 1..(Len(s) - 1) : i <= k - 1 => i \in 1..(k - 1) /\ i < k
    BY <1>1
  <2>3. \A i \in 1..(Len(s) - 1) : ~(i <= k - 1) =>
          i - (k - 1) \in 1..(Len(s) - k) /\ k + (i - (k - 1)) = i + 1 /\ ~(i < k)
    BY <1>1
  <2> QED BY <2>1, <2>2, <2>3, <1>2, <1>3, LenProperties
<1> HIDE DEF r
<1>6. \A i \in 1..(Len(s) - 1) : r[i] \in ToSet(s) \ {s[k]}
  <2>1. \A i \in 1..(Len(s) - 1) :
          \E j \in 1..Len(s) : r[i] = s[j] /\ j # k
    BY <1>1, <1>5
  <2> QED BY <2>1, <1>1, SetOf DEF IsInjective
<1>7. \A e \in ToSet(s) \ {s[k]} : e \in ToSet(r)
  <2> SUFFICES ASSUME NEW e \in ToSet(s) \ {s[k]}
               PROVE  \E j \in DOMAIN r : r[j] = e
    BY DEF ToSet
  <2>1. PICK i \in 1..Len(s) : s[i] = e
    BY SetOf
  <2>2. CASE i < k
    BY <2>1, <2>2, <1>1, <1>5
  <2>3. CASE i > k
    <3>1. i - 1 \in 1..(Len(s) - 1) /\ r[i - 1] = e
      BY <2>1, <2>3, <1>1, <1>5
    <3> QED BY <3>1, <1>5
  <2> QED BY <2>1, <2>2, <2>3, <1>1
<1>8. IsInjective(r)
  <2> SUFFICES ASSUME NEW i \in 1..(Len(s) - 1), NEW j \in 1..(Len(s) - 1), r[i] = r[j]
               PROVE  i = j
    BY <1>5 DEF IsInjective
  <2>1. /\ i \in 1..Len(s) /\ i + 1 \in 1..Len(s)
        /\ j \in 1..Len(s) /\ j + 1 \in 1..Len(s)
    BY <1>1
  <2>2. \A m, n \in 1..Len(s) : s[m] = s[n] => m = n
    BY <1>1 DEF IsInjective
  <2>3. /\ r[i] = IF i < k THEN s[i] ELSE s[i + 1]
        /\ r[j] = IF j < k THEN s[j] ELSE s[j + 1]
    BY <1>5
  <2>4. CASE i < k /\ j < k
    BY <2>1, <2>2, <2>3, <2>4
  <2>5. CASE ~(i < k) /\ ~(j < k)
    <3>1. i + 1 = j + 1
      BY <2>1, <2>2, <2>3, <2>5
    <3> QED BY <3>1
  <2>6. CASE i < k /\ ~(j < k)
    <3>1. i = j + 1
      BY <2>1, <2>2, <2>3, <2>6
    <3> QED BY <3>1, <2>6, <1>1
  <2>7. CASE ~(i < k) /\ j < k
    <3>1. i + 1 = j
      BY <2>1, <2>2, <2>3, <2>7
    <3> QED BY <3>1, <2>7, <1>1
  <2> QED BY <2>4, <2>5, <2>6, <2>7
<1>9. ToSet(r) \subseteq ToSet(s) \ {s[k]}
  BY <1>5, <1>6 DEF ToSet
<1> QED BY <1>5, <1>7, <1>8, <1>9 DEF r

-----------------------------------------------------------------------------
(* What steps that leave parts alone keep *)

contentVars == <<kind, m_new, m_snap, published, setVars>>

\* A step that leaves the contents alone keeps what is said of them,
LEMMA ContentsKept ==
  ASSUME IInv, UNCHANGED contentVars,
         pub'.at \in {"lock", "tell"} => pub.at \in {"lock", "tell"} /\ pub'.set = pub.set
  PROVE  NewAreLast' /\ OneKept' /\ SetKept'
<1> USE DEF contentVars, setVars
<1>1. NewAreLast'
  BY DEF IInv, NewAreLast, Taken
<1>2. OneKept'
  BY DEF IInv, OneKept, Taken
<1>3. SetKept'
  BY DEF IInv, SetKept, ObjectAfter, Snap, Told
<1> QED BY <1>1, <1>2, <1>3

\* and of what was told, if it also leaves alone who listens,
LEMMA ToldKept ==
  ASSUME IInv, UNCHANGED contentVars,
         \A x \in Listening' :
           /\ x \in Listening /\ log'[x] = log[x]
           /\ Owed(x)' = Owed(x) /\ Clearing(x)' = Clearing(x)
  PROVE  InStep'
<1> USE DEF contentVars, setVars
<1> SUFFICES ASSUME NEW x \in Listening'
             PROVE  /\ (kind = "seq" => SeqTold(Telling(x), Clearing(x)))'
                    /\ (kind = "pop" => PopTold(Telling(x), Clearing(x)))'
                    /\ (kind = "one" => OneTold(Telling(x), Clearing(x)))'
                    /\ (kind = "set" => SetTold(log[x], Owed(x), Clearing(x)))'
  BY DEF InStep
<1>1. x \in Listening /\ Telling(x)' = Telling(x) /\ Clearing(x)' = Clearing(x)
  BY DEF Telling
<1>2. (kind = "seq" => SeqTold(Telling(x), Clearing(x)))'
  BY <1>1 DEF IInv, InStep, SeqTold
<1>3. (kind = "pop" => PopTold(Telling(x), Clearing(x)))'
  BY <1>1 DEF IInv, InStep, PopTold, Taken
<1>4. (kind = "one" => OneTold(Telling(x), Clearing(x)))'
  BY <1>1 DEF IInv, InStep, OneTold, Taken
<1>5. (kind = "set" => SetTold(log[x], Owed(x), Clearing(x)))'
  BY <1>1 DEF IInv, InStep, SetTold
<1> QED BY <1>2, <1>3, <1>4, <1>5

\* A step of a publisher or a subscriber that changes no list and no content.
Tells == PublishThread /\ NewAreLast /\ OneKept /\ SetKept /\ InStep
           /\ TellsSubscribersOnly

\* and tells nobody.
LEMMA QuietStep ==
  ASSUME IInv, UNCHANGED contentVars, UNCHANGED <<subs, working, log, pub>>
  PROVE  Tells'
<1>1. NewAreLast' /\ OneKept' /\ SetKept'
  BY ContentsKept
<1>2. \A x : Owed(x)' = Owed(x) /\ Clearing(x)' = Clearing(x)
  BY DEF Owed, Clearing
<1>3. Listening' = Listening
  BY DEF Listening
<1>4. InStep'
  BY <1>2, <1>3, ToldKept
<1>5. PublishThread'
  BY DEF IInv, PublishThread, MutexFree, Resting, contentVars
<1>6. TellsSubscribersOnly'
  BY DEF IInv, TellsSubscribersOnly
<1> QED BY <1>1, <1>4, <1>5, <1>6 DEF Tells

\* A step that changes the list while it is not walked.
LEMMA ListStep ==
  ASSUME IInv, UNCHANGED contentVars, UNCHANGED pub, MutexFree,
         \A x \in Listening' : x \in Listening /\ log'[x] = log[x]
  PROVE  Tells'
<1>1. NewAreLast' /\ OneKept' /\ SetKept'
  BY ContentsKept
<1>2. \A x : Owed(x)' = Owed(x) /\ Clearing(x)' = Clearing(x)
  BY DEF Owed, Clearing, MutexFree
<1>4. InStep'
  BY <1>2, ToldKept
<1>5. PublishThread'
  BY DEF IInv, PublishThread, MutexFree, Resting, contentVars
<1>6. TellsSubscribersOnly'
  <2>1. pub.left = <<>>
    BY DEF IInv, PublishThread
  <2> QED BY <2>1 DEF TellsSubscribersOnly, ToSet
<1> QED BY <1>1, <1>4, <1>5, <1>6 DEF Tells

-----------------------------------------------------------------------------
(* The tasks *)

NewQueued == \E i \in DOMAIN tasks : tasks[i].mode = "new"

\* A task posted joins the queue,
LEMMA PostAdds ==
  ASSUME tasks \in Seq(Task), NEW m, NEW x, [mode |-> m, sub |-> x] \in Task, Post(m, x)
  PROVE  /\ tasks' \in Seq(Task)
         /\ NewQueued \/ m = "new" => NewQueued'
<1> DEFINE e == [mode |-> m, sub |-> x]
<1>1. tasks' = Append(tasks, e) /\ e \in Task /\ e.mode = m
  BY DEF Post
<1> HIDE DEF e
<1>2. /\ tasks' \in Seq(Task) /\ Len(tasks) \in Nat
      /\ DOMAIN tasks = 1..Len(tasks) /\ DOMAIN tasks' = 1..(Len(tasks) + 1)
      /\ \A i \in 1..Len(tasks) : tasks'[i] = tasks[i]
      /\ tasks'[Len(tasks) + 1] = e
  BY <1>1, AppendProperties, LenProperties
<1>3. NewQueued => NewQueued'
  BY <1>2 DEF NewQueued
<1>4. m = "new" => NewQueued'
  BY <1>1, <1>2 DEF NewQueued
<1> QED BY <1>2, <1>3, <1>4

\* and leaves it when it runs.
LEMMA RunTakes ==
  ASSUME tasks \in Seq(Task), NEW m, Running(m), tasks' = Tail(tasks)
  PROVE  /\ tasks' \in Seq(Task)
         /\ NewQueued /\ m # "new" => NewQueued'
<1>1. /\ tasks' \in Seq(Task) /\ Len(tasks) \in Nat /\ Len(tasks') = Len(tasks) - 1
      /\ DOMAIN tasks = 1..Len(tasks) /\ DOMAIN tasks' = 1..(Len(tasks) - 1)
      /\ \A i \in 1..(Len(tasks) - 1) : tasks'[i] = tasks[i + 1]
      /\ Head(tasks) = tasks[1] /\ tasks[1].mode = m
  BY HeadTailProperties, LenProperties DEF Running
<1>2. ASSUME NewQueued, m # "new" PROVE NewQueued'
  <2>1. PICK i \in 1..Len(tasks) : tasks[i].mode = "new"
    BY <1>1, <1>2 DEF NewQueued
  <2>2. i # 1
    BY <2>1, <1>1, <1>2
  <2>3. i - 1 \in 1..(Len(tasks) - 1) /\ tasks'[i - 1].mode = "new"
    BY <2>1, <2>2, <1>1
  <2> QED BY <2>3, <1>1 DEF NewQueued
<1> QED BY <1>1, <1>2


-----------------------------------------------------------------------------
(* The steps of publishers and subscribers that only move a thread or post *)

Whole == TypeOK /\ Counted /\ Tells /\ NewHasTask

\* A publisher finds the topic or makes it.
LEMMA GetTopic ==
  ASSUME IInv, NEW p \in Publishers, get_topic(p)
  PROVE  Whole'
<1> USE DEF topicVars, subVars, listVars
<1>1. Tells'
  BY QuietStep DEF get_topic, contentVars
<1>2. TypeOK'
  BY DEF IInv, TypeOK, Subscribed, get_topic, setVars
<1>3. Counted'
  BY DEF IInv, Counted, Subscribed, get_topic
<1>4. NewHasTask'
  BY DEF IInv, TypeOK, NewHasTask, get_topic
<1> QED BY <1>1, <1>2, <1>3, <1>4 DEF Whole

\* publish() posts the task for what it appended.
LEMMA PostNew ==
  ASSUME IInv, NEW p \in Publishers, post_new(p)
  PROVE  Whole'
<1> USE DEF topicVars, subVars, listVars
<1>1. Tells'
  BY QuietStep DEF post_new, contentVars
<1>2. tasks' \in Seq(Task) /\ NewQueued'
  BY PostAdds DEF IInv, TypeOK, Task, post_new
<1>3. TypeOK'
  BY <1>2 DEF IInv, TypeOK, Subscribed, post_new, setVars
<1>4. Counted'
  BY DEF IInv, Counted, Subscribed, post_new
<1>5. NewHasTask'
  BY <1>2 DEF NewHasTask, NewQueued
<1> QED BY <1>1, <1>3, <1>4, <1>5 DEF Whole

\* clear_content() posts its task.
LEMMA ClearContentCalled ==
  ASSUME IInv, clear_content
  PROVE  Whole'
<1> USE DEF topicVars, subVars, listVars
<1>1. Tells'
  BY QuietStep DEF clear_content, contentVars
<1>2. tasks' \in Seq(Task) /\ (NewQueued => NewQueued')
  BY PostAdds DEF IInv, TypeOK, Task, clear_content
<1>3. TypeOK'
  BY <1>2 DEF IInv, TypeOK, Subscribed, clear_content, setVars
<1>4. Counted'
  BY DEF IInv, Counted, Subscribed, clear_content
<1>5. NewHasTask'
  BY <1>2 DEF IInv, NewHasTask, NewQueued, clear_content
<1> QED BY <1>1, <1>3, <1>4, <1>5 DEF Whole

\* erase_topic() takes the topic out of the map.
LEMMA EraseTopicCalled ==
  ASSUME IInv, erase_topic
  PROVE  Whole'
<1> USE DEF subVars, listVars
<1>1. Tells'
  BY QuietStep DEF erase_topic, contentVars
<1>2. tasks' \in Seq(Task) /\ (NewQueued => NewQueued')
  BY PostAdds DEF IInv, TypeOK, Task, erase_topic
<1>3. TypeOK'
  BY <1>2 DEF IInv, TypeOK, Subscribed, erase_topic, setVars
<1>4. Counted'
  BY DEF IInv, Counted, Subscribed, erase_topic
<1>5. NewHasTask'
  BY <1>2 DEF IInv, NewHasTask, NewQueued, erase_topic
<1> QED BY <1>1, <1>3, <1>4, <1>5 DEF Whole

\* Each subscription a subscriber has made counts for the bound.
LEMMA SubsCounted ==
  ASSUME TypeOK, NEW s \in Subscribers
  PROVE  SubsSoFar \in Nat /\ count[s] <= SubsSoFar
<1> DEFINE n == count[s]
           all == {x \in Subscription : x[2] <= count[x[1]]}
           own == {<<s, i>> : i \in 1..n}
<1>1. n \in 0..MaxSubs /\ MaxSubs \in Nat
  BY TopicConstants DEF TypeOK
<1>2. IsFiniteSet(Subscription)
  <2>1. IsFiniteSet(1..MaxSubs)
    BY <1>1, FS_Interval, 1 \in Int, MaxSubs \in Int
  <2> QED BY <2>1, SubscribersFinite, FS_Product DEF Subscription
<1>3. IsFiniteSet(all) /\ Cardinality(all) \in Nat
  BY <1>2, FS_Subset, FS_CardinalityType
<1>4. own \subseteq all
  BY <1>1 DEF Subscription
<1>5. Cardinality(own) = n
  <2>1. IsFiniteSet(1..n) /\ Cardinality(1..n) = n
    <3> HIDE DEF n
    <3>1. n \in Int /\ 1 \in Int /\ (1 > n => n = 0)
      BY <1>1
    <3>2. IsFiniteSet(1..n) /\ Cardinality(1..n) = IF 1 > n THEN 0 ELSE n - 1 + 1
      BY <3>1, FS_Interval
    <3> QED BY <3>1, <3>2
  <2> DEFINE f == [i \in 1..n |-> <<s, i>>]
  <2>2. ExistsBijection(1..n, own)
    <3>1. f \in Bijection(1..n, own)
      BY DEF Bijection, Injection, Surjection, IsInjective
    <3> QED BY <3>1 DEF ExistsBijection
  <2> QED BY <1>1, <2>1, <2>2, FS_Bijection
<1>6. Cardinality(own) <= Cardinality(all)
  BY <1>3, <1>4, FS_Subset
<1> QED BY <1>3, <1>5, <1>6 DEF SubsSoFar

\* A subscriber finds the topic.
LEMMA SubscribeCalled ==
  ASSUME IInv, NEW s \in Subscribers, subscribe(s)
  PROVE  Whole'
<1> USE DEF topicVars, subVars, listVars
<1>1. Tells'
  BY QuietStep DEF subscribe, contentVars
<1>2. TypeOK'
  BY DEF IInv, TypeOK, Subscribed, subscribe, setVars
<1>3. Counted'
  <2>1. count[s] \in Nat /\ MaxSubs \in Nat /\ SubsSoFar \in Nat
    BY TopicConstants, SubsCounted DEF IInv, TypeOK
  <2>2. count[s] < MaxSubs
    BY <2>1, SubsCounted DEF IInv, subscribe
  <2>3. spc' = [spc EXCEPT ![s] = "got"] /\ spc \in [Subscribers -> {"idle", "got", "reserved"}]
    BY DEF IInv, TypeOK, subscribe
  <2> QED BY <2>2, <2>3 DEF IInv, Counted, Subscribed, subscribe
<1>4. NewHasTask'
  BY DEF IInv, NewHasTask, subscribe
<1> QED BY <1>1, <1>2, <1>3, <1>4 DEF Whole

\* subscribe() posts the task that tells the snapshot.
LEMMA PostSnap ==
  ASSUME IInv, NEW s \in Subscribers, post_snap(s)
  PROVE  Whole'
<1> USE DEF topicVars, subVars, listVars
<1>1. Tells'
  BY QuietStep DEF post_snap, contentVars
<1>2. Current(s) \in Subscription
  BY TopicConstants DEF IInv, TypeOK, Counted, post_snap, Current, Subscription
<1>3. tasks' \in Seq(Task) /\ (NewQueued => NewQueued')
  BY <1>2, PostAdds DEF IInv, TypeOK, Task, post_snap
<1>4. TypeOK'
  BY <1>3 DEF IInv, TypeOK, Subscribed, post_snap, setVars
<1>5. Counted'
  BY DEF IInv, TypeOK, Counted, Subscribed, post_snap
<1>6. NewHasTask'
  BY <1>3 DEF IInv, NewHasTask, NewQueued, post_snap
<1> QED BY <1>1, <1>4, <1>5, <1>6 DEF Whole


-----------------------------------------------------------------------------
(* The steps that change the list of subscriptions *)

\* A new subscription is linked, and is told nothing before its snapshot.
LEMMA ReserveSubscribe ==
  ASSUME IInv, NEW s \in Subscribers, reserve_subscribe(s)
  PROVE  Whole'
<1> USE DEF topicVars
<1>1. PICK x : x = <<s, count[s] + 1>>
  OBVIOUS
<1>2. /\ count \in [Subscribers -> 0..MaxSubs] /\ count[s] + 1 \in 1..MaxSubs
      /\ x \in Subscription /\ x[1] = s /\ x[2] = count[s] + 1
  BY <1>1, TopicConstants DEF IInv, TypeOK, Counted, reserve_subscribe, Subscription
<1>3. x \notin Subscribed
  BY <1>2 DEF IInv, Counted
<1>4. count' = [count EXCEPT ![s] = @ + 1] /\ count'[s] = count[s] + 1
  BY <1>2 DEF reserve_subscribe
<1>5. /\ subs' \in Seq(Subscription) /\ IsInjective(subs')
      /\ Subscribed' = Subscribed \cup {x} /\ ToSet(subs) \subseteq ToSet(subs')
      /\ detached' \subseteq Subscription \ ToSet(subs') /\ m_tail' = x
      /\ ToSet(subs') \subseteq ToSet(subs) \cup {x}
  <2>1. subs \in Seq(Subscription) /\ IsInjective(subs) /\ detached \subseteq Subscription \ ToSet(subs)
    BY DEF IInv, TypeOK
  <2>2. m_tail' = x /\ (  \/ subs' = Append(subs, x) /\ detached' = detached
                          \/ subs' = subs /\ detached' = detached \cup {x})
    BY <1>1 DEF reserve_subscribe, add_topic_subscriber
  <2>3. CASE subs' = Append(subs, x) /\ detached' = detached
    BY <1>2, <1>3, <2>1, <2>2, <2>3, InjectiveAppend DEF Subscribed
  <2>4. CASE subs' = subs /\ detached' = detached \cup {x}
    BY <1>2, <1>3, <2>1, <2>2, <2>4 DEF Subscribed
  <2> QED BY <2>2, <2>3, <2>4
<1>6. x \notin working /\ working' = working
  BY <1>3 DEF IInv, TypeOK, reserve_subscribe
<1>7. Tells'
  <2>1. MutexFree /\ UNCHANGED pub /\ UNCHANGED contentVars
    BY DEF reserve_subscribe, contentVars
  <2>2. \A y \in Listening' : y \in Listening /\ log'[y] = log[y]
    BY <1>5, <1>6 DEF Listening, reserve_subscribe
  <2> QED BY <2>1, <2>2, ListStep
<1>8. TypeOK'
  <2>1. count' \in [Subscribers -> 0..MaxSubs]
    BY <1>2, <1>4
  <2>2. working' \subseteq Subscribed'
    BY <1>5, <1>6 DEF IInv, TypeOK
  <2> QED BY <1>2, <1>5, <2>1, <2>2 DEF IInv, TypeOK, reserve_subscribe, setVars
<1>9. Counted'
  <2>1. \A y \in Subscribed : y \in Subscription
    BY SetOf DEF IInv, TypeOK, Subscribed
  <2>2. \A y \in Subscribed' : y[2] <= count'[y[1]]
    BY <1>2, <1>4, <1>5, <2>1 DEF IInv, Counted, Subscription
  <2>3. \A t \in Subscribers : /\ spc'[t] = "got" => count'[t] < MaxSubs
                               /\ spc'[t] = "reserved" => count'[t] >= 1
    BY <1>2, <1>4 DEF IInv, TypeOK, Counted, reserve_subscribe
  <2> QED BY <2>2, <2>3 DEF Counted
<1>10. NewHasTask'
  BY DEF IInv, NewHasTask, reserve_subscribe
<1> QED BY <1>7, <1>8, <1>9, <1>10 DEF Whole

\* Subscription::unsubscribe() takes the one subscription out of its place.
LEMMA Unlinked ==
  ASSUME TypeOK, NEW x, Unlink(x)
  PROVE  /\ subs' \in Seq(Subscription) /\ IsInjective(subs')
         /\ ToSet(subs') = ToSet(subs) \ {x}
         /\ detached' \subseteq Subscription \ ToSet(subs')
         /\ Subscribed' = Subscribed \ {x}
         /\ working' = working \ {x} /\ working' \subseteq Subscribed'
         /\ log' \in [Subscription -> Seq(1..MaxContents)]
         /\ \A y \in Subscription : y # x => log'[y] = log[y]
<1>1. subs \in Seq(Subscription) /\ IsInjective(subs) /\ detached \subseteq Subscription \ ToSet(subs)
  BY DEF TypeOK
<1>2. /\ subs' \in Seq(Subscription) /\ IsInjective(subs')
      /\ ToSet(subs') = ToSet(subs) \ {x}
  <2>1. CASE \E i \in DOMAIN subs : subs[i] = x /\ subs' = RemoveAt(subs, i)
    <3>1. PICK i \in DOMAIN subs : subs[i] = x /\ subs' = RemoveAt(subs, i)
      BY <2>1
    <3> QED BY <1>1, <3>1, InjectiveRemove
  <2>2. CASE x \notin ToSet(subs) /\ UNCHANGED subs
    BY <1>1, <2>2
  <2> QED BY <2>1, <2>2 DEF Unlink
<1>3. detached' = detached \ {x} /\ working' = working \ {x}
  BY DEF Unlink
<1>4. /\ log' \in [Subscription -> Seq(1..MaxContents)]
      /\ \A y \in Subscription : y # x => log'[y] = log[y]
  BY EmptySeq DEF TypeOK, Unlink, Forget
<1>5. working \subseteq Subscribed
  BY DEF TypeOK
<1> QED BY <1>1, <1>2, <1>3, <1>4, <1>5 DEF Subscribed

\* A subscription is unlinked, and nothing is told to it any more.
LEMMA Unsubscribe ==
  ASSUME IInv, NEW s \in Subscribers, unsubscribe(s)
  PROVE  Whole'
<1> USE DEF setVars
<1>1. PICK x : x = Current(s)
  OBVIOUS
<1>2. TypeOK /\ Unlink(x)
  BY <1>1 DEF IInv, unsubscribe
<1>3. m_tail' = m_tail
  BY <1>2 DEF Unlink
<1>4. Listening \subseteq Subscription
  BY SetOf DEF IInv, TypeOK, Listening
<1>5. Tells'
  <2>1. MutexFree /\ UNCHANGED pub /\ UNCHANGED contentVars
    BY DEF unsubscribe, contentVars
  <2>2. \A y \in Listening' : y \in Listening /\ log'[y] = log[y]
    BY <1>2, <1>4, Unlinked DEF Listening
  <2> QED BY <2>1, <2>2, ListStep
<1>6. TypeOK'
  BY <1>2, <1>3, Unlinked DEF TypeOK, unsubscribe
<1>7. Counted'
  <2>1. Subscribed' \subseteq Subscribed /\ UNCHANGED <<count, spc>>
    BY <1>2, Unlinked DEF unsubscribe
  <2> QED BY <2>1 DEF IInv, Counted
<1>8. NewHasTask'
  BY DEF IInv, NewHasTask, unsubscribe
<1> QED BY <1>5, <1>6, <1>7, <1>8 DEF Whole

\* All that the topic lists are cleared, as an erased or a destroyed topic does.
LEMMA ListCleared ==
  ASSUME IInv, UNCHANGED contentVars, pub = Resting, UNCHANGED pub,
         subs' = <<>>, UNCHANGED detached,
         working' = working \ ToSet(subs), Forget(ToSet(subs))
  PROVE  /\ Tells' /\ Subscribed' \subseteq Subscribed
         /\ subs' \in Seq(Subscription) /\ IsInjective(subs')
         /\ detached' \subseteq Subscription \ ToSet(subs')
         /\ working' \subseteq Subscribed'
         /\ log' \in [Subscription -> Seq(1..MaxContents)]
<1>1. ToSet(subs') = {}
  BY DEF ToSet
<1>2. subs' \in Seq(Subscription) /\ IsInjective(subs')
  BY EmptySeq, InjectiveEmpty
<1>3. Tells'
  <2>1. MutexFree
    BY DEF MutexFree, Resting
  <2>2. Listening' = {}
    BY <1>1 DEF Listening
  <2> QED BY <2>1, <2>2, ListStep
<1>4. log' \in [Subscription -> Seq(1..MaxContents)]
  BY EmptySeq DEF IInv, TypeOK, Forget
<1> QED BY <1>1, <1>2, <1>3, <1>4 DEF IInv, TypeOK, Subscribed

\* The publish thread tells the topic's end.
LEMMA PublishEraseTopic ==
  ASSUME IInv, publish_erase_topic
  PROVE  Whole'
<1> USE DEF topicVars, setVars
<1>1. pub = Resting /\ UNCHANGED pub /\ UNCHANGED contentVars
  BY DEF publish_erase_topic, Running, contentVars
<1>2. tasks' \in Seq(Task) /\ (NewQueued => NewQueued')
  BY RunTakes DEF IInv, TypeOK, publish_erase_topic
<1>3. /\ Tells' /\ Subscribed' \subseteq Subscribed
      /\ subs' \in Seq(Subscription) /\ IsInjective(subs')
      /\ detached' \subseteq Subscription \ ToSet(subs')
      /\ working' \subseteq Subscribed'
      /\ log' \in [Subscription -> Seq(1..MaxContents)]
  BY <1>1, ListCleared DEF publish_erase_topic
<1>4. TypeOK'
  BY <1>1, <1>2, <1>3 DEF IInv, TypeOK, publish_erase_topic
<1>5. Counted'
  BY <1>3 DEF IInv, Counted, publish_erase_topic
<1>6. NewHasTask'
  BY <1>2 DEF IInv, NewHasTask, NewQueued, publish_erase_topic
<1> QED BY <1>3, <1>4, <1>5, <1>6 DEF Whole

\* The topic goes with its last reference.
LEMMA Destroy ==
  ASSUME IInv, destroy
  PROVE  Whole'
<1> USE DEF topicVars, setVars
<1>1. pub = Resting /\ UNCHANGED pub /\ UNCHANGED contentVars
  BY DEF destroy, contentVars
<1>3. /\ Tells' /\ Subscribed' \subseteq Subscribed
      /\ subs' \in Seq(Subscription) /\ IsInjective(subs')
      /\ detached' \subseteq Subscription \ ToSet(subs')
      /\ working' \subseteq Subscribed'
      /\ log' \in [Subscription -> Seq(1..MaxContents)]
  BY <1>1, ListCleared DEF destroy
<1>4. TypeOK'
  BY <1>1, <1>3 DEF IInv, TypeOK, destroy
<1>5. Counted'
  BY <1>3 DEF IInv, Counted, destroy
<1>6. NewHasTask'
  BY DEF IInv, NewHasTask, destroy
<1> QED BY <1>3, <1>4, <1>5, <1>6 DEF Whole


-----------------------------------------------------------------------------
(* The publish thread tells *)

\* Types of what is told.
LEMMA ToldTypes ==
  ASSUME IInv
  PROVE  /\ \A x \in Listening : x \in Subscription /\ log[x] \in Seq(1..MaxContents)
         /\ pub.set \in Seq(1..MaxContents) /\ pub.left \in Seq(Subscription)
         /\ m_new \in Seq(1..MaxContents) /\ m_snap \in Seq(1..MaxContents)
         /\ \A x : Owed(x) \in Seq(1..MaxContents)
<1>1. /\ \A x \in Listening : x \in Subscription /\ log[x] \in Seq(1..MaxContents)
      /\ pub.set \in Seq(1..MaxContents) /\ pub.left \in Seq(Subscription)
      /\ m_new \in Seq(1..MaxContents) /\ m_snap \in Seq(1..MaxContents)
  BY SetOf DEF IInv, TypeOK, Listening
<1>2. \A x : Owed(x) \in Seq(1..MaxContents)
  BY <1>1, EmptySeq DEF Owed
<1> QED BY <1>1, <1>2

\* What a snap says is in step with what is kept.
LEMMA SnapInStep ==
  ASSUME IInv
  PROVE  /\ Snap \in Seq(1..MaxContents)
         /\ kind = "seq" => Snap = m_snap
         /\ kind = "pop" => Snap = <<>>
         /\ kind = "one" => Snap = m_snap /\ Len(m_snap) <= 1
<1>1. m_snap \in Seq(1..MaxContents) /\ kind \in {"seq", "one", "pop", "set"}
  BY TopicConstants DEF IInv, TypeOK
<1>2. <<>> \o m_snap = m_snap /\ <<>> \in Seq(1..MaxContents)
  BY <1>1, ConcatEmptySeq, EmptySeq
<1>3. kind = "set" => Snap \in Seq(1..MaxContents)
  <2>1. CASE m_snap = <<>>
    BY <1>1, <1>2, <2>1 DEF Snap, Told
  <2>2. CASE m_snap # <<>>
    <3>1. Last(m_snap) \in 1..MaxContents
      BY <1>1, <2>2, LastOf
    <3>2. <<Last(m_snap)>> \in Seq(1..MaxContents)
      BY <3>1, OneElement
    <3> QED BY <1>2, <2>2, <3>2 DEF Snap, Told, ObjectAfter
  <2> QED BY <2>1, <2>2
<1> QED BY <1>1, <1>2, <1>3 DEF Snap, Told, IInv, OneKept

\* A subscription told nothing, or the one content kept, is in step.
LEMMA InStepAfresh ==
  ASSUME NEW told, told = <<>> \/ Len(told) = 1
  PROVE  /\ \A i \in 1..(Len(told) - 1) : told[i + 1] = told[i] + 1
         /\ told \in Seq(1..MaxContents) => \A i, j \in DOMAIN told : i < j => told[i] < told[j]
<1>1. Len(told) \in {0, 1}
  BY EmptySeq
<1>2. \A i \in 1..(Len(told) - 1) : told[i + 1] = told[i] + 1
  BY <1>1
<1>3. told \in Seq(1..MaxContents) => \A i, j \in DOMAIN told : i < j => told[i] < told[j]
  BY <1>1, LenProperties
<1> QED BY <1>2, <1>3

\* The publish thread tells one subscriber all there is, and sets its working bit.
LEMMA PublishSnap ==
  ASSUME IInv, publish_snap
  PROVE  Whole'
<1> USE DEF topicVars, setVars
<1>1. PICK x : x = Head(tasks).sub
  OBVIOUS
<1>2. /\ pub = Resting /\ UNCHANGED pub /\ UNCHANGED contentVars
      /\ UNCHANGED <<subs, detached, m_tail, count, spc, ppc, in_map>>
  BY DEF publish_snap, Running, contentVars, listVars
<1>3. tasks' \in Seq(Task) /\ (NewQueued => NewQueued')
  BY RunTakes DEF IInv, TypeOK, publish_snap
<1>4. x \in Subscription \/ x = Nil
  <2>1. Head(tasks) \in Task
    BY HeadTailProperties DEF IInv, TypeOK, publish_snap, Running
  <2> QED BY <1>1, <2>1 DEF Task
<1>5. \/ x \in Subscribed /\ working' = working \cup {x} /\ log' = [log EXCEPT ![x] = Snap]
      \/ x \notin Subscribed /\ UNCHANGED <<working, log>>
  BY <1>1 DEF publish_snap
<1>6. Subscribed \subseteq Subscription
  BY SetOf DEF IInv, TypeOK, Subscribed
<1>7. NewAreLast' /\ OneKept' /\ SetKept'
  BY <1>2, ContentsKept
<1>8. PublishThread' /\ TellsSubscribersOnly'
  BY <1>2 DEF IInv, PublishThread, MutexFree, Resting, contentVars, TellsSubscribersOnly
<1>9. \A y : /\ Owed(y) = <<>> /\ Owed(y)' = <<>>
             /\ Clearing(y) = FALSE /\ Clearing(y)' = FALSE
  BY <1>2 DEF Owed, Clearing, Resting
<1>10. log \in [Subscription -> Seq(1..MaxContents)] /\ log' \in [Subscription -> Seq(1..MaxContents)]
  BY <1>5, <1>6, SnapInStep DEF IInv, TypeOK
<1>11. InStep'
  <2> SUFFICES ASSUME NEW y \in Listening'
               PROVE  /\ (kind = "seq" => SeqTold(Telling(y), Clearing(y)))'
                      /\ (kind = "pop" => PopTold(Telling(y), Clearing(y)))'
                      /\ (kind = "one" => OneTold(Telling(y), Clearing(y)))'
                      /\ (kind = "set" => SetTold(log[y], Owed(y), Clearing(y)))'
    BY DEF InStep
  <2>1. y \in Subscription /\ y \in ToSet(subs) /\ y \in working'
    BY <1>2, <1>6 DEF Listening, Subscribed
  <2>2. CASE log'[y] = log[y] /\ y \in working
    <3>1. y \in Listening /\ Telling(y)' = Telling(y)
      BY <1>9, <2>1, <2>2 DEF Listening, Telling
    <3>2. Clearing(y)' = Clearing(y) /\ UNCHANGED <<kind, m_new, m_snap, m_objects, published>>
      BY <1>2, <1>9 DEF contentVars
    <3>3. (kind = "seq" => SeqTold(Telling(y), Clearing(y)))'
      BY <3>1, <3>2 DEF IInv, InStep, SeqTold
    <3>4. (kind = "pop" => PopTold(Telling(y), Clearing(y)))'
      BY <3>1, <3>2 DEF IInv, InStep, PopTold, Taken
    <3>5. (kind = "one" => OneTold(Telling(y), Clearing(y)))'
      BY <3>1, <3>2 DEF IInv, InStep, OneTold, Taken
    <3>6. (kind = "set" => SetTold(log[y], Owed(y), Clearing(y)))'
      BY <2>2, <3>1, <3>2, <1>9 DEF IInv, InStep, SetTold
    <3> QED BY <3>3, <3>4, <3>5, <3>6
  <2>3. CASE log'[y] = Snap
    <3>1. Telling(y)' = Snap
      BY <2>3, <1>9, SnapInStep, ConcatEmptySeq DEF Telling
    <3>2. UNCHANGED <<kind, m_new, m_snap, m_objects, published>>
      BY <1>2 DEF contentVars
    <3>3. kind = "seq" => SeqTold(Snap, FALSE)
      BY SnapInStep DEF SeqTold
    <3>4. kind = "pop" => PopTold(Snap, FALSE)
      BY SnapInStep, InStepAfresh DEF PopTold
    <3>5. kind = "one" => OneTold(Snap, FALSE)
      <4> HAVE kind = "one"
      <4>1. /\ Snap = m_snap /\ m_snap \in Seq(1..MaxContents)
            /\ (m_snap = <<>> \/ Len(m_snap) = 1)
        BY SnapInStep, ToldTypes, Short
      <4>2. \A i \in DOMAIN m_snap : m_snap[i] <= Taken
        BY DEF IInv, OneKept
      <4> QED BY <4>1, <4>2, InStepAfresh DEF OneTold
    <3>6. kind = "set" /\ m_new = <<>> => Snap = m_objects
      BY DEF IInv, SetKept
    <3>7. (kind = "seq" => SeqTold(Telling(y), Clearing(y)))'
      BY <1>9, <3>1, <3>2, <3>3 DEF SeqTold
    <3>8. (kind = "pop" => PopTold(Telling(y), Clearing(y)))'
      BY <1>9, <3>1, <3>2, <3>4 DEF PopTold, Taken
    <3>9. (kind = "one" => OneTold(Telling(y), Clearing(y)))'
      BY <1>9, <3>1, <3>2, <3>5 DEF OneTold, Taken
    <3>10. (kind = "set" => SetTold(log[y], Owed(y), Clearing(y)))'
      BY <2>3, <3>2, <3>6 DEF SetTold
    <3> QED BY <3>7, <3>8, <3>9, <3>10
  <2> QED BY <1>5, <1>10, <2>1, <2>2, <2>3
<1>12. TypeOK'
  <2>1. working' \subseteq Subscribed'
    BY <1>2, <1>5 DEF IInv, TypeOK, Subscribed
  <2> QED BY <1>2, <1>3, <1>10, <2>1 DEF IInv, TypeOK, contentVars
<1>13. Counted'
  BY <1>2 DEF IInv, Counted, Subscribed
<1>14. NewHasTask'
  BY <1>2, <1>3 DEF IInv, NewHasTask, NewQueued, contentVars
<1> QED BY <1>7, <1>8, <1>11, <1>12, <1>13, <1>14 DEF Whole, Tells

\* The list that is walked is the topic's, and nobody changes it meanwhile.
LEMMA Lock ==
  ASSUME IInv, lock
  PROVE  Whole'
<1> USE DEF topicVars, subVars, listVars
<1>1. /\ UNCHANGED contentVars /\ UNCHANGED <<subs, working, log>>
      /\ pub'.left = subs /\ pub'.set = pub.set
      /\ pub.at \in {"lock", "lock_clear"}
      /\ pub'.at = IF pub.at = "lock" THEN "tell" ELSE "tell_clear"
  BY DEF IInv, TypeOK, lock, contentVars
<1>2. NewAreLast' /\ OneKept' /\ SetKept'
  BY <1>1, ContentsKept
<1>3. \A x \in ToSet(subs) : Owed(x)' = Owed(x) /\ Clearing(x)' = Clearing(x)
  BY <1>1 DEF Owed, Clearing
<1>4. InStep'
  <2>1. Listening' = Listening /\ Listening \subseteq ToSet(subs) /\ log' = log
    BY <1>1 DEF Listening
  <2> QED BY <1>1, <1>3, <2>1, ToldKept
<1>5. PublishThread' /\ TellsSubscribersOnly'
  BY <1>1 DEF IInv, TypeOK, PublishThread, MutexFree, TellsSubscribersOnly, contentVars
<1>6. TypeOK'
  BY DEF IInv, TypeOK, Subscribed, lock, setVars
<1>7. Counted'
  BY DEF IInv, Counted, Subscribed, lock
<1>8. NewHasTask'
  BY DEF IInv, NewHasTask, lock
<1> QED BY <1>2, <1>4, <1>5, <1>6, <1>7, <1>8 DEF Whole, Tells

\* The walk is over.
LEMMA Unlock ==
  ASSUME IInv, unlock
  PROVE  Whole'
<1> USE DEF topicVars, subVars, listVars
<1>1. /\ UNCHANGED contentVars /\ UNCHANGED <<subs, working, log>>
      /\ pub' = Resting /\ ToSet(pub.left) = {} /\ pub.at \in {"tell", "tell_clear"}
  BY DEF IInv, TypeOK, unlock, contentVars, MutexFree, ToSet
<1>2. NewAreLast' /\ OneKept' /\ SetKept'
  BY <1>1, ContentsKept DEF Resting
<1>3. \A x : Owed(x)' = Owed(x) /\ Clearing(x)' = Clearing(x)
  BY <1>1 DEF Owed, Clearing, Resting
<1>4. InStep'
  <2>1. Listening' = Listening /\ log' = log
    BY <1>1 DEF Listening
  <2> QED BY <1>1, <1>3, <2>1, ToldKept
<1>5. PublishThread' /\ TellsSubscribersOnly'
  BY <1>1, InjectiveEmpty DEF Resting, PublishThread, MutexFree, TellsSubscribersOnly, ToSet
<1>6. TypeOK'
  <2>1. pub' \in [at : {"idle", "lock", "lock_clear", "tell", "tell_clear"},
                  set : Seq(1..MaxContents), left : Seq(Subscription)]
    BY <1>1, EmptySeq DEF Resting
  <2> QED BY <2>1 DEF IInv, TypeOK, Subscribed, unlock, setVars
<1>7. Counted'
  BY DEF IInv, Counted, Subscribed, unlock
<1>8. NewHasTask'
  BY DEF IInv, NewHasTask, unlock
<1> QED BY <1>2, <1>4, <1>5, <1>6, <1>7, <1>8 DEF Whole, Tells

\* Told means told no longer owed; cleared means nothing kept.
LEMMA Tell ==
  ASSUME IInv, tell
  PROVE  Whole'
<1> USE DEF topicVars, listVars
<1>1. PICK x : x = Head(pub.left)
  OBVIOUS
<1>2. /\ UNCHANGED contentVars /\ UNCHANGED <<subs, detached, m_tail, working, count, spc, ppc, in_map, tasks>>
      /\ pub'.left = Tail(pub.left) /\ pub'.set = pub.set /\ pub'.at = pub.at
      /\ pub.at \in {"tell", "tell_clear"} /\ pub.left # <<>>
      /\ pub.left \in Seq(Subscription) /\ IsInjective(pub.left)
  BY DEF IInv, TypeOK, PublishThread, tell, contentVars, MutexFree
<1>3. /\ log' = IF x \notin working THEN log
                ELSE [log EXCEPT ![x] = IF pub.at = "tell" THEN Told(@, pub.set) ELSE <<>>]
  BY <1>1 DEF tell
<1>4. /\ Tail(pub.left) \in Seq(Subscription) /\ x \in ToSet(pub.left)
      /\ ToSet(Tail(pub.left)) = ToSet(pub.left) \ {x}
      /\ IsInjective(Tail(pub.left))
  BY <1>1, <1>2, InjectiveTail
<1>5. x \in Subscription
  BY <1>2, <1>4, SetOf
<1>6. NewAreLast' /\ OneKept' /\ SetKept'
  BY <1>2, ContentsKept
<1>7. PublishThread' /\ TellsSubscribersOnly'
  <2>1. PublishThread'
    BY <1>2, <1>4 DEF IInv, PublishThread, MutexFree, contentVars
  <2>2. TellsSubscribersOnly'
    BY <1>2, <1>4 DEF IInv, TellsSubscribersOnly
  <2> QED BY <2>1, <2>2
<1>8. log \in [Subscription -> Seq(1..MaxContents)] /\ pub.set \in Seq(1..MaxContents)
  BY DEF IInv, TypeOK
<1>9. x \in working /\ pub.at = "tell" => pub.set # <<>> /\ Told(log[x], pub.set) \in Seq(1..MaxContents)
  <2> SUFFICES ASSUME x \in working, pub.at = "tell"
               PROVE  pub.set # <<>> /\ Told(log[x], pub.set) \in Seq(1..MaxContents)
    OBVIOUS
  <2>1. pub.set # <<>> /\ Last(pub.set) \in 1..MaxContents
    BY <1>8, LastOf DEF IInv, PublishThread
  <2>2. ObjectAfter(pub.set) \in Seq(1..MaxContents)
    BY <2>1, OneElement, EmptySeq DEF ObjectAfter
  <2>3. log[x] \o pub.set \in Seq(1..MaxContents)
    BY <1>5, <1>8, ConcatProperties
  <2> QED BY <2>1, <2>2, <2>3 DEF Told
<1>10. log' \in [Subscription -> Seq(1..MaxContents)] /\ \A y \in Subscription : y # x => log'[y] = log[y]
  BY <1>3, <1>5, <1>8, <1>9, EmptySeq
<1>11. UNCHANGED <<kind, m_new, m_snap, m_objects, published, removed>>
  BY <1>2 DEF contentVars, setVars
<1>12. InStep'
  <2> SUFFICES ASSUME NEW y \in Listening'
               PROVE  /\ (kind = "seq" => SeqTold(Telling(y), Clearing(y)))'
                      /\ (kind = "pop" => PopTold(Telling(y), Clearing(y)))'
                      /\ (kind = "one" => OneTold(Telling(y), Clearing(y)))'
                      /\ (kind = "set" => SetTold(log[y], Owed(y), Clearing(y)))'
    BY DEF InStep
  <2>1. y \in Listening /\ y \in Subscription /\ y \in working
    BY <1>2, ToldTypes DEF Listening
  <2>2. CASE y # x
    <3>1. Owed(y)' = Owed(y) /\ Clearing(y)' = Clearing(y) /\ log'[y] = log[y]
      BY <1>2, <1>4, <1>10, <2>1, <2>2 DEF Owed, Clearing
    <3>2. Telling(y)' = Telling(y)
      BY <3>1 DEF Telling
    <3>3. (kind = "seq" => SeqTold(Telling(y), Clearing(y)))'
      BY <1>11, <2>1, <3>1, <3>2 DEF IInv, InStep, SeqTold
    <3>4. (kind = "pop" => PopTold(Telling(y), Clearing(y)))'
      BY <1>11, <2>1, <3>1, <3>2 DEF IInv, InStep, PopTold, Taken
    <3>5. (kind = "one" => OneTold(Telling(y), Clearing(y)))'
      BY <1>11, <2>1, <3>1, <3>2 DEF IInv, InStep, OneTold, Taken
    <3>6. (kind = "set" => SetTold(log[y], Owed(y), Clearing(y)))'
      BY <1>11, <2>1, <3>1 DEF IInv, InStep, SetTold
    <3> QED BY <3>3, <3>4, <3>5, <3>6
  <2>3. CASE y = x /\ pub.at = "tell"
    <3>1. Owed(y) = pub.set /\ Owed(y)' = <<>> /\ Clearing(y)' = FALSE /\ Clearing(y) = FALSE
      BY <1>2, <1>4, <2>3 DEF Owed, Clearing
    <3>2. log'[y] = Told(log[y], pub.set)
      BY <1>3, <1>5, <1>8, <2>1, <2>3
    <3>3. kind # "set" => Telling(y)' = Telling(y)
      <4>1. kind # "set" => log'[y] = log[y] \o pub.set
        BY <3>2 DEF Told
      <4>2. log[y] \o pub.set \in Seq(1..MaxContents)
        BY <1>8, <2>1, ConcatProperties
      <4>3. (log[y] \o pub.set) \o <<>> = log[y] \o pub.set
        BY <4>2, ConcatEmptySeq
      <4> QED BY <3>1, <4>1, <4>3 DEF Telling
    <3>4. (kind = "seq" => SeqTold(Telling(y), Clearing(y)))'
      BY <1>11, <2>1, <3>1, <3>3 DEF IInv, InStep, SeqTold
    <3>5. (kind = "pop" => PopTold(Telling(y), Clearing(y)))'
      BY <1>11, <2>1, <3>1, <3>3 DEF IInv, InStep, PopTold, Taken
    <3>6. (kind = "one" => OneTold(Telling(y), Clearing(y)))'
      BY <1>11, <2>1, <3>1, <3>3 DEF IInv, InStep, OneTold, Taken
    <3>7. (kind = "set" => SetTold(log[y], Owed(y), Clearing(y)))'
      <4>1. kind = "set" => log'[y] = ObjectAfter(pub.set)
        BY <1>9, <2>1, <2>3, <3>2 DEF Told
      <4>2. kind = "set" /\ m_new = <<>> => ObjectAfter(pub.set) = m_objects
        BY <2>3 DEF IInv, SetKept
      <4> QED BY <1>11, <4>1, <4>2 DEF SetTold
    <3> QED BY <3>4, <3>5, <3>6, <3>7
  <2>4. CASE y = x /\ pub.at = "tell_clear"
    <3>1. Owed(y)' = <<>> /\ Clearing(y)' = FALSE
      BY <1>2, <1>4, <2>4 DEF Owed, Clearing
    <3>2. log'[y] = <<>> /\ m_snap = <<>>
      BY <1>3, <1>5, <1>8, <2>1, <2>4 DEF IInv, PublishThread
    <3>3. Telling(y)' = <<>>
      BY <3>1, <3>2, ConcatEmptySeq, EmptySeq DEF Telling
    <3>4. (kind = "seq" => SeqTold(Telling(y), Clearing(y)))'
      BY <1>11, <3>2, <3>3 DEF SeqTold
    <3>5. (kind = "pop" => PopTold(Telling(y), Clearing(y)))'
      BY <3>3, InStepAfresh DEF PopTold
    <3>6. (kind = "one" => OneTold(Telling(y), Clearing(y)))'
      BY <1>11, <3>2, <3>3 DEF OneTold
    <3>7. (kind = "set" => SetTold(log[y], Owed(y), Clearing(y)))'
      <4>1. <<>> \o m_snap = <<>>
        BY <3>2, ConcatEmptySeq, EmptySeq
      <4>2. kind = "set" /\ m_new = <<>> => m_objects = <<>>
        BY <3>2, <4>1 DEF IInv, SetKept, Snap, Told
      <4> QED BY <1>11, <3>2, <4>2 DEF SetTold
    <3> QED BY <3>4, <3>5, <3>6, <3>7
  <2> QED BY <1>2, <2>2, <2>3, <2>4
<1>13. TypeOK'
  <2>1. pub' \in [at : {"idle", "lock", "lock_clear", "tell", "tell_clear"},
                  set : Seq(1..MaxContents), left : Seq(Subscription)]
    BY <1>4 DEF IInv, TypeOK, tell
  <2> QED BY <1>2, <1>10, <1>11, <2>1 DEF IInv, TypeOK, Subscribed
<1>14. Counted'
  BY <1>2 DEF IInv, Counted, Subscribed
<1>15. NewHasTask'
  BY <1>2, <1>11 DEF IInv, NewHasTask
<1> QED BY <1>6, <1>7, <1>12, <1>13, <1>14, <1>15 DEF Whole, Tells


-----------------------------------------------------------------------------
(* Contents come, are taken and are cleared *)

\* Contents are numbers.
LEMMA Numbers ==
  ASSUME NEW s \in Seq(1..MaxContents)
  PROVE  /\ DOMAIN s = 1..Len(s) /\ Len(s) \in Nat
         /\ \A i \in DOMAIN s : s[i] \in 1..MaxContents /\ s[i] \in Int
<1>1. DOMAIN s = 1..Len(s) /\ Len(s) \in Nat
  BY LenProperties
<1>2. \A i \in 1..Len(s) : s[i] \in 1..MaxContents
  BY ElementOfSeq
<1> QED BY <1>1, <1>2

\* Numbering stays as the next content comes.
LEMMA NextContent ==
  ASSUME NEW s \in Seq(1..MaxContents), NEW n \in 0..MaxContents, n < MaxContents
  PROVE  /\ n + 1 \in 1..MaxContents
         /\ Append(s, n + 1) \in Seq(1..MaxContents) /\ Append(s, n + 1) # <<>>
         /\ Len(Append(s, n + 1)) = Len(s) + 1 /\ Len(s) \in Nat
         /\ DOMAIN s = 1..Len(s) /\ DOMAIN Append(s, n + 1) = 1..(Len(s) + 1)
         /\ \A i \in 1..Len(s) : Append(s, n + 1)[i] = s[i]
         /\ Append(s, n + 1)[Len(s) + 1] = n + 1
         /\ Last(Append(s, n + 1)) = n + 1
<1>1. n + 1 \in 1..MaxContents
  BY TopicConstants
<1>2. /\ Append(s, n + 1) \in Seq(1..MaxContents) /\ Append(s, n + 1) # <<>>
      /\ Len(Append(s, n + 1)) = Len(s) + 1 /\ Len(s) \in Nat
      /\ \A i \in 1..Len(s) : Append(s, n + 1)[i] = s[i]
      /\ Append(s, n + 1)[Len(s) + 1] = n + 1
      /\ DOMAIN s = 1..Len(s)
  BY <1>1, AppendProperties, LenProperties
<1>3. DOMAIN Append(s, n + 1) = 1..(Len(s) + 1)
  BY <1>2, LenProperties
<1> QED BY <1>1, <1>2, <1>3 DEF Last

\* A SeqTopic, OneTopic or PopTopic appends a content.
LEMMA Appends ==
  ASSUME IInv, NEW p \in Publishers, append(p)
  PROVE  Whole'
<1> USE DEF setVars
<1>1. /\ UNCHANGED <<subs, detached, m_tail, working, log, count, spc, in_map, tasks, pub>>
      /\ UNCHANGED <<kind, m_snap, m_objects, removed>>
      /\ published' = published + 1 /\ kind # "set" /\ published < MaxContents
      /\ m_new' = IF kind = "one" THEN <<published + 1>> ELSE Append(m_new, published + 1)
      /\ ppc' = [ppc EXCEPT ![p] = "appended"]
  BY DEF append, subVars, listVars
<1>2. /\ m_new \in Seq(1..MaxContents) /\ published \in 0..MaxContents
      /\ m_snap \in Seq(1..MaxContents)
      /\ ppc \in [Publishers -> {"idle", "got", "appended"}]
  BY DEF IInv, TypeOK
<1>3. published + 1 \in 1..MaxContents /\ Len(m_new) \in Nat
  BY <1>1, <1>2, NextContent
<1>4. m_new' \in Seq(1..MaxContents) /\ m_new' # <<>>
  BY <1>1, <1>2, <1>3, NextContent, OneElement
<1>5. NewAreLast'
  <2>1. Len(m_new) <= published /\ \A i \in DOMAIN m_new : m_new[i] = Taken + i
    BY <1>1 DEF IInv, NewAreLast
  <2>2. CASE kind = "one"
    BY <1>1, <1>2, <1>3, <2>2, OneElement DEF NewAreLast, Taken
  <2>3. CASE kind # "one"
    <3>1. /\ Len(m_new') = Len(m_new) + 1 /\ DOMAIN m_new' = 1..(Len(m_new) + 1)
          /\ DOMAIN m_new = 1..Len(m_new)
          /\ \A i \in 1..Len(m_new) : m_new'[i] = m_new[i]
          /\ m_new'[Len(m_new) + 1] = published + 1
      BY <1>1, <1>2, <2>3, NextContent
    <3>2. Taken' = Taken
      BY <1>1, <1>2, <1>3, <3>1 DEF Taken
    <3>3. Taken + (Len(m_new) + 1) = published + 1
      BY <1>2, <1>3 DEF Taken
    <3>4. \A i \in 1..(Len(m_new) + 1) : m_new'[i] = Taken + i
      BY <1>3, <2>1, <3>1, <3>3
    <3>5. Len(m_new') <= published'
      BY <1>1, <1>2, <1>3, <2>1, <3>1
    <3> QED BY <1>1, <2>3, <3>1, <3>2, <3>4, <3>5 DEF NewAreLast
  <2> QED BY <2>2, <2>3
<1>6. /\ Taken \in Int /\ Taken' \in Int /\ Taken <= Taken'
      /\ kind # "one" => Taken' = Taken
  <2>1. CASE kind = "one"
    <3>1. Len(m_new') = 1
      BY <1>1, <1>3, <2>1, OneElement
    <3> QED BY <1>1, <1>2, <1>3, <2>1, <3>1 DEF Taken
  <2>2. CASE kind # "one"
    <3>1. Len(m_new') = Len(m_new) + 1
      BY <1>1, <1>2, <2>2, NextContent
    <3> QED BY <1>1, <1>2, <1>3, <3>1 DEF Taken
  <2> QED BY <2>1, <2>2
<1>7. OneKept'
  <2>1. \A i \in DOMAIN m_snap : m_snap[i] \in 1..MaxContents
    BY <1>2, LenProperties
  <2> QED BY <1>1, <1>6, <2>1 DEF IInv, OneKept
<1>8. SetKept'
  BY <1>1 DEF SetKept
<1>9. InStep'
  <2> SUFFICES ASSUME NEW y \in Listening'
               PROVE  /\ (kind = "seq" => SeqTold(Telling(y), Clearing(y)))'
                      /\ (kind = "pop" => PopTold(Telling(y), Clearing(y)))'
                      /\ (kind = "one" => OneTold(Telling(y), Clearing(y)))'
                      /\ (kind = "set" => SetTold(log[y], Owed(y), Clearing(y)))'
    BY DEF InStep
  <2>1. y \in Listening /\ Telling(y)' = Telling(y) /\ Clearing(y)' = Clearing(y)
    BY <1>1 DEF Listening, Telling, Owed, Clearing
  <2>2. (kind = "seq" => SeqTold(Telling(y), Clearing(y)))'
    BY <1>1, <2>1 DEF IInv, InStep, SeqTold
  <2>3. (kind = "pop" => PopTold(Telling(y), Clearing(y)))'
    BY <1>1, <1>6, <2>1 DEF IInv, InStep, PopTold
  <2>4. (kind = "one" => OneTold(Telling(y), Clearing(y)))'
    <3>1. Telling(y) \in Seq(1..MaxContents)
      BY <2>1, ToldTypes, ConcatProperties DEF Telling
    <3>2. \A i \in DOMAIN Telling(y) : Telling(y)[i] \in Int
      BY <3>1, Numbers
    <3>3. kind = "one" => OneTold(Telling(y), Clearing(y))
      BY <2>1 DEF IInv, InStep
    <3> QED BY <1>1, <1>6, <2>1, <3>2, <3>3 DEF OneTold
  <2>5. (kind = "set" => SetTold(log[y], Owed(y), Clearing(y)))'
    BY <1>1
  <2> QED BY <2>2, <2>3, <2>4, <2>5
<1>10. PublishThread' /\ TellsSubscribersOnly'
  BY <1>1 DEF IInv, PublishThread, MutexFree, Resting, TellsSubscribersOnly
<1>11. TypeOK'
  <2>1. published' \in 0..MaxContents
    BY <1>1, <1>3
  <2> QED BY <1>1, <1>4, <2>1 DEF IInv, TypeOK, Subscribed
<1>12. Counted'
  BY <1>1 DEF IInv, Counted, Subscribed
<1>13. NewHasTask'
  BY <1>1, <1>2 DEF NewHasTask
<1> QED BY <1>5, <1>7, <1>8, <1>9, <1>10, <1>11, <1>12, <1>13 DEF Whole, Tells

\* A SetTopic appends a change of its object, or changes the one it has.
LEMMA AppendsSet ==
  ASSUME IInv, NEW p \in Publishers, append_set(p)
  PROVE  Whole'
<1>1. /\ UNCHANGED <<subs, detached, m_tail, working, log, count, spc, in_map, tasks, pub>>
      /\ UNCHANGED <<kind, m_snap>>
      /\ published' = published + 1 /\ kind = "set" /\ published < MaxContents
      /\ ppc' = [ppc EXCEPT ![p] = "appended"]
  BY DEF append_set, subVars, listVars
<1>2. /\ m_new \in Seq(1..MaxContents) /\ published \in 0..MaxContents
      /\ m_snap \in Seq(1..MaxContents) /\ m_objects \in Seq(1..MaxContents)
      /\ removed \subseteq 1..MaxContents
      /\ ppc \in [Publishers -> {"idle", "got", "appended"}]
  BY DEF IInv, TypeOK
<1>3. published + 1 \in 1..MaxContents /\ Len(m_new) \in Nat
  BY <1>1, <1>2, NextContent
<1>4. /\ Len(m_objects) <= 1
      /\ \A i \in DOMAIN m_objects : m_objects[i] <= published /\ m_objects[i] \notin removed
      /\ \A i \in DOMAIN m_new : m_new[i] <= published
      /\ \A c \in removed : c <= published
      /\ m_new # <<>> => ObjectAfter(m_new) = m_objects
      /\ m_new = <<>> => Snap = m_objects
      /\ m_new = <<>> /\ pub.at \in {"lock", "tell"} => ObjectAfter(pub.set) = m_objects
  BY <1>1 DEF IInv, SetKept
<1>5. /\ m_objects' \in Seq(1..MaxContents) /\ m_new' \in Seq(1..MaxContents)
      /\ removed' \subseteq 1..MaxContents
      /\ SetKept'
      /\ m_new' = <<>> => m_new = <<>> /\ m_objects' = m_objects
  <2>1. CASE m_objects' = <<published + 1>> /\ m_new' = Append(m_new, published + 1)
               /\ UNCHANGED removed
    <3>1. /\ m_objects' \in Seq(1..MaxContents) /\ Len(m_objects') = 1
          /\ DOMAIN m_objects' = {1} /\ m_objects'[1] = published + 1
      BY <1>3, <2>1, OneElement
    <3>2. /\ m_new' \in Seq(1..MaxContents) /\ m_new' # <<>>
          /\ DOMAIN m_new = 1..Len(m_new) /\ DOMAIN m_new' = 1..(Len(m_new) + 1)
          /\ \A i \in 1..Len(m_new) : m_new'[i] = m_new[i]
          /\ m_new'[Len(m_new) + 1] = published + 1 /\ Last(m_new') = published + 1
      BY <1>1, <1>2, <2>1, NextContent
    <3>3. published + 1 \notin removed
      BY <1>2, <1>4
    <3>4. ObjectAfter(m_new)' = m_objects'
      BY <2>1, <3>2, <3>3 DEF ObjectAfter
    <3>5. \A i \in DOMAIN m_new' : m_new'[i] <= published'
      <4>1. \A i \in 1..Len(m_new) : m_new[i] \in 1..MaxContents
        BY <1>2, ElementOfSeq
      <4> QED BY <1>1, <1>2, <1>3, <1>4, <3>2, <4>1
    <3>6. \A c \in removed' : c <= published'
      BY <1>1, <1>2, <1>4, <2>1
    <3>7. \A i \in DOMAIN m_objects' : m_objects'[i] <= published' /\ m_objects'[i] \notin removed'
      BY <1>1, <1>3, <2>1, <3>1, <3>3
    <3> QED BY <1>2, <2>1, <3>1, <3>2, <3>4, <3>5, <3>6, <3>7 DEF SetKept
  <2>2. CASE m_objects' = <<>> /\ m_new' = m_new \o m_objects
               /\ removed' = removed \cup ToSet(m_objects)
    <3>1. CASE m_objects = <<>>
      <4>1. m_new' = m_new /\ removed' = removed /\ m_objects' = m_objects
        BY <1>2, <2>2, <3>1, ConcatEmptySeq DEF ToSet
      <4>2. /\ \A i \in DOMAIN m_new' : m_new'[i] <= published'
            /\ \A c \in removed' : c <= published'
        <5>1. \A i \in DOMAIN m_new : m_new[i] \in Int
          BY <1>2, Numbers
        <5> QED BY <1>1, <1>2, <1>4, <4>1, <5>1
      <4>3. /\ ObjectAfter(m_new)' = ObjectAfter(m_new) /\ Snap' = Snap
            /\ ObjectAfter(pub.set)' = ObjectAfter(pub.set) /\ pub' = pub
        BY <1>1, <4>1 DEF ObjectAfter, Snap, Told
      <4>4. Len(m_objects') <= 1 /\ DOMAIN m_objects' = {}
        BY <3>1, <4>1
      <4>5. SetKept'
        BY <1>4, <4>1, <4>2, <4>3, <4>4 DEF SetKept
      <4> QED BY <1>2, <4>1, <4>5
    <3>2. CASE m_objects # <<>>
      <4>1. Len(m_objects) = 1 /\ DOMAIN m_objects = {1} /\ m_objects = <<m_objects[1]>>
        BY <1>2, <1>4, <3>2, Short
      <4>2. PICK o : o = m_objects[1]
        OBVIOUS
      <4>3. o \in 1..MaxContents /\ o <= published
        BY <1>2, <1>4, <4>1, <4>2, Numbers
      <4>4. m_new' = Append(m_new, o) /\ removed' = removed \cup {o}
        <5>1. m_new \o <<o>> = Append(m_new, o)
          BY <1>2, <4>3, AppendIsConcat
        <5>2. ToSet(m_objects) = {o}
          BY <4>1, <4>2 DEF ToSet
        <5> QED BY <2>2, <4>1, <4>2, <5>1, <5>2
      <4>5. /\ m_new' \in Seq(1..MaxContents) /\ m_new' # <<>> /\ Len(m_new') = Len(m_new) + 1
            /\ DOMAIN m_new = 1..Len(m_new) /\ DOMAIN m_new' = 1..(Len(m_new) + 1)
            /\ \A i \in 1..Len(m_new) : m_new'[i] = m_new[i]
            /\ m_new'[Len(m_new) + 1] = o
        <5>1. /\ m_new' \in Seq(1..MaxContents) /\ m_new' # <<>> /\ Len(m_new') = Len(m_new) + 1
              /\ \A i \in 1..Len(m_new) : m_new'[i] = m_new[i]
              /\ m_new'[Len(m_new) + 1] = o
          BY <1>2, <4>3, <4>4, AppendProperties
        <5> QED BY <1>2, <5>1, LenProperties
      <4>6. Last(m_new') = o
        BY <4>5 DEF Last
      <4>7. ObjectAfter(m_new)' = m_objects'
        BY <2>2, <4>4, <4>6 DEF ObjectAfter
      <4>8. /\ \A i \in DOMAIN m_new' : m_new'[i] <= published'
            /\ \A c \in removed' : c <= published'
        <5>1. \A i \in 1..Len(m_new) : m_new[i] \in 1..MaxContents
          BY <1>2, ElementOfSeq
        <5>2. \A i \in 1..(Len(m_new) + 1) : i \in 1..Len(m_new) \/ i = Len(m_new) + 1
          BY <1>3
        <5>3. \A i \in DOMAIN m_new' : m_new'[i] \in Int /\ m_new'[i] <= published
          BY <1>4, <4>3, <4>5, <5>1, <5>2
        <5>4. \A c \in removed' : c \in Int /\ c <= published
          BY <1>2, <1>4, <4>3, <4>4
        <5> QED BY <1>1, <1>2, <5>3, <5>4
      <4>9. Len(m_objects') <= 1 /\ DOMAIN m_objects' = {} /\ m_objects' \in Seq(1..MaxContents)
        BY <2>2, EmptySeq
      <4>10. SetKept'
        BY <4>5, <4>7, <4>8, <4>9 DEF SetKept
      <4>11. removed' \subseteq 1..MaxContents
        BY <1>2, <4>3, <4>4
      <4> QED BY <4>5, <4>9, <4>10, <4>11
    <3> QED BY <3>1, <3>2
  <2> QED BY <2>1, <2>2 DEF append_set
<1>6. NewAreLast' /\ OneKept'
  BY <1>1 DEF NewAreLast, OneKept
<1>7. InStep'
  <2> SUFFICES ASSUME NEW y \in Listening'
               PROVE  SetTold(log[y], Owed(y), Clearing(y))'
    BY <1>1 DEF InStep
  <2>1. y \in Listening /\ Owed(y)' = Owed(y) /\ Clearing(y)' = Clearing(y) /\ log' = log
    BY <1>1 DEF Listening, Owed, Clearing
  <2>2. SetTold(log[y], Owed(y), Clearing(y))
    BY <1>1, <2>1 DEF IInv, InStep
  <2> QED BY <1>5, <2>1, <2>2 DEF SetTold
<1>8. PublishThread' /\ TellsSubscribersOnly'
  BY <1>1 DEF IInv, PublishThread, MutexFree, Resting, TellsSubscribersOnly
<1>9. TypeOK'
  <2>1. published' \in 0..MaxContents
    BY <1>1, <1>3
  <2> QED BY <1>1, <1>5, <2>1 DEF IInv, TypeOK, Subscribed
<1>10. Counted'
  BY <1>1 DEF IInv, Counted, Subscribed
<1>11. NewHasTask'
  BY <1>1, <1>2 DEF NewHasTask
<1> QED BY <1>5, <1>6, <1>7, <1>8, <1>9, <1>10, <1>11 DEF Whole, Tells


\* What was told, with news behind it.
LEMMA ToldMore ==
  ASSUME NEW t \in Seq(1..MaxContents), NEW n \in Seq(1..MaxContents), n # <<>>
  PROVE  /\ t \o n \in Seq(1..MaxContents) /\ t \o n # <<>>
         /\ DOMAIN (t \o n) = 1..(Len(t) + Len(n)) /\ Len(t \o n) = Len(t) + Len(n)
         /\ \A i \in 1..Len(t) : (t \o n)[i] = t[i]
         /\ \A i \in (Len(t) + 1)..(Len(t) + Len(n)) : (t \o n)[i] = n[i - Len(t)]
         /\ Last(t \o n) = n[Len(n)] /\ Len(n) >= 1
<1>1. /\ t \o n \in Seq(1..MaxContents) /\ Len(t \o n) = Len(t) + Len(n)
      /\ \A i \in 1..(Len(t) + Len(n)) : (t \o n)[i] = IF i <= Len(t) THEN t[i] ELSE n[i - Len(t)]
  BY ConcatProperties
<1>2. Len(t) \in Nat /\ Len(n) \in Nat /\ Len(n) >= 1
  BY LenProperties, EmptySeq
<1>3. DOMAIN (t \o n) = 1..(Len(t) + Len(n))
  BY <1>1, LenProperties
<1>4. \A i \in 1..Len(t) : (t \o n)[i] = t[i]
  BY <1>1, <1>2
<1>5. \A i \in (Len(t) + 1)..(Len(t) + Len(n)) : (t \o n)[i] = n[i - Len(t)]
  BY <1>1, <1>2
<1>6. Len(t) + Len(n) \in (Len(t) + 1)..(Len(t) + Len(n)) /\ (Len(t) + Len(n)) - Len(t) = Len(n)
  BY <1>2
<1>7. Last(t \o n) = n[Len(n)]
  BY <1>1, <1>5, <1>6 DEF Last
<1>8. t \o n # <<>>
  BY <1>1, <1>2, EmptySeq
<1> QED BY <1>1, <1>2, <1>3, <1>4, <1>5, <1>7, <1>8

\* Contents told one by one, and the next ones behind them.
LEMMA PopMore ==
  ASSUME NEW t \in Seq(1..MaxContents), NEW n \in Seq(1..MaxContents), n # <<>>,
         NEW k \in Int, \A i \in DOMAIN n : n[i] = k + i,
         \A i \in 1..(Len(t) - 1) : t[i + 1] = t[i] + 1, t = <<>> \/ Last(t) = k
  PROVE  /\ \A i \in 1..(Len(t \o n) - 1) : (t \o n)[i + 1] = (t \o n)[i] + 1
         /\ Last(t \o n) = k + Len(n)
<1> DEFINE u == t \o n
<1>1. /\ Len(u) = Len(t) + Len(n) /\ Last(u) = n[Len(n)] /\ Len(n) >= 1
      /\ \A i \in 1..Len(t) : u[i] = t[i]
      /\ \A i \in (Len(t) + 1)..(Len(t) + Len(n)) : u[i] = n[i - Len(t)]
  BY ToldMore
<1>2. /\ Len(t) \in Nat /\ Len(n) \in Nat /\ DOMAIN n = 1..Len(n)
      /\ Len(t) # 0 => t[Len(t)] = k
  <2>1. Len(t) # 0 => t # <<>>
    BY EmptySeq
  <2> QED BY <2>1, Numbers DEF Last
<1> HIDE DEF u
<1>3. \A i \in (Len(t) + 1)..(Len(t) + Len(n)) : u[i] = k + (i - Len(t))
  <2>1. \A i \in (Len(t) + 1)..(Len(t) + Len(n)) : i - Len(t) \in DOMAIN n
    BY <1>2
  <2> QED BY <1>1, <2>1
<1>4. \A i \in 1..(Len(u) - 1) : u[i + 1] = u[i] + 1
  <2> SUFFICES ASSUME NEW i \in 1..(Len(u) - 1)
               PROVE  u[i + 1] = u[i] + 1
    OBVIOUS
  <2>1. CASE i < Len(t)
    <3>1. i \in 1..(Len(t) - 1) /\ i \in 1..Len(t) /\ i + 1 \in 1..Len(t)
      BY <1>2, <2>1
    <3> QED BY <3>1, <1>1
  <2>2. CASE i = Len(t)
    <3>1. i \in 1..Len(t) /\ i + 1 \in (Len(t) + 1)..(Len(t) + Len(n)) /\ (i + 1) - Len(t) = 1
      BY <1>1, <1>2, <2>2
    <3>2. u[i] = k /\ u[i + 1] = k + 1
      BY <3>1, <1>1, <1>2, <1>3, <2>2
    <3> QED BY <3>2
  <2>3. CASE i > Len(t)
    <3>1. /\ i \in (Len(t) + 1)..(Len(t) + Len(n))
          /\ i + 1 \in (Len(t) + 1)..(Len(t) + Len(n))
      BY <1>1, <1>2, <2>3
    <3>2. u[i] = k + (i - Len(t)) /\ u[i + 1] = k + ((i + 1) - Len(t))
      BY <3>1, <1>3
    <3> QED BY <3>2, <1>2
  <2> QED BY <1>2, <2>1, <2>2, <2>3
<1>5. Last(u) = k + Len(n)
  BY <1>1, <1>2
<1> QED BY <1>4, <1>5 DEF u

\* Contents told in order, and a later one behind them.
LEMMA OneMore ==
  ASSUME NEW t \in Seq(1..MaxContents), NEW n \in Seq(1..MaxContents), Len(n) = 1,
         NEW k \in Int, n[1] = k + 1,
         \A i, j \in DOMAIN t : i < j => t[i] < t[j], \A i \in DOMAIN t : t[i] <= k
  PROVE  /\ \A i, j \in DOMAIN (t \o n) : i < j => (t \o n)[i] < (t \o n)[j]
         /\ \A i \in DOMAIN (t \o n) : (t \o n)[i] <= k + 1
         /\ t \o n # <<>> /\ Last(t \o n) = n[1]
<1> DEFINE u == t \o n
<1>1. n # <<>>
  <2>1. Len(n) <= 1 /\ Len(n) # 0
    OBVIOUS
  <2> QED BY <2>1, Short, EmptySeq
<1>2. /\ DOMAIN u = 1..(Len(t) + 1) /\ Last(u) = n[1] /\ u # <<>>
      /\ \A i \in 1..Len(t) : u[i] = t[i]
      /\ \A i \in (Len(t) + 1)..(Len(t) + 1) : u[i] = n[i - Len(t)]
  BY <1>1, ToldMore
<1>3. Len(t) \in Nat /\ DOMAIN t = 1..Len(t) /\ \A i \in DOMAIN t : t[i] \in Int
  BY Numbers
<1> HIDE DEF u
<1>4. u[Len(t) + 1] = k + 1
  <2>1. Len(t) + 1 \in (Len(t) + 1)..(Len(t) + 1) /\ (Len(t) + 1) - Len(t) = 1
    BY <1>3
  <2> QED BY <1>2, <2>1
<1>5. \A i \in 1..(Len(t) + 1) : i \in 1..Len(t) \/ i = Len(t) + 1
  BY <1>3
<1>6. \A i \in 1..Len(t) : u[i] \in Int /\ u[i] <= k
  BY <1>2, <1>3
<1>7. \A i \in DOMAIN u : u[i] <= k + 1
  BY <1>2, <1>4, <1>5, <1>6
<1>8. \A i, j \in DOMAIN u : i < j => u[i] < u[j]
  <2> SUFFICES ASSUME NEW i \in 1..(Len(t) + 1), NEW j \in 1..(Len(t) + 1), i < j
               PROVE  u[i] < u[j]
    BY <1>2
  <2>1. i \in 1..Len(t)
    BY <1>3
  <2>2. CASE j = Len(t) + 1
    BY <1>4, <1>6, <2>1, <2>2
  <2>3. CASE j \in 1..Len(t)
    BY <1>2, <1>3, <2>1, <2>3
  <2> QED BY <1>5, <2>2, <2>3
<1> QED BY <1>2, <1>7, <1>8 DEF u


\* do_move() of no news is nothing; of news, it is owed to all who listen.
LEMMA DoMoveNone ==
  ASSUME IInv, do_move, m_new = <<>>
  PROVE  Tells' /\ TypeOK'
<1> USE DEF subVars, listVars
<1>1. /\ UNCHANGED contentVars /\ UNCHANGED <<subs, working, log, pub>>
      /\ UNCHANGED <<kind, in_map, m_new, m_snap, published, m_objects, removed, ppc, spc,
                     subs, m_tail, detached, count, working, log>>
  BY DEF do_move, Running, contentVars, setVars
<1>2. Tells'
  BY <1>1, QuietStep
<1>3. tasks' \in Seq(Task)
  BY RunTakes DEF IInv, TypeOK, do_move
<1>4. TypeOK'
  BY <1>1, <1>3 DEF IInv, TypeOK, Subscribed
<1> QED BY <1>2, <1>4

\* The publish thread moves the new contents to the snapshot, and owes them to everyone.
LEMMA DoMoveNews ==
  ASSUME IInv, do_move, m_new # <<>>
  PROVE  Tells' /\ TypeOK'
<1>1. PICK n : n = m_new
  OBVIOUS
<1>2. /\ UNCHANGED <<kind, in_map, published, m_objects, removed, ppc, spc, subs, m_tail,
                     detached, count, working, log>>
      /\ pub = Resting /\ pub' = [at |-> "lock", set |-> n, left |-> <<>>]
      /\ m_new' = <<>> /\ n # <<>>
      /\ m_snap' = CASE kind = "seq" -> m_snap \o n
                     [] kind = "one" -> n
                     [] kind = "pop" -> <<>>
                     [] kind = "set" -> ObjectAfter(n)
  BY <1>1 DEF do_move, Running, subVars, listVars, setVars
<1>3. kind \in {"seq", "one", "pop", "set"}
  BY TopicConstants DEF IInv, TypeOK
<1>4. /\ n \in Seq(1..MaxContents) /\ m_snap \in Seq(1..MaxContents)
      /\ log \in [Subscription -> Seq(1..MaxContents)]
      /\ published \in 0..MaxContents /\ m_objects \in Seq(1..MaxContents)
  BY <1>1 DEF IInv, TypeOK
<1>5. Len(n) \in Nat /\ DOMAIN n = 1..Len(n) /\ Len(n) >= 1
  BY <1>2, <1>4, LastOf, Numbers
<1>6. Taken = published - Len(n) /\ Taken' = published /\ Taken \in Int
  BY <1>1, <1>2, <1>4, <1>5 DEF Taken
<1>7. /\ kind # "set" => Len(n) <= published /\ \A i \in DOMAIN n : n[i] = Taken + i
      /\ kind = "one" => Len(n) = 1
  BY <1>1, <1>5 DEF IInv, NewAreLast
<1>8. /\ kind = "seq" => m_snap' = m_snap \o n
      /\ kind = "one" => m_snap' = n
      /\ kind = "pop" => m_snap' = <<>>
      /\ kind = "set" => m_snap' = ObjectAfter(n) /\ ObjectAfter(n) = m_objects
  <2>1. kind = "set" => ObjectAfter(n) = m_objects
    BY <1>1, <1>2 DEF IInv, SetKept
  <2> QED BY <1>2, <2>1
<1>9. m_snap' \in Seq(1..MaxContents)
  <2>1. kind = "set" => m_snap' = m_objects
    BY <1>8
  <2>2. m_snap \o n \in Seq(1..MaxContents) /\ <<>> \in Seq(1..MaxContents)
    BY <1>4, ConcatProperties, EmptySeq
  <2> QED BY <1>3, <1>4, <1>8, <2>1, <2>2
<1>10. NewAreLast'
  BY <1>2, <1>4 DEF NewAreLast
<1>11. OneKept'
  <2> SUFFICES ASSUME kind = "one"
               PROVE  Len(m_snap') <= 1 /\ \A i \in DOMAIN m_snap' : m_snap'[i] <= Taken'
    BY <1>2 DEF OneKept
  <2>0. Len(n) = 1 /\ DOMAIN n = {1}
    BY <1>4, <1>7, Short
  <2>1. m_snap' = n /\ Len(n) = 1 /\ DOMAIN n = {1} /\ n[1] = Taken + 1
    BY <1>7, <1>8, <2>0
  <2>2. Taken + 1 = Taken'
    BY <1>4, <1>6, <2>1
  <2> QED BY <2>1, <2>2, <1>4, <1>6
<1>12. SetKept'
  <2> SUFFICES ASSUME kind = "set"
               PROVE  SetKept'
    BY <1>2 DEF SetKept
  <2>1. /\ Len(m_objects) <= 1
        /\ \A i \in DOMAIN m_objects : m_objects[i] <= published /\ m_objects[i] \notin removed
        /\ \A c \in removed : c <= published
    BY DEF IInv, SetKept
  <2>2. Snap' = m_objects'
    <3>1. m_snap' = m_objects
      BY <1>8
    <3>2. CASE m_objects = <<>>
      <4>1. <<>> \o <<>> = <<>>
        BY <1>4, <3>2, ConcatEmptySeq
      <4> QED BY <1>2, <3>1, <3>2, <4>1 DEF Snap, Told
    <3>3. CASE m_objects # <<>>
      <4>1. m_objects = <<m_objects[1]>> /\ Last(m_objects) = m_objects[1] /\ 1 \in DOMAIN m_objects
        BY <1>4, <2>1, <3>3, Short
      <4>2. Last(m_objects) \notin removed
        BY <2>1, <4>1
      <4>3. Snap' = IF Last(m_objects) \in removed THEN <<>> ELSE <<Last(m_objects)>>
        BY <1>2, <3>1, <3>3 DEF Snap, Told, ObjectAfter
      <4> QED BY <1>2, <4>1, <4>2, <4>3
    <3> QED BY <3>2, <3>3
  <2>3. ObjectAfter(pub.set)' = m_objects'
    BY <1>2, <1>8 DEF ObjectAfter
  <2>4. \A i \in DOMAIN m_new' : m_new'[i] <= published'
    BY <1>2
  <2> QED BY <1>2, <2>1, <2>2, <2>3, <2>4 DEF SetKept
<1>13. InStep'
  <2> SUFFICES ASSUME NEW y \in Listening'
               PROVE  /\ (kind = "seq" => SeqTold(Telling(y), Clearing(y)))'
                      /\ (kind = "pop" => PopTold(Telling(y), Clearing(y)))'
                      /\ (kind = "one" => OneTold(Telling(y), Clearing(y)))'
                      /\ (kind = "set" => SetTold(log[y], Owed(y), Clearing(y)))'
    BY DEF InStep
  <2>1. y \in Listening /\ y \in Subscription
    BY <1>2, ToldTypes DEF Listening
  <2>2. PICK t : t = log[y]
    OBVIOUS
  <2>3. t \in Seq(1..MaxContents)
    BY <1>4, <2>1, <2>2
  <2>4. Clearing(y) = FALSE /\ Owed(y) = <<>> /\ Clearing(y)' = FALSE /\ Owed(y)' = n
    BY <1>2 DEF Clearing, Owed, Resting
  <2>5. Telling(y) = t /\ Telling(y)' = t \o n
    BY <1>2, <2>2, <2>3, <2>4, ConcatEmptySeq DEF Telling
  <2>6. (kind = "seq" => SeqTold(Telling(y), Clearing(y)))'
    <3>1. kind = "seq" => t = m_snap
      BY <2>1, <2>4, <2>5 DEF IInv, InStep, SeqTold
    <3> QED BY <1>2, <1>8, <2>5, <3>1 DEF SeqTold
  <2>7. (kind = "pop" => PopTold(Telling(y), Clearing(y)))'
    <3> SUFFICES ASSUME kind = "pop"
                 PROVE  /\ \A i \in 1..(Len(t \o n) - 1) : (t \o n)[i + 1] = (t \o n)[i] + 1
                        /\ Last(t \o n) = Taken'
      BY <1>2, <2>5 DEF PopTold
    <3>1. /\ \A i \in 1..(Len(t) - 1) : t[i + 1] = t[i] + 1
          /\ t = <<>> \/ Last(t) = Taken
      BY <2>1, <2>4, <2>5 DEF IInv, InStep, PopTold
    <3>2. Taken' = Taken + Len(n)
      BY <1>4, <1>5, <1>6
    <3> QED BY <1>2, <1>4, <1>6, <1>7, <2>3, <3>1, <3>2, PopMore
  <2>8. (kind = "one" => OneTold(Telling(y), Clearing(y)))'
    <3> SUFFICES ASSUME kind = "one"
                 PROVE  /\ \A i, j \in DOMAIN (t \o n) : i < j => (t \o n)[i] < (t \o n)[j]
                        /\ \A i \in DOMAIN (t \o n) : (t \o n)[i] <= Taken'
                        /\ t \o n # <<>> /\ Last(t \o n) = Last(m_snap')
      BY <1>2, <2>5 DEF OneTold
    <3>1. /\ \A i, j \in DOMAIN t : i < j => t[i] < t[j]
          /\ \A i \in DOMAIN t : t[i] <= Taken
      BY <2>1, <2>4, <2>5 DEF IInv, InStep, OneTold
    <3>0. Len(n) = 1 /\ DOMAIN n = {1} /\ Last(n) = n[1]
      BY <1>2, <1>4, <1>5, <1>7, Short
    <3>2. Len(n) = 1 /\ n[1] = Taken + 1 /\ Last(m_snap') = n[1]
      BY <1>7, <1>8, <3>0
    <3>3. Taken' = Taken + 1
      BY <1>4, <1>6, <3>2
    <3> QED BY <1>4, <1>6, <2>3, <3>1, <3>2, <3>3, OneMore
  <2>9. (kind = "set" => SetTold(log[y], Owed(y), Clearing(y)))'
    BY <1>2, <2>4 DEF SetTold
  <2> QED BY <2>6, <2>7, <2>8, <2>9
<1>14. PublishThread' /\ TellsSubscribersOnly'
  BY <1>2, InjectiveEmpty DEF PublishThread, MutexFree, TellsSubscribersOnly, ToSet
<1>15. TypeOK'
  <2>1. pub' \in [at : {"idle", "lock", "lock_clear", "tell", "tell_clear"},
                  set : Seq(1..MaxContents), left : Seq(Subscription)]
    BY <1>2, <1>4, EmptySeq
  <2>2. tasks' \in Seq(Task) /\ m_new' \in Seq(1..MaxContents)
    BY <1>2, RunTakes, EmptySeq DEF IInv, TypeOK, do_move
  <2> QED BY <1>2, <1>9, <2>1, <2>2 DEF IInv, TypeOK, Subscribed
<1> QED BY <1>10, <1>11, <1>12, <1>13, <1>14, <1>15 DEF Tells

\* The same, when there may be none.
LEMMA DoMove ==
  ASSUME IInv, do_move
  PROVE  Whole'
<1>1. Counted'
  BY DEF IInv, Counted, Subscribed, do_move, subVars, listVars
<1>2. NewHasTask'
  BY DEF NewHasTask, do_move
<1> QED BY <1>1, <1>2, DoMoveNone, DoMoveNews DEF Whole

\* The publish thread clears the contents.
LEMMA DoClear ==
  ASSUME IInv, do_clear
  PROVE  Whole'
<1>1. /\ UNCHANGED <<kind, in_map, published, removed, ppc, spc, subs, m_tail,
                     detached, count, working, log>>
      /\ pub = Resting /\ pub' = [at |-> "lock_clear", set |-> <<>>, left |-> <<>>]
      /\ m_new' = <<>> /\ m_snap' = <<>> /\ m_objects' = <<>>
  BY DEF do_clear, Running, subVars, listVars
<1>2. published \in 0..MaxContents /\ log \in [Subscription -> Seq(1..MaxContents)]
      /\ m_new \in Seq(1..MaxContents) /\ removed \subseteq 1..MaxContents
  BY DEF IInv, TypeOK
<1>3. Taken' = published /\ Taken \in Int /\ Taken <= published
  BY <1>1, <1>2, Numbers DEF Taken
<1>4. NewAreLast' /\ OneKept'
  BY <1>1, <1>2 DEF NewAreLast, OneKept
<1>5. SetKept'
  <2>1. <<>> \o <<>> = <<>>
    BY EmptySeq, ConcatEmptySeq
  <2>2. kind = "set" => Snap' = <<>>
    BY <1>1, <2>1 DEF Snap, Told
  <2>3. kind = "set" => \A c \in removed : c <= published
    BY DEF IInv, SetKept
  <2> QED BY <1>1, <2>2, <2>3 DEF SetKept
<1>6. InStep'
  <2> SUFFICES ASSUME NEW y \in Listening'
               PROVE  /\ (kind = "seq" => SeqTold(Telling(y), Clearing(y)))'
                      /\ (kind = "pop" => PopTold(Telling(y), Clearing(y)))'
                      /\ (kind = "one" => OneTold(Telling(y), Clearing(y)))'
                      /\ (kind = "set" => SetTold(log[y], Owed(y), Clearing(y)))'
    BY DEF InStep
  <2>1. y \in Listening
    BY <1>1 DEF Listening
  <2>2. Clearing(y)' = TRUE /\ Owed(y)' = Owed(y) /\ Telling(y)' = Telling(y)
    BY <1>1 DEF Clearing, Owed, Telling, Resting
  <2>3. (kind = "seq" => SeqTold(Telling(y), Clearing(y)))'
    BY <2>2 DEF SeqTold
  <2>4. (kind = "pop" => PopTold(Telling(y), Clearing(y)))'
    BY <1>1, <2>1, <2>2 DEF IInv, InStep, PopTold
  <2>5. (kind = "one" => OneTold(Telling(y), Clearing(y)))'
    <3>1. Telling(y) \in Seq(1..MaxContents)
      BY <2>1, ToldTypes, ConcatProperties DEF Telling
    <3>2. \A i \in DOMAIN Telling(y) : Telling(y)[i] \in Int
      BY <3>1, Numbers
    <3>3. kind = "one" => OneTold(Telling(y), Clearing(y))
      BY <2>1 DEF IInv, InStep
    <3> QED BY <1>1, <1>2, <1>3, <2>2, <3>2, <3>3 DEF OneTold
  <2>6. (kind = "set" => SetTold(log[y], Owed(y), Clearing(y)))'
    BY <2>2 DEF SetTold
  <2> QED BY <2>3, <2>4, <2>5, <2>6
<1>7. PublishThread' /\ TellsSubscribersOnly'
  BY <1>1, InjectiveEmpty DEF PublishThread, MutexFree, TellsSubscribersOnly, ToSet
<1>8. TypeOK'
  <2>1. pub' \in [at : {"idle", "lock", "lock_clear", "tell", "tell_clear"},
                  set : Seq(1..MaxContents), left : Seq(Subscription)]
    BY <1>1, EmptySeq
  <2>2. /\ tasks' \in Seq(Task) /\ m_new' \in Seq(1..MaxContents)
        /\ m_snap' \in Seq(1..MaxContents) /\ m_objects' \in Seq(1..MaxContents)
    BY <1>1, RunTakes, EmptySeq DEF IInv, TypeOK, do_clear
  <2> QED BY <1>1, <2>1, <2>2 DEF IInv, TypeOK, Subscribed
<1>9. Counted'
  BY <1>1 DEF IInv, Counted, Subscribed
<1>10. NewHasTask'
  BY <1>1 DEF NewHasTask
<1> QED BY <1>4, <1>5, <1>6, <1>7, <1>8, <1>9, <1>10 DEF Whole, Tells

-----------------------------------------------------------------------------
(* The theorems *)

\* No topic, no subscription, no task.
LEMMA Start == Init => IInv
<1> SUFFICES ASSUME Init PROVE IInv
  OBVIOUS
<1> USE DEF Init
<1>1. ToSet(<<>>) = {} /\ <<>> \in Seq(1..MaxContents) /\ IsInjective(<<>>)
  BY EmptySeq, InjectiveEmpty DEF ToSet
<1>2. TypeOK
  <2>1. MaxContents \in Nat /\ MaxSubs \in Nat
    BY TopicConstants
  <2>2. subs \in Seq(Subscription) /\ tasks \in Seq(Task)
    BY EmptySeq
  <2>3. pub \in [at : {"idle", "lock", "lock_clear", "tell", "tell_clear"},
                 set : Seq(1..MaxContents), left : Seq(Subscription)]
    BY EmptySeq DEF Resting
  <2> QED BY <1>1, <2>1, <2>2, <2>3 DEF TypeOK, Subscribed
<1>3. Counted
  BY <1>1 DEF Counted, Subscribed
<1>4. PublishThread /\ TellsSubscribersOnly
  BY <1>1 DEF PublishThread, TellsSubscribersOnly, Resting
<1>5. NewAreLast /\ OneKept
  BY TopicConstants DEF NewAreLast, OneKept
<1>6. SetKept
  <2>1. <<>> \o <<>> = <<>>
    BY EmptySeq, ConcatEmptySeq
  <2>2. kind = "set" => Snap = <<>>
    BY <2>1 DEF Snap, Told
  <2> QED BY <2>2 DEF SetKept, Resting
<1>7. InStep
  BY DEF InStep, Listening
<1>8. NewHasTask
  BY DEF NewHasTask
<1> QED BY <1>2, <1>3, <1>4, <1>5, <1>6, <1>7, <1>8 DEF IInv

\* Every step.
LEMMA Step == IInv /\ [Next]_vars => IInv'
<1> SUFFICES ASSUME IInv, [Next]_vars PROVE Whole'
  BY DEF IInv, Whole, Tells
<1>1. ASSUME NEW p \in Publishers, get_topic(p) \/ append(p) \/ append_set(p) \/ post_new(p)
      PROVE  Whole'
  BY <1>1, GetTopic, Appends, AppendsSet, PostNew
<1>2. CASE clear_content \/ erase_topic
  BY <1>2, ClearContentCalled, EraseTopicCalled
<1>3. ASSUME NEW s \in Subscribers,
             subscribe(s) \/ reserve_subscribe(s) \/ post_snap(s) \/ unsubscribe(s)
      PROVE  Whole'
  BY <1>3, SubscribeCalled, ReserveSubscribe, PostSnap, Unsubscribe
<1>4. CASE PublishStep
  BY <1>4, PublishSnap, DoMove, DoClear, Lock, Tell, Unlock, PublishEraseTopic, Destroy
     DEF PublishStep
<1>5. CASE UNCHANGED vars
  <2> USE <1>5 DEF vars, topicVars, subVars, listVars
  <2>1. Tells'
    BY QuietStep DEF contentVars
  <2>2. TypeOK'
    BY DEF IInv, TypeOK, Subscribed, setVars
  <2>3. Counted' /\ NewHasTask'
    BY DEF IInv, Counted, Subscribed, NewHasTask
  <2> QED BY <2>1, <2>2, <2>3 DEF Whole
<1> QED BY <1>1, <1>2, <1>3, <1>4, <1>5 DEF Next

\* Each step keeps the inductive invariant, whatever the kind of the topic.
THEOREM Inductive == Spec => []IInv
<1> QED BY Start, Step, PTL DEF Spec

\* Types, and that a subscription is in one place of the list (Topic.h).
THEOREM TypeCorrect == Spec => []TypeOK
<1>1. IInv => TypeOK
  BY DEF IInv
<1> QED BY <1>1, Inductive, PTL

\* Snap and news of a SeqTopic meet without a gap, and a subscriber of a PopTopic
\* misses nothing after it came (publish_snap, publish_new).
THEOREM SubscribersInStep == Spec => []ToldInStep
<1>1. IInv => ToldInStep
  BY DEF IInv, ToldInStep, InStep, Listening, Telling, SeqTold, PopTold
<1> QED BY <1>1, Inductive, PTL

\* A subscriber of a OneTopic has the latest content taken, and one of a SetTopic
\* the object as it is once nothing is on the way (do_move, do_snap).
THEOREM SubscribersUpToDate == Spec => []ToldLatest
<1>1. ASSUME IInv PROVE ToldLatest
  <2> SUFFICES ASSUME NEW x \in Listening
               PROVE  /\ kind = "set" /\ m_new = <<>> /\ Owed(x) = <<>> /\ ~Clearing(x)
                           => Telling(x) = m_objects
                      /\ kind = "one" =>
                           /\ \A i, j \in DOMAIN Telling(x) : i < j => Telling(x)[i] < Telling(x)[j]
                           /\ m_snap # <<>> /\ ~Clearing(x) =>
                                Telling(x) # <<>> /\ Last(Telling(x)) = Last(m_snap)
    BY DEF ToldLatest, Listening, Telling
  <2>1. kind = "set" /\ m_new = <<>> /\ Owed(x) = <<>> /\ ~Clearing(x) => Telling(x) = m_objects
    <3>1. log[x] \o <<>> = log[x]
      BY <1>1, ToldTypes, ConcatEmptySeq
    <3> QED BY <1>1, <3>1 DEF IInv, InStep, SetTold, Telling
  <2>2. kind = "one" => OneTold(Telling(x), Clearing(x))
    BY <1>1 DEF IInv, InStep
  <2> QED BY <2>1, <2>2 DEF OneTold
<1> QED BY <1>1, Inductive, PTL

\* The publish thread never tells one that has unsubscribed (unsubscribe() takes
\* the mutex the walk holds).
THEOREM NoneToldAfterwards == Spec => []TellsSubscribersOnly
<1>1. IInv => TellsSubscribersOnly
  BY DEF IInv
<1> QED BY <1>1, Inductive, PTL

\* A content never waits for a task nobody posted (publish()).
THEOREM NewsIsPosted == Spec => []NewHasTask
<1>1. IInv => NewHasTask
  BY DEF IInv
<1> QED BY <1>1, Inductive, PTL


=============================================================================
