----------------------------- MODULE TopicServer -----------------------------
(***************************************************************************)
(* Publish and subscribe on one topic of the topic server of thread/topic:  *)
(* TopicServer.h (the calls), Role.h (the publish thread's tasks), Topic.h   *)
(* (the contents a topic keeps) and Subscription.h (who is told).           *)
(*                                                                         *)
(* Publishers and subscribers are threads; one publish thread runs the      *)
(* tasks they post, in order.  It holds the topic's subscribe mutex while   *)
(* it tells subscribers; other critical sections are single steps.  The     *)
(* contents of a topic are the numbers 1, 2, ... in the order published;    *)
(* those of a SetTopic all concern one of its objects.                      *)
(***************************************************************************)
EXTENDS Integers, Sequences, FiniteSets, SequencesExt

CONSTANTS
  Publishers, Subscribers,
  Kinds,         \* the topic is one of these: "seq", "one", "pop", "set"
  MaxContents,   \* bound: contents published
  MaxSubs,       \* bound: subscriptions, all subscribers together
  MaxTasks,      \* bound: tasks queued
  ClearContent,  \* is clear_content() called?
  EraseTopic,    \* is erase_topic() called?
  Nil

ASSUME TopicConstants ==
  /\ Kinds \subseteq {"seq", "one", "pop", "set"}
  /\ {MaxContents, MaxSubs, MaxTasks} \subseteq Nat
  /\ {ClearContent, EraseTopic} \subseteq BOOLEAN
ASSUME SubscribersFinite == IsFiniteSet(Subscribers)

Subscription == Subscribers \X (1..MaxSubs)
Task == [mode : {"snap"}, sub : Subscription]
   \cup [mode : {"new", "clear", "erase"}, sub : {Nil}]

VARIABLES
  kind,        \* get_type(): a SeqTopic, OneTopic, PopTopic or SetTopic
  in_map,      \* is the topic in the server's map?
  m_new,       \* contents appended and not yet taken by the publish thread
  m_snap,      \* contents a new subscriber is told
  published,   \* the last content
  m_objects,   \* of a SetTopic: the object's content, if it is in the set
  removed,     \* of a SetTopic: contents whose timestamp says "removed"
  ppc,         \* publisher -> "idle", "got" (the topic) or "appended"
  spc,         \* subscriber -> "idle", "got" (the topic) or "reserved"
  subs,        \* the subscriptions reached from the topic's m_head, in order
  m_tail,      \* the topic's m_tail, or Nil
  detached,    \* subscriptions that were linked behind an erased one
  count,       \* subscriber -> its number of subscriptions so far
  working,     \* subscriptions with m_working set
  log,         \* subscription -> what on_publish() told it, while it lasts: of
               \* a SetTopic, the object as it was told last
  tasks,       \* the publish server's queue
  pub          \* the publish thread: idle, or what it tells to whom

setVars == <<m_objects, removed>>
topicVars == <<kind, in_map, m_new, m_snap, published, setVars>>
listVars == <<subs, m_tail, detached>>
subVars == <<listVars, count, working, log>>
vars == <<topicVars, ppc, spc, subVars, tasks, pub>>

Resting == [at |-> "idle", set |-> <<>>, left |-> <<>>]

Init ==
  /\ kind \in Kinds
  /\ in_map = TRUE
  /\ m_new = <<>> /\ m_snap = <<>> /\ published = 0
  /\ m_objects = <<>> /\ removed = {}
  /\ ppc = [p \in Publishers |-> "idle"]
  /\ spc = [s \in Subscribers |-> "idle"]
  /\ subs = <<>> /\ m_tail = Nil /\ detached = {}
  /\ count = [s \in Subscribers |-> 0]
  /\ working = {} /\ log = [x \in Subscription |-> <<>>]
  /\ tasks = <<>> /\ pub = Resting

\* The publish thread has the subscribe mutex while it walks the list.
MutexFree == pub.at \notin {"tell", "tell_clear"}
Subscribed == ToSet(subs) \cup detached
\* The subscription a subscriber has, if any.
Current(s) == <<s, count[s]>>
HasTopic(s) == Current(s) \in Subscribed
Post(m, x) ==
  Len(tasks) < MaxTasks /\ tasks' = Append(tasks, [mode |-> m, sub |-> x])

-----------------------------------------------------------------------------
(* Publishers: publish(), clear_content(), erase_topic() *)

\* find_topic(), get_topic() with no maker.
get_topic(p) ==
  /\ ppc[p] = "idle" /\ in_map /\ published < MaxContents
  /\ ppc' = [ppc EXCEPT ![p] = "got"]
  /\ UNCHANGED <<topicVars, spc, subVars, tasks, pub>>

\* append() of a SeqTopic, OneTopic or PopTopic.
append(p) ==
  /\ kind # "set" /\ ppc[p] = "got" /\ published < MaxContents
  /\ ppc' = [ppc EXCEPT ![p] = "appended"]
  /\ published' = published + 1
  /\ m_new' = IF kind = "one" THEN <<published + 1>> ELSE Append(m_new, published + 1)
  /\ UNCHANGED <<kind, in_map, m_snap, setVars, spc, subVars, tasks, pub>>

\* SetTopic::append(): an object is inserted or updated with the content, or
\* the content it has becomes the one that says it is removed, wherever that
\* content is by now; the removal of what is not there is ignored.
append_set(p) ==
  /\ kind = "set" /\ ppc[p] = "got" /\ published < MaxContents
  /\ ppc' = [ppc EXCEPT ![p] = "appended"]
  /\ published' = published + 1
  /\ \/ /\ m_objects' = <<published + 1>> /\ m_new' = Append(m_new, published + 1)
        /\ UNCHANGED removed
     \/ /\ m_objects' = <<>> /\ m_new' = m_new \o m_objects
        /\ removed' = removed \cup ToSet(m_objects)
  /\ UNCHANGED <<kind, in_map, m_snap, spc, subVars, tasks, pub>>

\* Fault: no task is posted while another one is queued.
post_new_idle(p) ==
  /\ ppc[p] = "appended"
  /\ ppc' = [ppc EXCEPT ![p] = "idle"]
  /\ IF tasks = <<>> THEN Post("new", Nil) ELSE UNCHANGED tasks
  /\ UNCHANGED <<topicVars, spc, subVars, pub>>
\* m_publish_server.post(): a task for the new content.
post_new(p) ==
  /\ ppc[p] = "appended"
  /\ ppc' = [ppc EXCEPT ![p] = "idle"]
  /\ Post("new", Nil)
  /\ UNCHANGED <<topicVars, spc, subVars, pub>>

\* Bound: one such task is queued at a time.
clear_content ==
  /\ ClearContent /\ in_map
  /\ \A i \in DOMAIN tasks : tasks[i].mode # "clear"
  /\ Post("clear", Nil)
  /\ UNCHANGED <<topicVars, ppc, spc, subVars, pub>>

\* erase_topic(): pop_topic(), and a task with the topic.
erase_topic ==
  /\ EraseTopic /\ in_map /\ in_map' = FALSE
  /\ Post("erase", Nil)
  /\ UNCHANGED <<kind, m_new, m_snap, published, setVars, ppc, spc, subVars, pub>>

-----------------------------------------------------------------------------
(* Subscribers: subscribe(), unsubscribe() *)

SubsSoFar == Cardinality({x \in Subscription : x[2] <= count[x[1]]})

\* subscribe(): the topic is found; a subscriber that has it is refused.
subscribe(s) ==
  /\ spc[s] = "idle" /\ in_map /\ SubsSoFar < MaxSubs /\ ~HasTopic(s)
  /\ spc' = [spc EXCEPT ![s] = "got"]
  /\ UNCHANGED <<topicVars, ppc, subVars, tasks, pub>>

\* add_topic_subscriber(): m_head when the list is empty, else behind m_tail.
add_topic_subscriber(x) ==
  /\ m_tail' = x
  /\ IF subs = <<>> \/ m_tail = Last(subs)
     THEN subs' = Append(subs, x) /\ UNCHANGED detached
     ELSE detached' = detached \cup {x} /\ UNCHANGED subs

\* Fault: a subscription works from the moment it is reserved.
reserve_subscribe_working(s) ==
  /\ spc[s] = "got" /\ MutexFree
  /\ spc' = [spc EXCEPT ![s] = "reserved"]
  /\ count' = [count EXCEPT ![s] = @ + 1]
  /\ add_topic_subscriber(<<s, count[s] + 1>>)
  /\ working' = working \cup {<<s, count[s] + 1>>}
  /\ UNCHANGED <<topicVars, ppc, log, tasks, pub>>
\* reserve_subscribe(): the subscription is listed, not yet working.
reserve_subscribe(s) ==
  /\ spc[s] = "got" /\ MutexFree
  /\ spc' = [spc EXCEPT ![s] = "reserved"]
  /\ count' = [count EXCEPT ![s] = @ + 1]
  /\ add_topic_subscriber(<<s, count[s] + 1>>)
  /\ UNCHANGED <<topicVars, ppc, working, log, tasks, pub>>

post_snap(s) ==
  /\ spc[s] = "reserved"
  /\ spc' = [spc EXCEPT ![s] = "idle"]
  /\ Post("snap", Current(s))
  /\ UNCHANGED <<topicVars, ppc, subVars, pub>>

Forget(xs) == log' = [x \in Subscription |-> IF x \in xs THEN <<>> ELSE log[x]]

\* Subscription::unsubscribe(): out of the list; m_tail stays as it is.
Unlink(x) ==
  /\ \/ \E i \in DOMAIN subs : subs[i] = x /\ subs' = RemoveAt(subs, i)
     \/ x \notin ToSet(subs) /\ UNCHANGED subs
  /\ detached' = detached \ {x}
  /\ working' = working \ {x}
  /\ Forget({x})
  /\ UNCHANGED m_tail

\* Fault: the subscribe mutex is not taken.
unsubscribe_unlocked(s) ==
  /\ spc[s] = "idle" /\ HasTopic(s) /\ in_map
  /\ Unlink(Current(s))
  /\ UNCHANGED <<topicVars, ppc, spc, count, tasks, pub>>
\* unsubscribe(): a OneTopic that nobody subscribes leaves the map.
unsubscribe(s) ==
  /\ spc[s] = "idle" /\ HasTopic(s) /\ MutexFree /\ in_map
  /\ Unlink(Current(s))
  /\ in_map' = (kind # "one" \/ subs' # <<>>)
  /\ UNCHANGED <<kind, m_new, m_snap, published, setVars, ppc, spc, count, tasks, pub>>

-----------------------------------------------------------------------------
(* The publish thread *)

Running(m) == pub = Resting /\ tasks # <<>> /\ Head(tasks).mode = m

\* The object of a SetTopic after contents with the timestamps they have now.
ObjectAfter(contents) ==
  IF Last(contents) \in removed THEN <<>> ELSE <<Last(contents)>>
\* What a subscriber was told, after being told more.
Told(before, contents) ==
  IF kind = "set" /\ contents # <<>> THEN ObjectAfter(contents) ELSE before \o contents
\* do_snap() tells all that is kept, or the latest content.
Snap == IF kind = "pop" THEN <<>> ELSE Told(<<>>, m_snap)

\* Fault: the snap counts contents that are still new.
publish_snap_all ==
  /\ Running("snap")
  /\ tasks' = Tail(tasks)
  /\ LET x == Head(tasks).sub
     IN  IF x \in Subscribed
         THEN /\ working' = working \cup {x}
              /\ log' = [log EXCEPT ![x] = Snap \o m_new]
         ELSE UNCHANGED <<working, log>>
  /\ UNCHANGED <<topicVars, ppc, spc, listVars, count, pub>>
\* publish_snap(): the subscription, unless it was given up, works and is told.
publish_snap ==
  /\ Running("snap")
  /\ tasks' = Tail(tasks)
  /\ LET x == Head(tasks).sub
     IN  IF x \in Subscribed
         THEN /\ working' = working \cup {x}
              /\ log' = [log EXCEPT ![x] = Snap]
         ELSE UNCHANGED <<working, log>>
  /\ UNCHANGED <<topicVars, ppc, spc, listVars, count, pub>>

\* publish_new(): do_move() takes the new contents into the snap, by kind.
do_move ==
  /\ Running("new")
  /\ tasks' = Tail(tasks)
  /\ m_new' = <<>>
  /\ m_snap' = IF m_new = <<>> THEN m_snap
               ELSE CASE kind = "seq" -> m_snap \o m_new
                      [] kind = "one" -> m_new
                      [] kind = "pop" -> <<>>
                      [] kind = "set" -> ObjectAfter(m_new)
  /\ pub' = IF m_new = <<>> THEN Resting
            ELSE [at |-> "lock", set |-> m_new, left |-> <<>>]
  /\ UNCHANGED <<kind, in_map, published, setVars, ppc, spc, subVars>>

\* publish_clear_content(): do_clear() drops what is kept, and what is new.
do_clear ==
  /\ Running("clear")
  /\ tasks' = Tail(tasks)
  /\ m_new' = <<>> /\ m_snap' = <<>> /\ m_objects' = <<>>
  /\ pub' = [at |-> "lock_clear", set |-> <<>>, left |-> <<>>]
  /\ UNCHANGED <<kind, in_map, published, removed, ppc, spc, subVars>>

\* The mutex is taken, and the list walked from its head.
lock ==
  /\ pub.at \in {"lock", "lock_clear"}
  /\ pub' = [pub EXCEPT !.at = IF @ = "lock" THEN "tell" ELSE "tell_clear",
                        !.left = subs]
  /\ UNCHANGED <<topicVars, ppc, spc, subVars, tasks>>

\* on_publish() or on_clear_content() of the next subscription that works.
tell ==
  /\ ~MutexFree /\ pub.left # <<>>
  /\ LET x == Head(pub.left)
     IN  log' = IF x \notin working THEN log
                ELSE [log EXCEPT ![x] = IF pub.at = "tell" THEN Told(@, pub.set) ELSE <<>>]
  /\ pub' = [pub EXCEPT !.left = Tail(@)]
  /\ UNCHANGED <<topicVars, ppc, spc, listVars, count, working, tasks>>

unlock ==
  /\ ~MutexFree /\ pub.left = <<>>
  /\ pub' = Resting
  /\ UNCHANGED <<topicVars, ppc, spc, subVars, tasks>>

\* publish_erase_topic(): working subscribers are told, all are cleared.
publish_erase_topic ==
  /\ Running("erase")
  /\ tasks' = Tail(tasks)
  /\ subs' = <<>> /\ m_tail' = Nil
  /\ working' = working \ ToSet(subs)
  /\ Forget(ToSet(subs))
  /\ UNCHANGED <<topicVars, ppc, spc, detached, count, pub>>

\* ~Topic() clears the list, once nobody refers to the topic any more.
destroy ==
  /\ ~in_map /\ tasks = <<>> /\ pub = Resting
  /\ \A p \in Publishers : ppc[p] = "idle"
  /\ \A s \in Subscribers : spc[s] = "idle"
  /\ subs # <<>>
  /\ subs' = <<>> /\ m_tail' = Nil
  /\ working' = working \ ToSet(subs)
  /\ Forget(ToSet(subs))
  /\ UNCHANGED <<topicVars, ppc, spc, detached, count, tasks, pub>>

-----------------------------------------------------------------------------
PublishStep ==
  \/ publish_snap \/ do_move \/ do_clear \/ lock \/ tell \/ unlock
  \/ publish_erase_topic \/ destroy

Next ==
  \/ \E p \in Publishers : get_topic(p) \/ append(p) \/ append_set(p) \/ post_new(p)
  \/ clear_content \/ erase_topic
  \/ \E s \in Subscribers :
       subscribe(s) \/ reserve_subscribe(s) \/ post_snap(s) \/ unsubscribe(s)
  \/ PublishStep

Spec == Init /\ [][Next]_vars

-----------------------------------------------------------------------------
(* Properties *)

\* Types, and where subscriptions can be.
TypeOK ==
  /\ kind \in Kinds
  /\ in_map \in BOOLEAN
  /\ m_new \in Seq(1..MaxContents) /\ m_snap \in Seq(1..MaxContents)
  /\ published \in 0..MaxContents
  /\ m_objects \in Seq(1..MaxContents) /\ removed \subseteq 1..MaxContents
  /\ ppc \in [Publishers -> {"idle", "got", "appended"}]
  /\ spc \in [Subscribers -> {"idle", "got", "reserved"}]
  /\ subs \in Seq(Subscription) /\ IsInjective(subs)
  /\ detached \subseteq Subscription \ ToSet(subs)
  /\ m_tail \in Subscription \cup {Nil}
  /\ count \in [Subscribers -> 0..MaxSubs]
  /\ working \subseteq Subscribed
  /\ log \in [Subscription -> Seq(1..MaxContents)]
  /\ tasks \in Seq(Task)
  /\ pub \in [at : {"idle", "lock", "lock_clear", "tell", "tell_clear"},
             set : Seq(1..MaxContents), left : Seq(Subscription)]

\* What the publish thread still has to tell a working subscription.
Owed(x) ==
  IF pub.at = "lock" \/ (pub.at = "tell" /\ x \in ToSet(pub.left)) THEN pub.set ELSE <<>>
Clearing(x) ==
  pub.at = "lock_clear" \/ (pub.at = "tell_clear" /\ x \in ToSet(pub.left))

\* A working subscriber of a SeqTopic has been told exactly what is published,
\* once and in order, whenever it came: snap and news meet without a gap.  One
\* of a PopTopic, which has no snap, has been told everything since it came.
ToldInStep ==
  \A x \in working \cap ToSet(subs) :
    LET told == log[x] \o Owed(x)
    IN  /\ kind = "seq" /\ ~Clearing(x) => told = m_snap
        /\ kind = "pop" => \A i \in 1..(Len(told) - 1) : told[i + 1] = told[i] + 1

\* A working subscriber of a OneTopic has the latest content, whatever it
\* skipped, and is never told an older one after a newer one.  One of a SetTopic,
\* whose contents become removals after they were published, ends with the
\* object as the publishers left it once nothing of it is on the way.
ToldLatest ==
  \A x \in working \cap ToSet(subs) :
    LET told == log[x] \o Owed(x)
    IN  /\ kind = "set" /\ m_new = <<>> /\ Owed(x) = <<>> /\ ~Clearing(x) => told = m_objects
        /\ kind = "one" =>
             /\ \A i, j \in DOMAIN told : i < j => told[i] < told[j]
             /\ m_snap # <<>> /\ ~Clearing(x) => told # <<>> /\ Last(told) = Last(m_snap)

\* Once unsubscribe() has returned, the subscriber, which may be destroyed
\* then, is not told any more.
TellsSubscribersOnly == ToSet(pub.left) \subseteq ToSet(subs)

\* A content never waits for a task nobody posted: append and post are two
\* steps, so tasks and contents do not pair up.
NewHasTask ==
  m_new # <<>> =>
    \/ \E p \in Publishers : ppc[p] = "appended"
    \/ \E i \in DOMAIN tasks : tasks[i].mode = "new"

-----------------------------------------------------------------------------
(* What comments say and the code does not do *)

\* "add subscriber to this topic" (Subscription.h:211): its publish thread,
\* which walks the list from m_head, meets every subscriber.
AllReached == detached = {}

\* "publish erase topic event" (Role.h:285): a working subscription ends when
\* its subscriber gives it up, or with the event.
ErasedWithEvent ==
  [][\A x \in working \ working' : in_map \/ Running("erase")]_vars

=============================================================================
