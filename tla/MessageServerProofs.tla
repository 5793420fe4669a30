------------------------- MODULE MessageServerProofs -------------------------
(***************************************************************************)
(* Theorems about the message server, for any number of producers and      *)
(* workers, any capacity and any number of posts and restarts.              *)
(***************************************************************************)
EXTENDS MessageServer, FiniteSetTheorems, SequenceTheorems, TLAPS

\* Overwriting one element keeps a sequence's type and its length.
LEMMA SeqExcept ==
  ASSUME NEW S, NEW s \in Seq(S), NEW i \in 1..Len(s), NEW e \in S
  PROVE  /\ [s EXCEPT ![i] = e] \in Seq(S)
         /\ Len([s EXCEPT ![i] = e]) = Len(s)
OBVIOUS

\* A new message of a producer that may still send is a Message.
LEMMA NewMsgType ==
  ASSUME TypeOK, NEW p \in Producers, sent[p] < MaxPosts, NEW k \in Keys \cup {NoKey}
  PROVE  NewMsg(p, k) \in Message
BY QueueConstants DEF TypeOK, NewMsg, Message

\* What raw_post() does to the types, for a producer that carries message m.
LEMMA RawPostType ==
  ASSUME TypeOK, NEW p \in Producers, NEW m \in Message, raw_post(p, m),
         p \notin full_wait
  PROVE  /\ m_deque' \in Seq(Message)
         /\ pending' \in [Producers -> Message \cup {NoMsg}]
         /\ full_wait' \subseteq {q \in Producers : pending'[q] # NoMsg}
         /\ empty_wait' \subseteq empty_wait
<1>1. CASE is_full
  BY <1>1, NoMsgAssumption DEF TypeOK, raw_post
<1>2. CASE ~is_full
  <2>1. /\ m_deque' = Append(m_deque, m)
        /\ pending' = [pending EXCEPT ![p] = NoMsg]
        /\ full_wait' = full_wait
    BY <1>2 DEF raw_post, push_back
  <2>2. empty_wait' \subseteq empty_wait
    BY <1>2 DEF raw_post, notify_one
  <2>. QED BY <2>1, <2>2 DEF TypeOK
<1>. QED BY <1>1, <1>2

\* The queue is changed by post_unique() as the types allow.
LEMMA PostUniqueType ==
  ASSUME TypeOK, NEW p \in Producers, NEW m \in Message, post_unique(p, m),
         p \notin full_wait
  PROVE  /\ m_deque' \in Seq(Message)
         /\ pending' \in [Producers -> Message \cup {NoMsg}]
         /\ full_wait' \subseteq {q \in Producers : pending'[q] # NoMsg}
         /\ empty_wait' \subseteq empty_wait
         /\ dropped' \subseteq Message
         /\ m_state' = m_state
<1>1. CASE \E i \in FoundBy(m.key) :
             /\ m_deque' = [m_deque EXCEPT ![i] = m]
             /\ dropped' = dropped \cup {m_deque[i]}
             /\ UNCHANGED <<m_state, full_wait, empty_wait, pending>>
  <2>1. PICK i \in 1..Len(m_deque) :
             /\ m_deque' = [m_deque EXCEPT ![i] = m]
             /\ dropped' = dropped \cup {m_deque[i]}
             /\ UNCHANGED <<m_state, full_wait, empty_wait, pending>>
    BY <1>1 DEF FoundBy
  <2>2. m_deque \in Seq(Message) BY DEF TypeOK
  <2>3. m_deque' \in Seq(Message) BY <2>1, <2>2, SeqExcept
  <2>4. m_deque[i] \in Message BY <2>2
  <2>. QED BY <2>1, <2>3, <2>4 DEF TypeOK
<1>2. CASE post(p, m)
  BY <1>2, RawPostType DEF post, TypeOK
<1>. QED BY <1>1, <1>2 DEF post_unique

\* Every step keeps the types; the action of each thread changes only the
\* wait sets its own condition variable allows.
LEMMA TypeStep == TypeOK /\ [Next]_vars => TypeOK'
<1>. SUFFICES ASSUME TypeOK, [Next]_vars PROVE TypeOK'
  OBVIOUS
<1>. USE QueueConstants, ServerConstants, NoMsgAssumption
<1>1. ASSUME NEW p \in Producers, Post(p) PROVE TypeOK'
  <2>1. NewMsg(p, NoKey) \in Message /\ p \notin full_wait
    BY <1>1, NewMsgType DEF Post, TypeOK
  <2>2. raw_post(p, NewMsg(p, NoKey)) /\ UNCHANGED <<m_state, dropped>>
    BY <1>1 DEF Post, post
  <2>3. sent' \in [Producers -> 0..MaxPosts] BY <1>1 DEF Post, TypeOK
  <2>. QED BY <1>1, <2>1, <2>2, <2>3, RawPostType DEF Post, TypeOK
<1>2. ASSUME NEW p \in Producers, NEW k \in Keys, PostUnique(p, k) PROVE TypeOK'
  <2>1. NewMsg(p, k) \in Message /\ p \notin full_wait
    BY <1>2, NewMsgType DEF PostUnique, TypeOK
  <2>2. sent' \in [Producers -> 0..MaxPosts] BY <1>2 DEF PostUnique, TypeOK
  <2>. QED BY <1>2, <2>1, <2>2, PostUniqueType DEF PostUnique, TypeOK
<1>3. ASSUME NEW p \in Producers, PostResume(p) PROVE TypeOK'
  <2>1. pending[p] \in Message BY <1>3 DEF PostResume, TypeOK
  <2>2. raw_post(p, pending[p]) /\ UNCHANGED <<m_state, dropped>>
    BY <1>3 DEF PostResume, post
  <2>. QED BY <1>3, <2>1, <2>2, RawPostType DEF PostResume, TypeOK, serverVars
<1>4. ASSUME NEW w \in Workers, WorkTake(w) PROVE TypeOK'
  <2>1. m_deque' \in Seq(Message) /\ taken' \in Seq(Message)
    BY <1>4 DEF WorkTake, pop_true, TypeOK
  <2>2. full_wait' \subseteq full_wait
    BY <1>4 DEF WorkTake, pop_true, notify_one
  <2>. QED BY <1>4, <2>1, <2>2 DEF WorkTake, pop_true, Popping, TypeOK
<1>5. ASSUME NEW w \in Workers, WorkWait(w) PROVE TypeOK'
  BY <1>5 DEF WorkWait, Popping, pop_wait, TypeOK, serverVars
<1>6. ASSUME NEW w \in Workers, WorkExit(w) PROVE TypeOK'
  BY <1>6 DEF WorkExit, Popping, pop_false, TypeOK, queueVars
<1>7. ASSUME NEW w \in Workers, WorkHandled(w) PROVE TypeOK'
  BY <1>7 DEF WorkHandled, TypeOK, queueVars
<1>8. ASSUME NEW ws \in SUBSET {w \in Workers : wpc[w] = "off"}, Run(ws)
      PROVE TypeOK'
  BY <1>8 DEF Run, open, TypeOK
<1>9. CASE Stop
  BY <1>9 DEF Stop, close, raw_close, TypeOK
<1>10. CASE Release
  <2>1. Queued \subseteq Message BY DEF TypeOK, Queued
  <2>. QED BY <1>10, <2>1 DEF Release, release, raw_close, TypeOK
<1>11. CASE Join
  BY <1>11 DEF Join, TypeOK, queueVars
<1>12. CASE SpuriousWake /\ UNCHANGED serverVars
  BY <1>12 DEF SpuriousWake, serverVars, TypeOK
<1>13. CASE UNCHANGED vars
  BY <1>13 DEF vars, queueVars, serverVars, TypeOK
<1>. QED
  BY <1>1, <1>2, <1>3, <1>4, <1>5, <1>6, <1>7, <1>8, <1>9, <1>10, <1>11, <1>12, <1>13
  DEF Next

\* The types hold in every reachable state of the server.
THEOREM TypeCorrect == Spec => []TypeOK
<1>1. Init => TypeOK
  BY QueueConstants, ServerConstants, NoMsgAssumption DEF Init, QueueInit, TypeOK
<1>. QED BY <1>1, TypeStep, PTL DEF Spec

-----------------------------------------------------------------------------
(* The capacity *)

\* The equality test of is_full() suffices: every thread that comes back from
\* the wait tests again under the mutex, so the queue never outgrows its bound.
LEMMA CapacityStep == TypeOK /\ CapacityBound /\ [Next]_vars => CapacityBound'
<1>. SUFFICES ASSUME TypeOK, CapacityBound, [Next]_vars PROVE CapacityBound'
  OBVIOUS
<1>. USE QueueConstants DEF CapacityBound
<1>0. m_deque \in Seq(Message) /\ Len(m_deque) \in Nat BY DEF TypeOK
<1>1. ASSUME NEW p \in Producers, NEW m \in Message, raw_post(p, m)
      PROVE  Len(m_deque') <= m_capacity
  BY <1>0, <1>1 DEF raw_post, push_back, is_full
<1>2. ASSUME NEW p \in Producers, Post(p) PROVE CapacityBound'
  BY <1>1, <1>2, NewMsgType DEF Post, post
<1>3. ASSUME NEW p \in Producers, NEW k \in Keys, PostUnique(p, k)
      PROVE  CapacityBound'
  <2>1. NewMsg(p, k) \in Message BY <1>3, NewMsgType DEF PostUnique
  <2>2. ASSUME NEW i \in FoundBy(NewMsg(p, k).key),
               m_deque' = [m_deque EXCEPT ![i] = NewMsg(p, k)]
        PROVE  Len(m_deque') <= m_capacity
    <3>1. i \in 1..Len(m_deque) BY DEF FoundBy
    <3>. QED BY <1>0, <2>1, <2>2, <3>1, SeqExcept
  <2>. QED BY <1>1, <1>3, <2>1, <2>2 DEF PostUnique, post_unique, post
<1>4. ASSUME NEW p \in Producers, PostResume(p) PROVE CapacityBound'
  <2>1. pending[p] \in Message BY <1>4 DEF PostResume, TypeOK
  <2>. QED BY <1>1, <1>4, <2>1 DEF PostResume, post
<1>5. ASSUME NEW w \in Workers,
             WorkTake(w) \/ WorkWait(w) \/ WorkExit(w) \/ WorkHandled(w)
      PROVE  CapacityBound'
  BY <1>0, <1>5 DEF WorkTake, WorkWait, WorkExit, WorkHandled, pop_true, pop_wait,
                    pop_false, queueVars
<1>6. CASE \/ \E ws \in SUBSET {w \in Workers : wpc[w] = "off"} : ws # {} /\ Run(ws)
           \/ Stop \/ Release \/ Join \/ SpuriousWake \/ UNCHANGED vars
  BY <1>0, <1>6 DEF Run, Stop, Release, Join, SpuriousWake, close, release, queueVars, vars
<1>. QED BY <1>2, <1>3, <1>4, <1>5, <1>6 DEF Next

\* The queue never holds more messages than its capacity.
THEOREM QueueIsBounded == Spec => []CapacityBound
<1>1. Init => CapacityBound
  BY QueueConstants DEF Init, QueueInit, CapacityBound
<1>. QED BY <1>1, CapacityStep, TypeCorrect, PTL DEF Spec

-----------------------------------------------------------------------------
(* Wake-ups *)

\* Both sets of threads the invariants count are finite.
LEMMA AwakeFinite ==
  /\ IsFiniteSet(Ready) /\ IsFiniteSet(Reposting)
  /\ Cardinality(Ready) \in Nat /\ Cardinality(Reposting) \in Nat
<1>1. IsFiniteSet(Ready)
  BY QueueConstants, FS_Subset DEF Ready
<1>2. IsFiniteSet(Reposting)
  BY QueueConstants, FS_Subset DEF Reposting
<1>. QED BY <1>1, <1>2, FS_CardinalityType

\* The same in the next state.
LEMMA AwakeFiniteNext ==
  /\ IsFiniteSet(Ready') /\ IsFiniteSet(Reposting')
  /\ Cardinality(Ready') \in Nat /\ Cardinality(Reposting') \in Nat
<1>1. IsFiniteSet(Ready')
  BY QueueConstants, FS_Subset DEF Ready
<1>2. IsFiniteSet(Reposting')
  BY QueueConstants, FS_Subset DEF Reposting
<1>. QED BY <1>1, <1>2, FS_CardinalityType

\* raw_post() grows the queue only together with the set of awake workers,
\* unless no worker sleeps.
LEMMA RawPostWakes ==
  ASSUME TypeOK, NoStrandedMessage, UNCHANGED wpc,
         NEW p \in Producers, NEW m \in Message, raw_post(p, m)
  PROVE  NoStrandedMessage'
<1>. USE AwakeFinite
<1>0. m_deque \in Seq(Message) /\ Len(m_deque) \in Nat BY DEF TypeOK
<1>1. CASE is_full
  BY <1>1 DEF raw_post, NoStrandedMessage, Ready
<1>2. CASE ~is_full /\ empty_wait = {}
  BY <1>2 DEF raw_post, notify_one, NoStrandedMessage
<1>3. CASE ~is_full /\ empty_wait # {}
  <2>1. Len(m_deque') = Len(m_deque) + 1
    BY <1>0, <1>3 DEF raw_post, push_back
  <2>2. PICK t \in empty_wait : empty_wait' = empty_wait \ {t}
    BY <1>3 DEF raw_post, notify_one
  <2>3. Ready' = Ready \cup {t} /\ t \notin Ready
    BY <2>2 DEF Ready, TypeOK
  <2>4. Cardinality(Ready') = Cardinality(Ready) + 1
    BY <2>3, FS_AddElement
  <2>5. Len(m_deque) <= Cardinality(Ready)
    BY <1>3 DEF NoStrandedMessage
  <2>. QED BY <1>0, <2>1, <2>4, <2>5 DEF NoStrandedMessage
<1>. QED BY <1>1, <1>2, <1>3

\* Every step keeps a worker awake for each queued message while others sleep.
LEMMA NoStrandedMessageStep ==
  TypeOK /\ NoStrandedMessage /\ [Next]_vars => NoStrandedMessage'
<1>. SUFFICES ASSUME TypeOK, NoStrandedMessage, [Next]_vars PROVE NoStrandedMessage'
  OBVIOUS
<1>. USE AwakeFinite, AwakeFiniteNext
<1>0. m_deque \in Seq(Message) /\ Len(m_deque) \in Nat BY DEF TypeOK
<1>1. ASSUME NEW p \in Producers, Post(p) PROVE NoStrandedMessage'
  <2>1. NewMsg(p, NoKey) \in Message BY <1>1, NewMsgType DEF Post
  <2>. QED BY <1>1, <2>1, RawPostWakes DEF Post, post
<1>2. ASSUME NEW p \in Producers, NEW k \in Keys, PostUnique(p, k)
      PROVE  NoStrandedMessage'
  <2>1. NewMsg(p, k) \in Message BY <1>2, NewMsgType DEF PostUnique
  <2>2. ASSUME NEW i \in FoundBy(NewMsg(p, k).key), UNCHANGED <<empty_wait, wpc>>,
               m_deque' = [m_deque EXCEPT ![i] = NewMsg(p, k)]
        PROVE  NoStrandedMessage'
    <3>1. Len(m_deque') = Len(m_deque)
      BY <1>0, <2>1, <2>2, SeqExcept DEF FoundBy
    <3>. QED BY <2>2, <3>1 DEF NoStrandedMessage, Ready
  <2>. QED BY <1>2, <2>1, <2>2, RawPostWakes DEF PostUnique, post_unique, post
<1>3. ASSUME NEW p \in Producers, PostResume(p) PROVE NoStrandedMessage'
  <2>1. pending[p] \in Message BY <1>3 DEF PostResume, TypeOK
  <2>. QED BY <1>3, <2>1, RawPostWakes DEF PostResume, post, serverVars
<1>4. ASSUME NEW w \in Workers, WorkTake(w) PROVE NoStrandedMessage'
  <2>1. Len(m_deque') = Len(m_deque) - 1 /\ Len(m_deque) > 0
    BY <1>0, <1>4 DEF WorkTake, pop_true
  <2>2. empty_wait' = empty_wait /\ wpc' = [wpc EXCEPT ![w] = "handle"] /\ Popping(w)
    BY <1>4 DEF WorkTake, pop_true
  <2>3. Ready' = Ready \ {w} /\ w \in Ready
    BY <2>2 DEF Ready, Popping, TypeOK
  <2>4. Cardinality(Ready') = Cardinality(Ready) - 1
    BY <2>3, FS_RemoveElement
  <2>. QED BY <1>0, <2>1, <2>2, <2>4 DEF NoStrandedMessage
<1>5. ASSUME NEW w \in Workers, WorkWait(w) \/ WorkExit(w) PROVE NoStrandedMessage'
  <2>1. m_deque' = <<>>
    BY <1>5 DEF WorkWait, WorkExit, pop_wait, pop_false, queueVars
  <2>. QED BY <2>1 DEF NoStrandedMessage
<1>6. ASSUME NEW w \in Workers, WorkHandled(w) PROVE NoStrandedMessage'
  <2>1. Ready \subseteq Ready'
    BY <1>6 DEF WorkHandled, Ready, queueVars, TypeOK
  <2>2. Cardinality(Ready) <= Cardinality(Ready') BY <2>1, FS_Subset
  <2>. QED BY <1>0, <1>6, <2>2 DEF WorkHandled, queueVars, NoStrandedMessage
<1>7. ASSUME NEW ws \in SUBSET {w \in Workers : wpc[w] = "off"}, Run(ws)
      PROVE  NoStrandedMessage'
  <2>1. Ready \subseteq Ready' BY <1>7 DEF Run, Ready, TypeOK
  <2>2. Cardinality(Ready) <= Cardinality(Ready') BY <2>1, FS_Subset
  <2>. QED BY <1>0, <1>7, <2>2 DEF Run, NoStrandedMessage
<1>8. CASE Stop
  BY <1>8 DEF Stop, close, raw_close, NoStrandedMessage, Ready
<1>9. CASE Release
  <2>1. m_deque' = <<>> BY <1>9 DEF Release, release
  <2>. QED BY <2>1 DEF NoStrandedMessage
<1>10. CASE Join
  <2>1. empty_wait = {} /\ empty_wait' = {} BY <1>10 DEF Join, TypeOK, queueVars
  <2>. QED BY <2>1 DEF NoStrandedMessage
<1>11. CASE SpuriousWake /\ UNCHANGED serverVars
  <2>1. Ready \subseteq Ready' /\ m_deque' = m_deque /\ (empty_wait = {} => empty_wait' = {})
    BY <1>11 DEF SpuriousWake, serverVars, Ready
  <2>2. Cardinality(Ready) <= Cardinality(Ready') BY <2>1, FS_Subset
  <2>. QED BY <1>0, <2>1, <2>2 DEF NoStrandedMessage
<1>12. CASE UNCHANGED vars
  BY <1>12 DEF vars, queueVars, serverVars, NoStrandedMessage, Ready
<1>. QED
  BY <1>1, <1>2, <1>3, <1>4, <1>5, <1>6, <1>7, <1>8, <1>9, <1>10, <1>11, <1>12 DEF Next

\* pop() loses no wake-up: notify_one() per message is enough, because a worker
\* goes to sleep only on an empty queue and every push wakes one of them.
THEOREM MessagesAreNotStranded == Spec => []NoStrandedMessage
<1>1. Init => NoStrandedMessage
  BY DEF Init, QueueInit, NoStrandedMessage
<1>. QED BY <1>1, NoStrandedMessageStep, TypeCorrect, PTL DEF Spec

\* raw_post() uses up a free slot only together with one awake producer.
LEMMA RawPostKeepsPosters ==
  ASSUME TypeOK, CapacityBound, NoStrandedPoster,
         NEW p \in Producers, p \notin full_wait, NEW m \in Message, raw_post(p, m)
  PROVE  NoStrandedPoster'
<1>. USE AwakeFinite, AwakeFiniteNext, QueueConstants, NoMsgAssumption
<1>0. m_deque \in Seq(Message) /\ Len(m_deque) \in Nat BY DEF TypeOK
<1>1. CASE is_full
  BY <1>0, <1>1 DEF raw_post, is_full, NoStrandedPoster
<1>2. CASE ~is_full
  <2>1. Len(m_deque') = Len(m_deque) + 1 /\ full_wait' = full_wait
        /\ pending' = [pending EXCEPT ![p] = NoMsg]
    BY <1>0, <1>2 DEF raw_post, push_back
  <2>2. Reposting' = Reposting \ {p}
    BY <2>1 DEF Reposting, TypeOK
  <2>3. Cardinality(Reposting') >= Cardinality(Reposting) - 1
    BY <2>2, FS_RemoveElement
  <2>. QED BY <1>0, <2>1, <2>3 DEF NoStrandedPoster
<1>. QED BY <1>1, <1>2

\* Every step keeps a producer awake for each free slot while others sleep,
\* unless release() clears a queue that was closed before.
LEMMA NoStrandedPosterStep ==
  ASSUME ~ReleaseWhenClosed
  PROVE  TypeOK /\ CapacityBound /\ NoStrandedPoster /\ [Next]_vars => NoStrandedPoster'
<1>. SUFFICES ASSUME TypeOK, CapacityBound, NoStrandedPoster, [Next]_vars
              PROVE  NoStrandedPoster'
  OBVIOUS
<1>. USE AwakeFinite, AwakeFiniteNext, QueueConstants
<1>0. m_deque \in Seq(Message) /\ Len(m_deque) \in Nat BY DEF TypeOK
<1>1. ASSUME NEW p \in Producers, Post(p) PROVE NoStrandedPoster'
  <2>1. NewMsg(p, NoKey) \in Message BY <1>1, NewMsgType DEF Post
  <2>2. p \notin full_wait BY <1>1 DEF Post, TypeOK
  <2>. QED BY <1>1, <2>1, <2>2, RawPostKeepsPosters DEF Post, post
<1>2. ASSUME NEW p \in Producers, NEW k \in Keys, PostUnique(p, k)
      PROVE  NoStrandedPoster'
  <2>1. NewMsg(p, k) \in Message BY <1>2, NewMsgType DEF PostUnique
  <2>2. ASSUME NEW i \in FoundBy(NewMsg(p, k).key), UNCHANGED <<full_wait, pending>>,
               m_deque' = [m_deque EXCEPT ![i] = NewMsg(p, k)]
        PROVE  NoStrandedPoster'
    <3>1. Len(m_deque') = Len(m_deque)
      BY <1>0, <2>1, <2>2, SeqExcept DEF FoundBy
    <3>. QED BY <2>2, <3>1 DEF NoStrandedPoster, Reposting
  <2>3. p \notin full_wait BY <1>2 DEF PostUnique, TypeOK
  <2>. QED BY <1>2, <2>1, <2>2, <2>3, RawPostKeepsPosters DEF PostUnique, post_unique, post
<1>3. ASSUME NEW p \in Producers, PostResume(p) PROVE NoStrandedPoster'
  <2>1. pending[p] \in Message BY <1>3 DEF PostResume, TypeOK
  <2>. QED BY <1>3, <2>1, RawPostKeepsPosters DEF PostResume, post
<1>4. ASSUME NEW w \in Workers, WorkTake(w) PROVE NoStrandedPoster'
  <2>1. Len(m_deque') = Len(m_deque) - 1 /\ UNCHANGED pending
    BY <1>0, <1>4 DEF WorkTake, pop_true
  <2>2. CASE full_wait = {}
    BY <1>4, <2>2 DEF WorkTake, pop_true, notify_one, NoStrandedPoster
  <2>3. CASE full_wait # {}
    <3>1. PICK t \in full_wait : full_wait' = full_wait \ {t}
      BY <1>4, <2>3 DEF WorkTake, pop_true, notify_one
    <3>2. Reposting' = Reposting \cup {t} /\ t \notin Reposting
      BY <2>1, <3>1 DEF Reposting, TypeOK
    <3>3. Cardinality(Reposting') = Cardinality(Reposting) + 1
      BY <3>2, FS_AddElement
    <3>. QED BY <1>0, <2>1, <2>3, <3>3 DEF NoStrandedPoster
  <2>. QED BY <2>2, <2>3
<1>5. ASSUME NEW w \in Workers, WorkWait(w) \/ WorkExit(w) \/ WorkHandled(w)
      PROVE  NoStrandedPoster'
  BY <1>5 DEF WorkWait, WorkExit, WorkHandled, pop_wait, pop_false, queueVars,
              NoStrandedPoster, Reposting
<1>6. CASE Stop
  BY <1>6 DEF Stop, close, raw_close, NoStrandedPoster, Reposting
<1>7. CASE Release
  BY <1>7 DEF Release, release, raw_close, NoStrandedPoster
<1>8. CASE SpuriousWake /\ UNCHANGED serverVars
  <2>1. /\ Reposting \subseteq Reposting' /\ m_deque' = m_deque
        /\ full_wait = {} => full_wait' = {}
    BY <1>8 DEF SpuriousWake, Reposting
  <2>2. Cardinality(Reposting) <= Cardinality(Reposting') BY <2>1, FS_Subset
  <2>. QED BY <1>0, <2>1, <2>2 DEF NoStrandedPoster
<1>9. CASE \/ \E ws \in SUBSET {w \in Workers : wpc[w] = "off"} : ws # {} /\ Run(ws)
           \/ Join \/ UNCHANGED vars
  BY <1>9 DEF Run, Join, vars, queueVars, NoStrandedPoster, Reposting
<1>. QED BY <1>1, <1>2, <1>3, <1>4, <1>5, <1>6, <1>7, <1>8, <1>9 DEF Next

\* raw_post() loses no wake-up either, for an owner that does not call
\* release() on a closed queue: with ReleaseWhenClosed = TRUE, TLC finds a
\* producer asleep next to the queue that release() has cleared.
THEOREM PostersAreNotStranded ==
  ASSUME ~ReleaseWhenClosed
  PROVE  Spec => []NoStrandedPoster
<1>1. Init => NoStrandedPoster
  BY DEF Init, QueueInit, NoStrandedPoster
<1>2. TypeOK /\ CapacityBound /\ NoStrandedPoster /\ [Next]_vars => NoStrandedPoster'
  BY NoStrandedPosterStep
<1>. QED BY <1>1, <1>2, TypeCorrect, QueueIsBounded, PTL DEF Spec

-----------------------------------------------------------------------------
(* Every message once *)

Placed == Range_(taken) \cup Queued \cup dropped
Found(p, n) == \E m \in Placed : m.src = p /\ m.num = n

\* A message's number was given to it by its producer: a new one is new to
\* every place, and two producers never carry the same message.
Numbered ==
  /\ \A m \in Placed : m.num <= sent[m.src]
  /\ \A p \in Producers : pending[p] # NoMsg =>
       pending[p].src = p /\ pending[p].num <= sent[p]

Once == TypeOK /\ ExactlyOnce /\ Numbered

\* What is placed are messages.
LEMMA PlacedType ==
  ASSUME TypeOK
  PROVE  /\ Range_(taken) \subseteq Message /\ Queued \subseteq Message
         /\ Placed \subseteq Message
  BY DEF TypeOK, Range_, Queued, Placed

\* What the queue holds after a push, and after a message was overwritten.
LEMMA Pushed ==
  ASSUME NEW s \in Seq(Message), NEW m \in Message, NEW t, t = Append(s, m),
         m \notin Range_(s), \A i, j \in 1..Len(s) : s[i] = s[j] => i = j
  PROVE  /\ Range_(t) = Range_(s) \cup {m}
         /\ \A i, j \in 1..Len(t) : t[i] = t[j] => i = j
<1>1. /\ Len(s) \in Nat /\ Len(t) = Len(s) + 1
      /\ \A i \in 1..Len(s) : t[i] = s[i]
      /\ t[Len(s) + 1] = m
  BY AppendProperties, LenProperties
<1>2. \A i \in 1..Len(t) : i \in 1..Len(s) \/ i = Len(s) + 1
  BY <1>1
<1>3. /\ \A i \in 1..Len(s) : i \in 1..Len(t)
      /\ Len(s) + 1 \in 1..Len(t)
  BY <1>1
<1>4. Range_(t) = Range_(s) \cup {m}
  BY <1>1, <1>2, <1>3 DEF Range_
<1>5. \A i, j \in 1..Len(t) : t[i] = t[j] => i = j
  BY <1>1, <1>2 DEF Range_
<1>. QED BY <1>4, <1>5

\* post_unique() that finds its key: the new message stands where the old one did.
LEMMA Overwritten ==
  ASSUME NEW s \in Seq(Message), NEW m \in Message, NEW k \in 1..Len(s),
         NEW t, t = [s EXCEPT ![k] = m],
         m \notin Range_(s), \A i, j \in 1..Len(s) : s[i] = s[j] => i = j
  PROVE  /\ Range_(t) = (Range_(s) \ {s[k]}) \cup {m}
         /\ \A i, j \in 1..Len(t) : t[i] = t[j] => i = j
<1>1. Len(t) = Len(s) /\ \A i \in 1..Len(s) : t[i] = IF i = k THEN m ELSE s[i]
  BY ExceptSeq
<1>2. Range_(t) = (Range_(s) \ {s[k]}) \cup {m}
  BY <1>1 DEF Range_
<1>3. \A i, j \in 1..Len(t) : t[i] = t[j] => i = j
  BY <1>1 DEF Range_
<1>. QED BY <1>2, <1>3

\* The front message of a queue without repetition is in it no more.
LEMMA Popped ==
  ASSUME NEW s \in Seq(Message), s # <<>>, NEW t, t = Tail(s),
         \A i, j \in 1..Len(s) : s[i] = s[j] => i = j
  PROVE  /\ Head(s) \in Range_(s) /\ Range_(t) = Range_(s) \ {Head(s)}
         /\ \A i, j \in 1..Len(t) : t[i] = t[j] => i = j
<1>1. /\ Len(s) \in Nat /\ Len(s) >= 1 /\ Len(t) = Len(s) - 1 /\ Head(s) = s[1]
      /\ \A i \in 1..Len(t) : t[i] = s[i + 1]
  BY HeadTailProperties, LenProperties, EmptySeq
<1>2. 1 \in 1..Len(s) /\ \A i \in 1..Len(t) : i + 1 \in 1..Len(s) /\ i + 1 # 1
  BY <1>1
<1>3. Head(s) \in Range_(s)
  BY <1>1, <1>2 DEF Range_
<1>4. \A i \in 1..Len(t) : t[i] \in Range_(s) /\ t[i] # Head(s)
  BY <1>1, <1>2 DEF Range_
<1>5. \A i \in 1..Len(s) : s[i] # Head(s) => s[i] \in Range_(t)
  <2>1. \A i \in 1..Len(s) : i # 1 => i - 1 \in 1..Len(t) /\ s[i] = t[i - 1]
    BY <1>1
  <2>. QED BY <1>1, <2>1 DEF Range_
<1>6. Range_(t) = Range_(s) \ {Head(s)}
  BY <1>4, <1>5 DEF Range_
<1>7. \A i, j \in 1..Len(t) : t[i] = t[j] => i = j
  <2>. SUFFICES ASSUME NEW i \in 1..Len(t), NEW j \in 1..Len(t), t[i] = t[j]
                PROVE  i = j
    OBVIOUS
  <2>1. i + 1 = j + 1
    BY <1>1, <1>2
  <2>. QED BY <2>1, <1>1
<1>. QED BY <1>3, <1>6, <1>7

\* raw_post() of a message that is in no place yet: it is queued or carried.
LEMMA RawPostOnce ==
  ASSUME Once, NEW p \in Producers, NEW m \in Message, raw_post(p, m),
         UNCHANGED <<taken, dropped>>,
         m.src = p, m \notin Placed,
         sent' \in [Producers -> 0..MaxPosts], m.num <= sent'[p], sent[p] <= sent'[p],
         \A q \in Producers : q # p => sent'[q] = sent[q],
         \A n \in 1..sent'[p] : n = m.num \/ Found(p, n)
  PROVE  ExactlyOnce' /\ Numbered'
<1>. USE DEF Once
<1>1. /\ m_deque \in Seq(Message) /\ pending \in [Producers -> Message \cup {NoMsg}]
      /\ sent \in [Producers -> 0..MaxPosts]
  BY DEF TypeOK
<1>2. Placed \subseteq Message
  BY PlacedType
<1>3. \A x \in Message : x.src \in Producers /\ x.num \in Nat
  BY QueueConstants DEF Message
<1>4. \A x \in Placed : x.num <= sent'[x.src]
  <2>1. \A q \in Producers : sent[q] \in Nat /\ sent'[q] \in Nat /\ sent[q] <= sent'[q]
    BY <1>1
  <2>2. \A x \in Placed : x.num <= sent[x.src] /\ x.src \in Producers /\ x.num \in Nat
    BY <1>2, <1>3 DEF Numbered
  <2>. QED BY <2>1, <2>2
<1>5. CASE is_full
  <2>1. m_deque' = m_deque /\ pending' = [pending EXCEPT ![p] = m]
    BY <1>5 DEF raw_post
  <2>2. Placed' = Placed /\ Queued' = Queued
    BY <2>1 DEF Placed, Queued
  <2>3. Numbered'
    BY <1>1, <1>4, <2>1, <2>2 DEF Numbered
  <2>4. \A q \in Producers : \A n \in 1..sent'[q] :
          Found(q, n) \/ (pending'[q] # NoMsg /\ pending'[q].num = n)
    <3>1. \A n \in 1..sent'[p] : Found(p, n) \/ (pending'[p] # NoMsg /\ pending'[p].num = n)
      BY <1>1, <2>1, NoMsgAssumption
    <3>2. \A q \in Producers : \A n \in 1..sent[q] :
            Found(q, n) \/ (pending[q] # NoMsg /\ pending[q].num = n)
      BY DEF ExactlyOnce, Found, Placed
    <3>. QED BY <1>1, <2>1, <3>1, <3>2
  <2>5. \A q \in Producers : pending'[q] # NoMsg => pending'[q] \notin Placed
    BY <1>1, <2>1 DEF ExactlyOnce, Placed
  <2>. QED BY <2>1, <2>2, <2>3, <2>4, <2>5 DEF ExactlyOnce, Found, Placed
<1>6. CASE ~is_full
  <2>1. m_deque' = Append(m_deque, m) /\ pending' = [pending EXCEPT ![p] = NoMsg]
    BY <1>6 DEF raw_post, push_back
  <2>2. m \notin Queued /\ \A i, j \in 1..Len(m_deque) : m_deque[i] = m_deque[j] => i = j
    BY DEF ExactlyOnce, Placed
  <2>3. /\ Queued' = Queued \cup {m}
        /\ \A i, j \in 1..Len(m_deque') : m_deque'[i] = m_deque'[j] => i = j
    BY <1>1, <2>1, <2>2, Pushed DEF Queued, Range_
  <2>4. Placed' = Placed \cup {m} /\ Range_(taken)' = Range_(taken)
    BY <2>3 DEF Placed, Range_
  <2>5. Numbered'
    BY <1>1, <1>4, <2>1, <2>4 DEF Numbered
  <2>6. \A q \in Producers : \A n \in 1..sent'[q] :
          Found(q, n)' \/ (pending'[q] # NoMsg /\ pending'[q].num = n)
    <3>1. \A n \in 1..sent'[p] : Found(p, n)'
      BY <2>4 DEF Found
    <3>2. \A q \in Producers : \A n \in 1..sent[q] :
            Found(q, n) \/ (pending[q] # NoMsg /\ pending[q].num = n)
      BY DEF ExactlyOnce, Found, Placed
    <3>3. \A q \in Producers : \A n \in Nat : Found(q, n) => Found(q, n)'
      BY <2>4 DEF Found
    <3>4. \A q \in Producers : \A n \in 1..sent'[q] : n \in Nat
      OBVIOUS
    <3>. QED BY <1>1, <2>1, <3>1, <3>2, <3>3, <3>4
  <2>7. \A q \in Producers : pending'[q] # NoMsg => pending'[q] \notin Placed \cup {m}
    BY <1>1, <2>1 DEF ExactlyOnce, Placed, Numbered
  <2>8. /\ Range_(taken)' \cap Queued' = {}
        /\ (Range_(taken)' \cup Queued') \cap dropped' = {}
    BY <2>3, <2>4 DEF ExactlyOnce, Placed
  <2>9. \A i, j \in 1..Len(taken') : taken'[i] = taken'[j] => i = j
    BY DEF ExactlyOnce
  <2>. QED BY <2>3, <2>4, <2>5, <2>6, <2>7, <2>8, <2>9 DEF ExactlyOnce, Found, Placed
<1>. QED BY <1>5, <1>6

\* A producer's next message is in no place and carried by nobody.
LEMMA NewIsNew ==
  ASSUME Once, NEW p \in Producers, sent[p] < MaxPosts, NEW k \in Keys \cup {NoKey}
  PROVE  /\ NewMsg(p, k) \in Message /\ NewMsg(p, k) \notin Placed
         /\ NewMsg(p, k).src = p /\ NewMsg(p, k).num = sent[p] + 1
         /\ \A q \in Producers : pending[q] # NewMsg(p, k)
<1>1. NewMsg(p, k) \in Message
  BY NewMsgType DEF Once
<1>2. NewMsg(p, k).src = p /\ NewMsg(p, k).num = sent[p] + 1 /\ sent[p] \in Nat
  BY DEF NewMsg, Once, TypeOK
<1>3. ~(sent[p] + 1 <= sent[p])
  BY <1>2
<1>. QED BY <1>1, <1>2, <1>3, NoMsgAssumption DEF Once, Numbered

\* A producer that carries no message has placed all it sent.
LEMMA IdleHasPlaced ==
  ASSUME Once, NEW p \in Producers, pending[p] = NoMsg
  PROVE  \A n \in 1..sent[p] : Found(p, n)
  BY DEF Once, ExactlyOnce, Found, Placed

\* post_unique() that finds its key drops the message it overwrites.
LEMMA OverwriteOnce ==
  ASSUME Once, NEW p \in Producers, NEW m \in Message, NEW k \in 1..Len(m_deque),
         pending[p] = NoMsg, m.src = p, m.num = sent[p] + 1, m \notin Placed,
         \A q \in Producers : pending[q] # m,
         m_deque' = [m_deque EXCEPT ![k] = m], dropped' = dropped \cup {m_deque[k]},
         UNCHANGED <<taken, pending>>, sent' = [sent EXCEPT ![p] = @ + 1]
  PROVE  ExactlyOnce' /\ Numbered'
<1>. USE DEF Once
<1>1. m_deque \in Seq(Message) /\ sent \in [Producers -> 0..MaxPosts] /\ sent[p] \in Nat
  BY DEF TypeOK
<1>2. m \notin Queued /\ \A i, j \in 1..Len(m_deque) : m_deque[i] = m_deque[j] => i = j
  BY DEF ExactlyOnce, Placed
<1>3. /\ Queued' = (Queued \ {m_deque[k]}) \cup {m} /\ m_deque[k] \in Queued
      /\ \A i, j \in 1..Len(m_deque') : m_deque'[i] = m_deque'[j] => i = j
  BY <1>1, <1>2, Overwritten DEF Queued, Range_
<1>4. Placed' = Placed \cup {m} /\ Range_(taken)' = Range_(taken)
  BY <1>3 DEF Placed, Range_
<1>5. Placed \subseteq Message /\ \A x \in Message : x.src \in Producers /\ x.num \in Nat
  BY PlacedType, QueueConstants DEF Message
<1>6. \A q \in Producers : sent'[q] = IF q = p THEN sent[p] + 1 ELSE sent[q]
  BY <1>1
<1>7. \A x \in Placed \cup {m} : x.num <= sent'[x.src]
  <2>1. m.num <= sent'[m.src]
    BY <1>1, <1>6
  <2>2. ASSUME NEW x \in Placed PROVE x.num <= sent'[x.src]
    <3>1. x.num <= sent[x.src] /\ x.num \in Nat /\ x.src \in Producers
      BY <1>5 DEF Numbered
    <3>. QED BY <1>1, <1>6, <3>1
  <2>. QED BY <2>1, <2>2
<1>8. \A q \in Producers : pending[q] # NoMsg => pending[q].src = q /\ pending[q].num <= sent'[q]
  BY <1>6 DEF Numbered
<1>9. Numbered'
  BY <1>4, <1>7, <1>8 DEF Numbered
<1>10. \A q \in Producers : \A n \in 1..sent'[q] :
         Found(q, n)' \/ (pending'[q] # NoMsg /\ pending'[q].num = n)
  <2>1. \A q \in Producers : \A n \in Nat : Found(q, n) => Found(q, n)'
    BY <1>4 DEF Found
  <2>3. \A q \in Producers : \A n \in 1..sent[q] :
          Found(q, n) \/ (pending[q] # NoMsg /\ pending[q].num = n)
    BY DEF ExactlyOnce, Found, Placed
  <2>4. \A n \in 1..(sent[p] + 1) : n \in 1..sent[p] \/ n = sent[p] + 1
    BY <1>1
  <2>5. \A n \in 1..sent'[p] : Found(p, n)'
    <3>1. \A n \in 1..sent[p] : n \in Nat /\ Found(p, n)
      BY IdleHasPlaced
    <3>2. \A n \in 1..sent[p] : Found(p, n)'
      BY <2>1, <3>1
    <3>3. sent'[p] = sent[p] + 1
      BY <1>6
    <3>4. PICK k1 : k1 = sent[p] + 1
      OBVIOUS
    <3>5. \A n \in 1..k1 : n \in 1..sent[p] \/ n = k1
      BY <2>4, <3>4
    <3>6. Found(p, k1)'
      BY <3>4, <1>4 DEF Found
    <3>. QED BY <3>2, <3>3, <3>4, <3>5, <3>6
  <2>. QED BY <1>6, <2>1, <2>3, <2>5
<1>11. \A q \in Producers : pending[q] # NoMsg => pending[q] \notin Placed \cup {m}
  BY DEF ExactlyOnce, Placed
<1>12. /\ Range_(taken)' \cap Queued' = {}
       /\ (Range_(taken)' \cup Queued') \cap dropped' = {}
  BY <1>3, <1>4 DEF ExactlyOnce, Placed
<1>13. \A i, j \in 1..Len(taken') : taken'[i] = taken'[j] => i = j
  BY DEF ExactlyOnce
<1>. QED BY <1>3, <1>4, <1>9, <1>10, <1>11, <1>12, <1>13 DEF ExactlyOnce, Found, Placed

\* Messages change places, none comes or goes.
LEMMA MovedOnce ==
  ASSUME Once, Placed' = Placed, UNCHANGED <<sent, pending>>,
         \A i, j \in 1..Len(taken') : taken'[i] = taken'[j] => i = j,
         \A i, j \in 1..Len(m_deque') : m_deque'[i] = m_deque'[j] => i = j,
         Range_(taken') \cap Queued' = {},
         (Range_(taken') \cup Queued') \cap dropped' = {}
  PROVE  ExactlyOnce' /\ Numbered'
<1>1. Numbered'
  BY DEF Once, Numbered
<1>2. \A q \in Producers : \A n \in 1..sent[q] :
        Found(q, n)' \/ (pending[q] # NoMsg /\ pending[q].num = n)
  BY DEF Once, ExactlyOnce, Found, Placed
<1>3. \A q \in Producers : pending[q] # NoMsg => pending[q] \notin Placed'
  BY DEF Once, ExactlyOnce, Placed
<1>. QED BY <1>1, <1>2, <1>3 DEF ExactlyOnce, Found, Placed, Range_

\* Every step keeps each message in one place.
LEMMA OnceStep == Once /\ [Next]_vars => Once'
<1>. SUFFICES ASSUME Once, [Next]_vars PROVE ExactlyOnce' /\ Numbered'
  BY TypeStep DEF Once
<1>0. /\ m_deque \in Seq(Message) /\ taken \in Seq(Message)
      /\ sent \in [Producers -> 0..MaxPosts]
      /\ pending \in [Producers -> Message \cup {NoMsg}]
  BY DEF Once, TypeOK
<1>1. ASSUME NEW p \in Producers, NEW k \in Keys \cup {NoKey}, pending[p] = NoMsg,
             sent[p] < MaxPosts, sent' = [sent EXCEPT ![p] = @ + 1], UNCHANGED taken,
             post(p, NewMsg(p, k))
      PROVE  ExactlyOnce' /\ Numbered'
  <2>1. PICK m \in Message : m = NewMsg(p, k)
    BY <1>1, NewIsNew
  <2>2. /\ m \notin Placed /\ m.src = p /\ m.num = sent[p] + 1
        /\ raw_post(p, m) /\ UNCHANGED dropped
    BY <1>1, <2>1, NewIsNew DEF post
  <2>3. /\ sent' \in [Producers -> 0..MaxPosts] /\ sent'[p] = sent[p] + 1 /\ sent[p] \in Nat
        /\ \A q \in Producers : q # p => sent'[q] = sent[q]
    BY <1>0, <1>1, QueueConstants
  <2>4. \A n \in 1..sent'[p] : n = m.num \/ n \in 1..sent[p]
    BY <2>2, <2>3
  <2>. QED BY <1>1, <2>2, <2>3, <2>4, IdleHasPlaced, RawPostOnce
<1>2. ASSUME NEW p \in Producers, Post(p) PROVE ExactlyOnce' /\ Numbered'
  BY <1>1, <1>2 DEF Post
<1>3. ASSUME NEW p \in Producers, NEW k \in Keys, PostUnique(p, k)
      PROVE  ExactlyOnce' /\ Numbered'
  <2>1. PICK m \in Message : m = NewMsg(p, k)
    BY <1>3, NewIsNew DEF PostUnique
  <2>2. CASE post(p, m)
    BY <1>1, <1>3, <2>1, <2>2 DEF PostUnique
  <2>3. CASE \E i \in FoundBy(m.key) :
               /\ m_deque' = [m_deque EXCEPT ![i] = m]
               /\ dropped' = dropped \cup {m_deque[i]}
               /\ UNCHANGED <<m_state, full_wait, empty_wait, pending>>
    <3>1. PICK i \in 1..Len(m_deque) :
               /\ m_deque' = [m_deque EXCEPT ![i] = m]
               /\ dropped' = dropped \cup {m_deque[i]}
               /\ UNCHANGED pending
      BY <2>3 DEF FoundBy
    <3>2. /\ m \notin Placed /\ m.src = p /\ m.num = sent[p] + 1
          /\ \A q \in Producers : pending[q] # m
      BY <1>3, <2>1, NewIsNew DEF PostUnique
    <3>. QED BY <1>3, <3>1, <3>2, OverwriteOnce DEF PostUnique
  <2>. QED BY <1>3, <2>1, <2>2, <2>3 DEF PostUnique, post_unique
<1>4. ASSUME NEW p \in Producers, PostResume(p) PROVE ExactlyOnce' /\ Numbered'
  <2>1. PICK m \in Message : m = pending[p] /\ m # NoMsg
    BY <1>0, <1>4 DEF PostResume
  <2>2. /\ m.src = p /\ m.num <= sent[p] /\ m \notin Placed
    BY <2>1 DEF Once, Numbered, ExactlyOnce, Placed
  <2>3. \A n \in 1..sent[p] : n = m.num \/ Found(p, n)
    BY <2>1 DEF Once, ExactlyOnce, Found, Placed
  <2>4. raw_post(p, m) /\ UNCHANGED <<taken, dropped, sent>>
    BY <1>4, <2>1 DEF PostResume, post, serverVars
  <2>5. sent[p] <= sent[p]
    BY <1>0
  <2>. QED BY <1>0, <2>2, <2>3, <2>4, <2>5, RawPostOnce
<1>5. ASSUME NEW w \in Workers, WorkTake(w) PROVE ExactlyOnce' /\ Numbered'
  <2>1. PICK m : m = Head(m_deque)
    OBVIOUS
  <2>2. /\ m_deque # <<>> /\ m_deque' = Tail(m_deque) /\ taken' = Append(taken, m)
        /\ UNCHANGED <<sent, pending, dropped>>
    BY <1>5, <2>1 DEF WorkTake, pop_true
  <2>3. /\ m \in Queued /\ Queued' = Queued \ {m}
        /\ \A i, j \in 1..Len(m_deque') : m_deque'[i] = m_deque'[j] => i = j
    <3>1. \A i, j \in 1..Len(m_deque) : m_deque[i] = m_deque[j] => i = j
      BY DEF Once, ExactlyOnce
    <3>2. /\ Head(m_deque) \in Range_(m_deque)
          /\ Range_(m_deque') = Range_(m_deque) \ {Head(m_deque)}
          /\ \A i, j \in 1..Len(m_deque') : m_deque'[i] = m_deque'[j] => i = j
      BY <1>0, <2>2, <3>1, Popped
    <3>3. Queued = Range_(m_deque) /\ Queued' = Range_(m_deque')
      BY DEF Queued, Range_
    <3>. QED BY <2>1, <3>2, <3>3
  <2>4. m \in Message /\ m \notin Range_(taken)
    BY <2>3, PlacedType DEF Once, ExactlyOnce
  <2>5. /\ Range_(taken') = Range_(taken) \cup {m}
        /\ \A i, j \in 1..Len(taken') : taken'[i] = taken'[j] => i = j
    <3>1. \A i, j \in 1..Len(taken) : taken[i] = taken[j] => i = j
      BY DEF Once, ExactlyOnce
    <3>2. taken \in Seq(Message) /\ m \in Message /\ m \notin Range_(taken)
      BY <1>0, <2>4
    <3>3. PICK s, t : s = taken /\ t = taken' /\ t = Append(s, m)
      BY <2>2
    <3>4. /\ Range_(t) = Range_(s) \cup {m}
          /\ \A i, j \in 1..Len(t) : t[i] = t[j] => i = j
      BY <3>1, <3>2, <3>3, Pushed
    <3>. QED BY <3>3, <3>4
  <2>6. Placed' = Placed
    <3>1. Placed' = Range_(taken') \cup Queued' \cup dropped'
      BY DEF Placed, Range_
    <3>. QED BY <2>2, <2>3, <2>5, <3>1 DEF Placed
  <2>7. /\ Range_(taken') \cap Queued' = {}
        /\ (Range_(taken') \cup Queued') \cap dropped' = {}
    BY <2>2, <2>3, <2>5 DEF Once, ExactlyOnce
  <2>. QED BY <2>2, <2>3, <2>5, <2>6, <2>7, MovedOnce
<1>6. CASE Release
  <2>1. m_deque' = <<>> /\ dropped' = dropped \cup Queued /\ UNCHANGED <<taken, sent, pending>>
    BY <1>6 DEF Release, release
  <2>2. Queued' = {} /\ Placed' = Placed /\ Range_(taken') = Range_(taken)
    BY <2>1 DEF Queued, Placed, Range_
  <2>3. /\ \A i, j \in 1..Len(m_deque') : m_deque'[i] = m_deque'[j] => i = j
        /\ \A i, j \in 1..Len(taken') : taken'[i] = taken'[j] => i = j
    BY <2>1 DEF Once, ExactlyOnce
  <2>4. /\ Range_(taken') \cap Queued' = {}
        /\ (Range_(taken') \cup Queued') \cap dropped' = {}
    BY <2>1, <2>2 DEF Once, ExactlyOnce
  <2>. QED BY <2>1, <2>2, <2>3, <2>4, MovedOnce
<1>7. CASE UNCHANGED <<m_deque, taken, dropped, sent, pending>>
  <2>1. Placed' = Placed /\ Queued' = Queued /\ Range_(taken') = Range_(taken)
    BY <1>7 DEF Placed, Queued, Range_
  <2>. QED BY <1>7, <2>1, MovedOnce DEF Once, ExactlyOnce
<1>8. CASE \/ \E w \in Workers : WorkWait(w) \/ WorkExit(w) \/ WorkHandled(w)
           \/ \E ws \in SUBSET {w \in Workers : wpc[w] = "off"} : ws # {} /\ Run(ws)
           \/ Stop \/ Join \/ (SpuriousWake /\ UNCHANGED serverVars) \/ UNCHANGED vars
  BY <1>7, <1>8 DEF WorkWait, WorkExit, WorkHandled, pop_wait, pop_false, Run, Stop, close,
                    Join, SpuriousWake, vars, queueVars, serverVars
<1>. QED BY <1>2, <1>3, <1>4, <1>5, <1>6, <1>8 DEF Next

\* No message is lost, doubled or handled twice on its way through the queue
\* (raw_post(), post_unique(), pop(), release()).
THEOREM MessagesOnce == Spec => []ExactlyOnce
<1>1. Init => Once
  <2>. SUFFICES ASSUME Init PROVE Once
    OBVIOUS
  <2>1. TypeOK
    BY QueueConstants, ServerConstants, NoMsgAssumption DEF Init, QueueInit, TypeOK
  <2>2. Queued = {} /\ Range_(taken) = {} /\ Placed = {}
    BY DEF Init, QueueInit, Queued, Range_, Placed
  <2>. QED BY <2>1, <2>2 DEF Init, QueueInit, Once, ExactlyOnce, Numbered
<1>2. Once => ExactlyOnce
  BY DEF Once
<1>. QED BY <1>1, <1>2, OnceStep, PTL DEF Spec

-----------------------------------------------------------------------------
(* Refinement *)

\* raw_post() is a Put of the channel, or leaves it alone.
LEMMA RawPostIsPut ==
  ASSUME TypeOK, CapacityBound, UNCHANGED taken,
         NEW p \in Producers, NEW m \in Message, raw_post(p, m)
  PROVE  Chan!Put \/ UNCHANGED Chan!chanVars
<1>1. m_deque \in Seq(Message) /\ Len(m_deque) \in Nat /\ m_capacity \in Nat
  BY QueueConstants DEF TypeOK
<1>2. CASE is_full
  BY <1>2 DEF raw_post, Chan!chanVars
<1>3. CASE ~is_full
  <2>1. Len(m_deque) < m_capacity
    BY <1>1, <1>3 DEF is_full, CapacityBound
  <2>2. m_deque' = Append(m_deque, m)
    BY <1>3 DEF raw_post, push_back
  <2>. QED BY <2>1, <2>2 DEF Chan!Put
<1>. QED BY <1>2, <1>3

\* Every step of the server is a step of the channel or leaves it alone.
LEMMA ChannelStep ==
  TypeOK /\ CapacityBound /\ [Next]_vars => [Chan!Next]_(Chan!chanVars)
<1>. SUFFICES ASSUME TypeOK, CapacityBound, [Next]_vars
              PROVE  Chan!Next \/ UNCHANGED Chan!chanVars
  OBVIOUS
<1>. USE QueueConstants
<1>1. ASSUME NEW p \in Producers, Post(p)
      PROVE  Chan!Next \/ UNCHANGED Chan!chanVars
  <2>1. NewMsg(p, NoKey) \in Message BY <1>1, NewMsgType DEF Post
  <2>. QED BY <1>1, <2>1, RawPostIsPut DEF Post, post, Chan!Next
<1>2. ASSUME NEW p \in Producers, NEW k \in Keys, PostUnique(p, k)
      PROVE  Chan!Next \/ UNCHANGED Chan!chanVars
  <2>1. NewMsg(p, k) \in Message /\ NewMsg(p, k).key # NoKey
    BY <1>2, NewMsgType DEF PostUnique, NewMsg
  <2>2. ASSUME NEW i \in FoundBy(NewMsg(p, k).key), UNCHANGED taken,
               m_deque' = [m_deque EXCEPT ![i] = NewMsg(p, k)]
        PROVE  Chan!Overwrite
    <3>1. i \in 1..Len(m_deque) /\ m_deque[i].key = NewMsg(p, k).key
      BY DEF FoundBy
    <3>. QED BY <2>1, <2>2, <3>1 DEF Chan!Overwrite
  <2>. QED BY <1>2, <2>1, <2>2, RawPostIsPut DEF PostUnique, post_unique, post, Chan!Next
<1>3. ASSUME NEW p \in Producers, PostResume(p)
      PROVE  Chan!Next \/ UNCHANGED Chan!chanVars
  <2>1. pending[p] \in Message BY <1>3 DEF PostResume, TypeOK
  <2>. QED BY <1>3, <2>1, RawPostIsPut DEF PostResume, post, serverVars, Chan!Next
<1>4. ASSUME NEW w \in Workers, WorkTake(w)
      PROVE  Chan!Next
  <2>1. Chan!Take BY <1>4 DEF WorkTake, pop_true, Chan!Take
  <2>. QED BY <2>1 DEF Chan!Next
<1>5. ASSUME NEW w \in Workers, WorkWait(w) \/ WorkExit(w) \/ WorkHandled(w)
      PROVE  UNCHANGED Chan!chanVars
  BY <1>5 DEF WorkWait, WorkExit, WorkHandled, pop_wait, pop_false, queueVars,
              serverVars, Chan!chanVars
<1>6. CASE Release
  BY <1>6 DEF Release, release, Chan!Next, Chan!Discard
<1>7. CASE \/ \E ws \in SUBSET {w \in Workers : wpc[w] = "off"} : ws # {} /\ Run(ws)
           \/ Stop \/ Join \/ (SpuriousWake /\ UNCHANGED serverVars) \/ UNCHANGED vars
  BY <1>7 DEF Run, Stop, Join, SpuriousWake, close, vars, queueVars, serverVars, Chan!chanVars
<1>. QED BY <1>1, <1>2, <1>3, <1>4, <1>5, <1>6, <1>7 DEF Next

\* The threaded queue with its waits, closes and restarts implements the
\* bounded first-in first-out channel.
THEOREM ServerImplementsChannel == Spec => ChannelSpec
<1>1. Init => Chan!Init
  BY DEF Init, QueueInit, Chan!Init
<1>. QED
  BY <1>1, ChannelStep, TypeCorrect, QueueIsBounded, PTL
  DEF Spec, ChannelSpec, Chan!Spec

=============================================================================
