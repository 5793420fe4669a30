--------------------------- MODULE LogQueueProofs ---------------------------
(***************************************************************************)
(* Theorems about the logger's pack queue, for any number of threads, any   *)
(* pack size, capacity and sequence of texts.                               *)
(***************************************************************************)
EXTENDS LogQueue, SequenceTheorems, FiniteSetTheorems, TLAPS

PackLists == [avail : Seq(Pack), logging : Seq(Pack)]

\* The last element of a nonempty list and what remains without it.
LEMMA BackFront ==
  ASSUME NEW s \in Seq(Pack), s # <<>>
  PROVE  /\ Last(s) \in Pack /\ Front(s) \in Seq(Pack)
         /\ Len(Front(s)) = Len(s) - 1 /\ Len(s) \in Nat \ {0}
<1>1. Len(s) \in Nat \ {0} BY EmptySeq
<1>2. \A i \in 1..Len(s) : s[i] \in Pack BY ElementOfSeq
<1>3. \A i \in 1..(Len(s) - 1) : s[i] \in Pack BY <1>1, <1>2
<1>4. Front(s) \in Seq(Pack) /\ Len(Front(s)) = IF 1 <= Len(s) - 1 THEN Len(s) - 1 - 1 + 1 ELSE 0
  BY <1>1, <1>3, SubSeqProperties DEF Front
<1>5. Len(Front(s)) = Len(s) - 1
  <2>. DEFINE n == Len(s)
              f == Len(Front(s))
  <2>1. n \in Nat \ {0} /\ f = IF 1 <= n - 1 THEN n - 1 - 1 + 1 ELSE 0 BY <1>1, <1>4
  <2>. HIDE DEF n, f
  <2>2. f = n - 1 BY <2>1
  <2>. QED BY <2>2 DEF n, f
<1>6. Last(s) \in Pack BY <1>1, <1>2 DEF Last
<1>. QED BY <1>1, <1>4, <1>5, <1>6

\* move_avail() keeps every pack.
LEMMA MoveAvailKeeps ==
  ASSUME NEW l \in PackLists
  PROVE  /\ move_avail(l) \in PackLists
         /\ Len(move_avail(l).avail) + Len(move_avail(l).logging)
              = Len(l.avail) + Len(l.logging)
         /\ l.avail = <<>> => move_avail(l) = l
<1>1. l.avail \in Seq(Pack) /\ l.logging \in Seq(Pack) BY DEF PackLists
<1>2. CASE l.avail # <<>> /\ Last(l.avail).used > 0
  <2>1. move_avail(l) = Lists(Front(l.avail), Append(l.logging, Last(l.avail)))
    BY <1>2 DEF move_avail
  <2>2. Last(l.avail) \in Pack /\ Front(l.avail) \in Seq(Pack)
        /\ Len(Front(l.avail)) = Len(l.avail) - 1
    BY <1>1, <1>2, BackFront
  <2>3. Append(l.logging, Last(l.avail)) \in Seq(Pack)
        /\ Len(Append(l.logging, Last(l.avail))) = Len(l.logging) + 1
    BY <1>1, <2>2
  <2>4. Len(l.avail) \in Nat /\ Len(l.logging) \in Nat BY <1>1
  <2>5. /\ move_avail(l).avail = Front(l.avail)
        /\ move_avail(l).logging = Append(l.logging, Last(l.avail))
        /\ move_avail(l) \in PackLists
    BY <2>1, <2>2, <2>3 DEF Lists, PackLists
  <2>6. /\ Len(move_avail(l).avail) = Len(l.avail) - 1
        /\ Len(move_avail(l).logging) = Len(l.logging) + 1
    BY <2>2, <2>3, <2>5
  <2>7. Len(move_avail(l).avail) + Len(move_avail(l).logging)
          = Len(l.avail) + Len(l.logging)
    <3>. DEFINE a == Len(l.avail)
                b == Len(l.logging)
                c == Len(move_avail(l).avail)
                d == Len(move_avail(l).logging)
    <3>1. a \in Nat /\ b \in Nat /\ c = a - 1 /\ d = b + 1 BY <2>4, <2>6
    <3>. HIDE DEF a, b, c, d
    <3>2. c + d = a + b BY <3>1
    <3>. QED BY <3>2 DEF a, b, c, d
  <2>. QED BY <1>2, <2>5, <2>7
<1>3. CASE ~(l.avail # <<>> /\ Last(l.avail).used > 0)
  BY <1>3 DEF move_avail
<1>. QED BY <1>2, <1>3

\* FixBuffer::append never writes past the pack.
LEMMA AppendFits ==
  ASSUME NEW pk \in Pack, NEW t \in Text
  PROVE  append(pk, t) \in Pack
<1>. DEFINE n == IF avail(pk) > t.size THEN t.size ELSE avail(pk)
<1>1. t.size \in Nat /\ pk.used \in 0..PackCapacity /\ pk.texts \in Seq(Text)
  BY LogConstants DEF Text, Pack
<1>2. n \in Nat /\ pk.used + n \in 0..PackCapacity
  BY <1>1, LogConstants DEF avail
<1>3. [t EXCEPT !.kept = n] \in Text
  BY <1>2 DEF Text
<1>4. Append(pk.texts, [t EXCEPT !.kept = n]) \in Seq(Text)
  BY <1>1, <1>3
<1>5. append(pk, t) = IF n = 0 THEN pk
        ELSE [texts |-> Append(pk.texts, [t EXCEPT !.kept = n]), used |-> pk.used + n]
  BY DEF append
<1>. HIDE DEF n
<1>. QED BY <1>2, <1>4, <1>5 DEF Pack

\* The part of the accounting that the lists and the size carry.
Accounted(av, lg, cur, extra) ==
  cur = (Len(av) + Len(lg) + extra) * PackCapacity /\ cur <= m_capacity

\* get_vail() and the append keep types and the accounting; a thread goes to
\* sleep only without a pack and without room for one.
LEMMA FillKeeps ==
  ASSUME NEW l \in PackLists, NEW extra \in Nat, NEW p \in Posters, NEW t \in Text,
         NEW wakes \in BOOLEAN, m_cur_size \in Nat,
         Accounted(l.avail, l.logging, m_cur_size, extra),
         Fill(p, t, l, wakes)
  PROVE  /\ m_avail' \in Seq(Pack) /\ m_logging' \in Seq(Pack) /\ m_cur_size' \in Nat
         /\ Accounted(m_avail', m_logging', m_cur_size', extra)
         /\ wpc' \in {wpc, Notified(wpc)}
         /\ \/ /\ avail_wait' = avail_wait \cup {p}
               /\ pending' = [pending EXCEPT ![p] = t]
               /\ m_avail' = <<>> /\ NoRoom'
            \/ /\ avail_wait' = avail_wait
               /\ pending' = [pending EXCEPT ![p] = NoText]
               /\ l.avail # <<>> \/ ~NoRoom
<1>. USE LogConstants
<1>1. l.avail \in Seq(Pack) /\ l.logging \in Seq(Pack) BY DEF PackLists
<1>2. CASE l.avail = <<>> /\ NoRoom
  BY <1>1, <1>2 DEF Fill, NoRoom
<1>3. CASE l.avail # <<>> \/ ~NoRoom
  <2>. DEFINE av == IF l.avail # <<>> THEN l.avail ELSE <<EmptyPack>>
              pk == append(Last(av), t)
              done == Lists(Append(Front(av), pk), l.logging)
              l2 == IF is_full(pk) THEN move_avail(done) ELSE done
  <2>0. EmptyPack \in Pack BY EmptySeq DEF EmptyPack, Pack
  <2>1. av \in Seq(Pack) /\ av # <<>>
    BY <1>1, <2>0
  <2>2. pk \in Pack BY <2>1, BackFront, AppendFits
  <2>3. Append(Front(av), pk) \in Seq(Pack) /\ Len(Append(Front(av), pk)) = Len(av)
    <3>1. Front(av) \in Seq(Pack) /\ Len(Front(av)) = Len(av) - 1 /\ Len(av) \in Nat
      BY <2>1, BackFront
    <3>. HIDE DEF av, pk
    <3>2. Append(Front(av), pk) \in Seq(Pack)
          /\ Len(Append(Front(av), pk)) = Len(Front(av)) + 1
      BY <2>2, <3>1, AppendProperties
    <3>. QED BY <3>1, <3>2
  <2>4. done \in PackLists /\ Len(done.avail) = Len(av) /\ done.logging = l.logging
    BY <1>1, <2>3 DEF Lists, PackLists
  <2>5. l2 \in PackLists /\ Len(l2.avail) + Len(l2.logging) = Len(av) + Len(l.logging)
    BY <2>4, MoveAvailKeeps
  <2>6. /\ m_avail' = l2.avail /\ m_logging' = l2.logging
        /\ wpc' = IF wakes \/ is_full(pk) THEN Notified(wpc) ELSE wpc
        /\ m_cur_size' = IF l.avail # <<>> THEN m_cur_size ELSE m_cur_size + PackCapacity
        /\ pending' = [pending EXCEPT ![p] = NoText]
        /\ UNCHANGED avail_wait
    BY <1>3 DEF Fill
  <2>7. m_avail' \in Seq(Pack) /\ m_logging' \in Seq(Pack)
    BY <2>5, <2>6 DEF PackLists
  <2>8. CASE l.avail # <<>>
    <3>1. av = l.avail /\ m_cur_size' = m_cur_size BY <2>6, <2>8
    <3>. HIDE DEF av, l2, done, pk
    <3>2. Len(m_avail') + Len(m_logging') = Len(l.avail) + Len(l.logging)
      BY <2>5, <2>6, <3>1
    <3>3. Accounted(m_avail', m_logging', m_cur_size', extra)
      BY <3>1, <3>2 DEF Accounted
    <3>. QED BY <2>6, <2>7, <2>8, <3>1, <3>3
  <2>9. CASE l.avail = <<>>
    <3>0. l2.avail \in Seq(Pack) /\ l2.logging \in Seq(Pack) BY <2>5 DEF PackLists
    <3>1. Len(av) = 1 /\ m_cur_size' = m_cur_size + PackCapacity BY <2>6, <2>9
    <3>2. m_cur_size + PackCapacity <= m_capacity BY <1>3, <2>9 DEF NoRoom
    <3>. HIDE DEF av, l2, done, pk
    <3>3. Len(m_avail') + Len(m_logging') = Len(l.logging) + 1 /\ Len(l.logging) \in Nat
      <4>1. Len(l.logging) \in Nat BY <1>1
      <4>2. Len(m_avail') + Len(m_logging') = 1 + Len(l.logging) BY <2>5, <2>6, <3>1
      <4>. QED BY <4>1, <4>2
    <3>4. m_cur_size = (Len(l.logging) + extra) * PackCapacity
      BY <1>1, <2>9 DEF Accounted
    <3>5. (Len(l.logging) + 1 + extra) * PackCapacity
            = (Len(l.logging) + extra) * PackCapacity + PackCapacity
      BY <3>3
    <3>6. Accounted(m_avail', m_logging', m_cur_size', extra)
      BY <3>1, <3>2, <3>3, <3>4, <3>5 DEF Accounted
    <3>. QED BY <1>3, <2>6, <2>7, <2>9, <3>1, <3>6
  <2>. QED BY <2>8, <2>9
<1>. QED BY <1>2, <1>3

\* The loop of pop() passes a pack on or leaves the lists alone.
LEMMA PopLoopKeeps ==
  ASSUME NEW l \in PackLists, PopLoop(l)
  PROVE  /\ m_avail' = l.avail /\ m_logging' \in Seq(Pack)
         /\ \/ /\ pack' \in Pack /\ wpc' = "handle"
               /\ Len(m_logging') + 1 = Len(l.logging)
            \/ /\ pack' = NoPack /\ wpc' \in {"exited", "towait"}
               /\ m_logging' = l.logging
<1>1. l.avail \in Seq(Pack) /\ l.logging \in Seq(Pack) BY DEF PackLists
<1>2. CASE l.logging # <<>>
  <2>1. pack' = Head(l.logging) /\ m_logging' = Tail(l.logging) /\ wpc' = "handle"
        /\ m_avail' = l.avail
    BY <1>2 DEF PopLoop, pop_empty
  <2>2. /\ Head(l.logging) \in Pack /\ Tail(l.logging) \in Seq(Pack)
        /\ Len(Tail(l.logging)) = Len(l.logging) - 1 /\ Len(l.logging) \in Nat
    BY <1>1, <1>2, HeadTailProperties, LenProperties
  <2>. QED BY <2>1, <2>2
<1>3. CASE l.logging = <<>>
  BY <1>1, <1>3 DEF PopLoop, pop_empty
<1>. QED BY <1>2, <1>3

\* recycle_avail() adds one empty pack.
LEMMA RecycleAdds ==
  ASSUME NEW av \in Seq(Pack)
  PROVE  recycle_avail(av) \in Seq(Pack) /\ Len(recycle_avail(av)) = Len(av) + 1
<1>1. EmptyPack \in Pack BY LogConstants DEF EmptyPack, Pack
<1>. QED BY <1>1, BackFront DEF recycle_avail
-----------------------------------------------------------------------------
\* The worker holds a pack, or not.
InHand == IF pack = NoPack THEN 0 ELSE 1

\* What a step has to establish for the accounting.
LEMMA AccountedIsAccounting ==
  PackAccounting <=> Accounted(m_avail, m_logging, m_cur_size, InHand)
BY DEF PackAccounting, Held, Accounted, InHand

\* Every step keeps the types, the accounting, and no thread sleeps next to a
\* free pack.
LEMMA LogStep ==
  TypeOK /\ PackAccounting /\ NoStrandedLogger /\ [Next]_vars
    => TypeOK' /\ PackAccounting' /\ NoStrandedLogger'
<1>. SUFFICES ASSUME TypeOK, PackAccounting, NoStrandedLogger, [Next]_vars
              PROVE  TypeOK' /\ PackAccounting' /\ NoStrandedLogger'
  OBVIOUS
<1>. USE LogConstants, NoneAssumption
<1>. DEFINE l == Lists(m_avail, m_logging)
            Goal == TypeOK' /\ PackAccounting' /\ NoStrandedLogger'
<1>a. l \in PackLists /\ l.avail = m_avail /\ l.logging = m_logging
  BY DEF TypeOK, Lists, PackLists
<1>b. Accounted(m_avail, m_logging, m_cur_size, InHand) /\ InHand \in Nat
  BY AccountedIsAccounting DEF InHand
<1>c. ASSUME NEW ll \in {l, move_avail(l)}
      PROVE  /\ ll \in PackLists
             /\ Accounted(ll.avail, ll.logging, m_cur_size, InHand)
             /\ m_avail = <<>> => ll.avail = <<>>
  <2>1. CASE ll = l BY <1>a, <1>b, <2>1
  <2>2. CASE ll = move_avail(l)
    <3>1. /\ ll \in PackLists
          /\ Len(ll.avail) + Len(ll.logging) = Len(m_avail) + Len(m_logging)
          /\ m_avail = <<>> => ll = l
      BY <1>a, <2>2, MoveAvailKeeps
    <3>. HIDE DEF l
    <3>. QED BY <1>a, <1>b, <3>1 DEF Accounted
  <2>. QED BY <2>1, <2>2
<1>d. ASSUME NEW p \in Posters, NEW t \in Text, NEW ll \in {l, move_avail(l)},
             NEW wakes \in BOOLEAN, Fill(p, t, ll, wakes), MutexFree,
             p \notin avail_wait, sent' \in [Posters -> 0..MaxTexts],
             UNCHANGED <<m_state, pack, file, owner>>
      PROVE  Goal
  <2>. HIDE DEF l
  <2>0. m_cur_size \in Nat BY DEF TypeOK
  <2>1. /\ m_avail' \in Seq(Pack) /\ m_logging' \in Seq(Pack) /\ m_cur_size' \in Nat
        /\ Accounted(m_avail', m_logging', m_cur_size', InHand)
        /\ wpc' \in {wpc, Notified(wpc)}
        /\ \/ /\ avail_wait' = avail_wait \cup {p}
              /\ pending' = [pending EXCEPT ![p] = t]
              /\ m_avail' = <<>> /\ NoRoom'
           \/ /\ avail_wait' = avail_wait
              /\ pending' = [pending EXCEPT ![p] = NoText]
              /\ ll.avail # <<>> \/ ~NoRoom
    BY <1>b, <1>c, <1>d, <2>0, FillKeeps
  <2>2. PackAccounting'
    BY <1>d, <2>1 DEF PackAccounting, Held, Accounted, InHand
  <2>3. NoStrandedLogger'
    BY <1>c, <2>1 DEF NoStrandedLogger
  <2>4. /\ pending' \in [Posters -> Text \cup {NoText}]
        /\ avail_wait' \subseteq {q \in Posters : pending'[q] # NoText}
    BY <1>d, <2>1 DEF TypeOK
  <2>5. /\ wpc' \in {"pop", "towait", "wait", "woken", "timeout", "handle", "exited"}
        /\ wpc' = "handle" => pack' # NoPack
        /\ wpc' \notin {"handle", "pop"} => pack' = NoPack
    BY <1>d, <2>1 DEF TypeOK, Notified
  <2>6. TypeOK' BY <1>d, <2>1, <2>4, <2>5 DEF TypeOK
  <2>. QED BY <2>2, <2>3, <2>6
<1>1. ASSUME NEW p \in Posters, NEW sz \in TextSizes, post(p, sz) PROVE Goal
  <2>. DEFINE t == [src |-> p, num |-> sent[p] + 1, size |-> sz, kept |-> 0]
  <2>1. /\ sent' \in [Posters -> 0..MaxTexts] /\ p \notin avail_wait
        /\ MutexFree /\ UNCHANGED <<m_state, pack, file, owner>>
    BY <1>1 DEF post, TypeOK
  <2>2. t \in Text BY <1>1 DEF post, Text, TypeOK
  <2>3. CASE UNCHANGED <<m_avail, m_logging, m_cur_size, avail_wait, pending, wpc>>
    BY <2>1, <2>3 DEF TypeOK, PackAccounting, Held, NoStrandedLogger, NoRoom
  <2>4. CASE IF TooLittle(t) THEN Fill(p, t, move_avail(l), TRUE) ELSE Fill(p, t, l, FALSE)
    <3>1. PICK ll \in {l, move_avail(l)}, wakes \in BOOLEAN : Fill(p, t, ll, wakes)
      BY <2>4
    <3>. HIDE DEF l, t, Goal
    <3>. QED BY <1>d, <2>1, <2>2, <3>1
  <2>. QED BY <1>1, <2>3, <2>4 DEF post
<1>2. ASSUME NEW p \in Posters, post_resume(p) PROVE Goal
  <2>1. pending[p] \in Text BY <1>2 DEF post_resume, TypeOK
  <2>2. /\ Fill(p, pending[p], l, FALSE) /\ p \notin avail_wait /\ MutexFree
        /\ UNCHANGED <<m_state, pack, file, owner>>
        /\ sent' \in [Posters -> 0..MaxTexts]
    BY <1>2 DEF post_resume, TypeOK
  <2>. HIDE DEF l, Goal
  <2>. QED BY <1>d, <2>1, <2>2
<1>3. ASSUME NEW ll \in PackLists, PopLoop(ll),
             Accounted(ll.avail, ll.logging, m_cur_size, 0),
             avail_wait' \subseteq avail_wait,
             avail_wait' # {} => ll.avail = <<>>,
             UNCHANGED <<m_cur_size, m_state, pending, file, owner, sent>>
      PROVE  Goal
  <2>1. /\ m_avail' = ll.avail /\ m_logging' \in Seq(Pack)
        /\ \/ /\ pack' \in Pack /\ wpc' = "handle"
              /\ Len(m_logging') + 1 = Len(ll.logging)
           \/ /\ pack' = NoPack /\ wpc' \in {"exited", "towait"}
              /\ m_logging' = ll.logging
    BY <1>3, PopLoopKeeps
  <2>2. ll.avail \in Seq(Pack) /\ ll.logging \in Seq(Pack) BY DEF PackLists
  <2>3. TypeOK' BY <1>3, <2>1, <2>2 DEF TypeOK
  <2>4. Len(m_avail') + Len(m_logging') + InHand' = Len(ll.avail) + Len(ll.logging)
    <3>. DEFINE a == Len(ll.avail)
                b == Len(ll.logging)
                d == Len(m_logging')
                h == InHand'
    <3>1. a \in Nat /\ b \in Nat /\ d \in Nat BY <2>1, <2>2
    <3>2. (h = 1 /\ d + 1 = b) \/ (h = 0 /\ d = b) BY <2>1 DEF InHand
    <3>3. Len(m_avail') = a BY <2>1
    <3>. HIDE DEF a, b, d, h
    <3>4. a + d + h = a + b BY <3>1, <3>2
    <3>. QED BY <3>3, <3>4 DEF a, b, d, h
  <2>5. PackAccounting'
    <3>1. Held' = Len(m_avail') + Len(m_logging') + InHand' BY DEF Held, InHand
    <3>2. m_cur_size = (Len(ll.avail) + Len(ll.logging)) * PackCapacity
          /\ m_cur_size <= m_capacity
      <4>. DEFINE a == Len(ll.avail)
                  b == Len(ll.logging)
      <4>1. a \in Nat /\ b \in Nat BY <2>2
      <4>2. m_cur_size = (a + b + 0) * PackCapacity /\ m_cur_size <= m_capacity
        BY <1>3 DEF Accounted
      <4>. HIDE DEF a, b
      <4>3. a + b + 0 = a + b BY <4>1
      <4>4. m_cur_size = (a + b) * PackCapacity BY <4>2, <4>3
      <4>. QED BY <4>2, <4>4 DEF a, b
    <3>. QED BY <1>3, <2>4, <3>1, <3>2 DEF PackAccounting
  <2>6. NoStrandedLogger' BY <1>3, <2>1 DEF NoStrandedLogger, NoRoom
  <2>. QED BY <2>3, <2>5, <2>6
<1>4. CASE pop
  <2>1. CASE pack = NoPack /\ PopLoop(l) /\ UNCHANGED avail_wait
    <3>1. InHand = 0 BY <2>1 DEF InHand
    <3>2. avail_wait' # {} => l.avail = <<>> BY <1>a, <2>1 DEF NoStrandedLogger
    <3>3. UNCHANGED <<m_cur_size, m_state, pending, file, owner, sent>> BY <1>4 DEF pop
    <3>4. Accounted(l.avail, l.logging, m_cur_size, 0) BY <1>a, <1>b, <3>1
    <3>5. avail_wait' \subseteq avail_wait BY <2>1
    <3>. HIDE DEF l
    <3>. QED BY <1>3, <1>a, <2>1, <3>2, <3>3, <3>4, <3>5
  <2>2. CASE /\ pack # NoPack /\ recycle_notify
             /\ PopLoop(Lists(recycle_avail(m_avail), m_logging))
    <3>. DEFINE r == Lists(recycle_avail(m_avail), m_logging)
    <3>1. m_avail \in Seq(Pack) /\ m_logging \in Seq(Pack) BY DEF TypeOK
    <3>2. recycle_avail(m_avail) \in Seq(Pack)
          /\ Len(recycle_avail(m_avail)) = Len(m_avail) + 1
      BY <3>1, RecycleAdds
    <3>3. r \in PackLists /\ r.avail = recycle_avail(m_avail) /\ r.logging = m_logging
      BY <3>1, <3>2 DEF Lists, PackLists
    <3>4. InHand = 1 BY <2>2 DEF InHand
    <3>5. Accounted(r.avail, r.logging, m_cur_size, 0)
      <4>. DEFINE a == Len(m_avail)
                  b == Len(m_logging)
                  c == Len(recycle_avail(m_avail))
      <4>1. a \in Nat /\ b \in Nat /\ c = a + 1 BY <3>1, <3>2
      <4>2. m_cur_size = (a + b + 1) * PackCapacity /\ m_cur_size <= m_capacity
        BY <1>b, <3>4 DEF Accounted
      <4>. HIDE DEF a, b, c
      <4>3. a + b + 1 = c + b + 0 BY <4>1
      <4>4. m_cur_size = (c + b + 0) * PackCapacity /\ m_cur_size <= m_capacity
        BY <4>2, <4>3
      <4>. QED BY <3>3, <4>4 DEF Accounted, b, c
    <3>6. avail_wait' = {} BY <2>2 DEF recycle_notify
    <3>7. UNCHANGED <<m_cur_size, m_state, pending, file, owner, sent>> BY <1>4 DEF pop
    <3>8. PopLoop(r) BY <2>2
    <3>. HIDE DEF r
    <3>. QED BY <1>3, <3>3, <3>5, <3>6, <3>7, <3>8
  <2>. QED BY <1>4, <2>1, <2>2 DEF pop
<1>5. CASE pop_resume
  <2>1. PICK ll \in {l, move_avail(l)} : PopLoop(ll)
    BY <1>5 DEF pop_resume
  <2>2. InHand = 0 BY <1>5 DEF pop_resume, InHand, TypeOK
  <2>3. UNCHANGED <<m_cur_size, m_state, avail_wait, pending, file, owner, sent>>
    BY <1>5 DEF pop_resume
  <2>4. avail_wait' # {} => ll.avail = <<>> BY <1>c, <2>3 DEF NoStrandedLogger
  <2>5. Accounted(ll.avail, ll.logging, m_cur_size, 0) /\ ll \in PackLists
    BY <1>c, <2>2
  <2>6. avail_wait' \subseteq avail_wait BY <2>3
  <2>. HIDE DEF l
  <2>. QED BY <1>3, <2>1, <2>3, <2>4, <2>5, <2>6
<1>6. CASE timed_wait \/ \E how \in {"timeout", "woken"} : wait_ends(how)
  BY <1>6 DEF timed_wait, wait_ends, TypeOK, PackAccounting, Held, NoStrandedLogger, NoRoom
<1>7. CASE handle
  <2>1. file' \in Seq(Text)
    <3>1. pack \in Pack /\ file \in Seq(Text) BY <1>7 DEF handle, TypeOK
    <3>2. pack.texts \in Seq(Text) BY <3>1 DEF Pack
    <3>. QED BY <1>7, <3>1, <3>2, ConcatProperties DEF handle
  <2>. QED BY <1>7, <2>1 DEF handle, TypeOK, PackAccounting, Held, NoStrandedLogger, NoRoom
<1>8. CASE close_state \/ Owner
  BY <1>8 DEF close_state, Owner, close_notify_avail, close_notify_logging, join, Notified,
              TypeOK, PackAccounting, Held, NoStrandedLogger, NoRoom
<1>9. ASSUME NEW p \in Posters, post_spurious(p) PROVE Goal
  BY <1>9 DEF post_spurious, TypeOK, PackAccounting, Held, NoStrandedLogger, NoRoom
<1>10. CASE UNCHANGED vars
  BY <1>10 DEF vars, TypeOK, PackAccounting, Held, NoStrandedLogger, NoRoom
<1>. HIDE DEF l
<1>. QED BY <1>1, <1>2, <1>4, <1>5, <1>6, <1>7, <1>8, <1>9, <1>10 DEF Next, Worker

\* The three hold initially.
LEMMA LogInit == Init => TypeOK /\ PackAccounting /\ NoStrandedLogger
BY LogConstants, NoneAssumption, EmptySeq
   DEF Init, TypeOK, PackAccounting, Held, NoStrandedLogger

\* The types hold in every reachable state of the logger.
THEOREM LogTypeCorrect == Spec => []TypeOK
BY LogInit, LogStep, PTL DEF Spec

\* No pack is lost or counted twice while packs circulate between the threads
\* that log and the worker, and the memory never exceeds the capacity.
THEOREM PacksAccountedFor == Spec => []PackAccounting
BY LogInit, LogStep, PTL DEF Spec

\* No thread that logs sleeps beside an available pack or room for a new one.
THEOREM LoggersAreNotStranded == Spec => []NoStrandedLogger
BY LogInit, LogStep, PTL DEF Spec

-----------------------------------------------------------------------------
(* Stopping *)

\* Once the logger is closed no thread is inside post(), the worker has left
\* with nothing handed over, and stop() has returned after it.
Quiet ==
  /\ is_close => \A p \in Posters : pending[p] = NoText
  /\ wpc = "exited" => is_close /\ m_logging = <<>>
  /\ owner = "stopped" => wpc = "exited"
  /\ owner # "running" => is_close

\* A step of a thread that logs happens on an open queue only.
LEMMA PostersBeforeClose ==
  ASSUME ~PostAfterClose, Quiet, NEW p \in Posters,
         post_resume(p) \/ \E sz \in TextSizes : post(p, sz)
  PROVE  ~is_close /\ wpc # "exited" /\ owner = "running" /\ UNCHANGED <<m_state, owner>>
  BY DEF Quiet, post, post_resume, MutexFree

\* Once everything has been handed over, no step changes that.
LEMMA QuietStep ==
  ASSUME ~PostAfterClose, Quiet, [Next]_vars
  PROVE  Quiet'
<1>1. ASSUME NEW p \in Posters, post_resume(p) \/ \E sz \in TextSizes : post(p, sz)
      PROVE  Quiet'
  <2>1. ~is_close' /\ owner' = "running"
    BY <1>1, PostersBeforeClose DEF is_close
  <2>2. wpc' \in {wpc, Notified(wpc)} /\ wpc # "exited"
    BY <1>1, PostersBeforeClose DEF post, post_resume, Fill
  <2>3. wpc' # "exited"
    BY <2>2 DEF Notified
  <2>. QED BY <2>1, <2>3 DEF Quiet
<1>2. ASSUME NEW l, PopLoop(l), wpc # "exited", UNCHANGED <<m_state, pending, owner>>
      PROVE  Quiet'
  BY <1>2 DEF PopLoop, pop_empty, Quiet, is_close
<1>3. CASE pop \/ pop_resume
  <2>1. \E l : PopLoop(l)
    BY <1>3 DEF pop, pop_resume
  <2>2. wpc # "exited" /\ UNCHANGED <<m_state, pending, owner>>
    BY <1>3 DEF pop, pop_resume
  <2>. QED BY <1>2, <2>1, <2>2
<1>4. CASE timed_wait \/ wait_ends("timeout") \/ wait_ends("woken") \/ handle
  BY <1>4 DEF timed_wait, wait_ends, handle, Quiet, is_close
<1>5. CASE close_state
  BY <1>5 DEF close_state, Quiet, is_close
<1>6. CASE Owner
  BY <1>6 DEF Owner, close_notify_avail, close_notify_logging, join, Notified, Quiet, is_close
<1>7. ASSUME NEW p \in Posters, post_spurious(p) PROVE Quiet'
  BY <1>7 DEF post_spurious, Quiet, is_close
<1>8. CASE UNCHANGED vars
  BY <1>8 DEF vars, Quiet, is_close
<1>. QED BY <1>1, <1>3, <1>4, <1>5, <1>6, <1>7, <1>8 DEF Next, Worker

\* Core::stop() returns with every pack written that was handed over, for a
\* program that logs no more once it stops its logger.
THEOREM StopHasWritten ==
  ASSUME ~PostAfterClose
  PROVE  Spec => []HandedOverIsWritten
<1>1. Init => Quiet
  BY DEF Init, Quiet, is_close
<1>2. Quiet /\ [Next]_vars => Quiet'
  BY QuietStep
<1>3. Quiet => HandedOverIsWritten
  BY DEF Quiet, HandedOverIsWritten
<1>. QED BY <1>1, <1>2, <1>3, PTL DEF Spec

-----------------------------------------------------------------------------
(* The log as one sequence.  TextsOf is recursive, so what it does to a list  *)
(* of any length is proved by induction on the length.                        *)

\* Mathematical induction, stated with a set: a number left out would make `down'
\* an injection of a finite set into itself that misses one element.
LEMMA Induction ==
  ASSUME NEW S, 0 \in S, \A n \in Nat : n \in S => n + 1 \in S
  PROVE  \A n \in Nat : n \in S
<1> SUFFICES ASSUME NEW x \in Nat, x \notin S PROVE FALSE
  OBVIOUS
<1> DEFINE T == {y \in 0..x : y \notin S}
           down == [y \in T |-> y - 1]
<1>1. \A y \in T : y - 1 \in T
  <2> SUFFICES ASSUME NEW y \in 0..x, y \notin S PROVE y - 1 \in 0..x /\ y - 1 \notin S
    OBVIOUS
  <2>1. y # 0 /\ y - 1 \in Nat /\ (y - 1) + 1 = y
    OBVIOUS
  <2> QED BY <2>1
<1>2. IsFiniteSet(T)
  BY FS_Interval, FS_Subset, 0 \in Int, x \in Int
<1>3. down \in Injection(T, T)
  <2>1. down \in [T -> T]
    BY <1>1
  <2>2. \A a, b \in T : down[a] = down[b] => a = b
    OBVIOUS
  <2> HIDE DEF down, T
  <2> QED BY <2>1, <2>2 DEF Injection, IsInjective
<1>4. down \in Surjection(T, T)
  <2> HIDE DEF down, T
  <2> QED BY <1>2, <1>3, FS_Injection
<1>5. x \in T /\ x + 1 \notin T
  OBVIOUS
<1>6. PICK y \in T : down[y] = x
  <2> HIDE DEF down, T
  <2> QED BY <1>4, <1>5 DEF Surjection
<1> QED BY <1>5, <1>6

\* Lists of at most n packs, and TextsOf on them.
UpTo(n) == {ps \in Seq(Pack) : Len(ps) <= n}
FlatStep(g, ps) == IF ps = <<>> THEN <<>> ELSE Head(ps).texts \o g[Tail(ps)]
Flattens(g, n) == g \in [UpTo(n) -> Seq(Text)] /\ \A ps \in UpTo(n) : g[ps] = FlatStep(g, ps)

\* A list of packs is its first and a list shorter by one.
LEMMA TailShorter ==
  ASSUME NEW ps \in Seq(Pack), ps # <<>>
  PROVE  /\ Head(ps) \in Pack /\ Head(ps).texts \in Seq(Text)
         /\ Tail(ps) \in Seq(Pack) /\ Len(ps) \in Nat \ {0} /\ Len(Tail(ps)) = Len(ps) - 1
<1>1. Head(ps) \in Pack /\ Tail(ps) \in Seq(Pack) /\ Len(Tail(ps)) = Len(ps) - 1
  BY HeadTailProperties
<1>2. Len(ps) \in Nat \ {0}
  BY EmptySeq
<1> QED BY <1>1, <1>2 DEF Pack

\* TextsOf is defined on the lists of any length.
LEMMA FlattensUpTo == \A n \in Nat : \E g : Flattens(g, n)
<1> DEFINE S == {n \in Nat : \E g : Flattens(g, n)}
<1>1. 0 \in S
  <2>1. \A ps \in UpTo(0) : ps = <<>>
    BY EmptySeq DEF UpTo
  <2>2. Flattens([ps \in UpTo(0) |-> <<>>], 0)
    BY <2>1, EmptySeq DEF Flattens, FlatStep
  <2> QED BY <2>2
<1>2. ASSUME NEW n \in Nat, n \in S PROVE n + 1 \in S
  <2>1. PICK g : Flattens(g, n)
    BY <1>2
  <2> DEFINE h == [ps \in UpTo(n + 1) |-> FlatStep(g, ps)]
  <2>2. \A ps \in UpTo(n + 1) : ps # <<>> => Tail(ps) \in UpTo(n) /\ Tail(ps) \in UpTo(n + 1)
    BY TailShorter DEF UpTo
  <2>3. \A ps \in UpTo(n + 1) : FlatStep(g, ps) \in Seq(Text)
    <3> SUFFICES ASSUME NEW ps \in UpTo(n + 1), ps # <<>> PROVE FlatStep(g, ps) \in Seq(Text)
      BY EmptySeq DEF FlatStep
    <3>1. Head(ps).texts \in Seq(Text)
      BY TailShorter DEF UpTo
    <3>2. g[Tail(ps)] \in Seq(Text)
      BY <2>1, <2>2 DEF Flattens
    <3> QED BY <3>1, <3>2, ConcatProperties DEF FlatStep
  <2>4. ASSUME NEW ps \in UpTo(n) PROVE h[ps] = g[ps]
    <3>1. ps \in UpTo(n + 1)
      <4>1. Len(ps) \in Nat
        BY LenProperties DEF UpTo
      <4> QED BY <4>1 DEF UpTo
    <3> QED BY <3>1, <2>1 DEF Flattens
  <2>5. \A ps \in UpTo(n + 1) : FlatStep(g, ps) = FlatStep(h, ps)
    <3> HIDE DEF h
    <3> QED BY <2>2, <2>4 DEF FlatStep
  <2>6. Flattens(h, n + 1)
    BY <2>3, <2>5 DEF Flattens
  <2> QED BY <2>6
<1> HIDE DEF S
<1>3. \A n \in Nat : n \in S
  BY <1>1, <1>2, Induction
<1> QED BY <1>3 DEF S

\* And in one way only.
LEMMA FlattensAlike ==
  ASSUME NEW m \in Nat, NEW n \in Nat, NEW g, NEW h, Flattens(g, m), Flattens(h, n),
         NEW ps \in Seq(Pack), Len(ps) <= m, Len(ps) <= n
  PROVE  g[ps] = h[ps]
<1> DEFINE S == {k \in Nat : \A q \in Seq(Pack) : Len(q) <= k /\ Len(q) <= m /\ Len(q) <= n => g[q] = h[q]}
<1>1. 0 \in S
  <2> SUFFICES ASSUME NEW q \in Seq(Pack), Len(q) <= 0 PROVE g[q] = h[q]
    OBVIOUS
  <2>1. q = <<>> /\ q \in UpTo(m) /\ q \in UpTo(n)
    BY EmptySeq DEF UpTo
  <2> QED BY <2>1 DEF Flattens, FlatStep
<1>2. ASSUME NEW k \in Nat, k \in S PROVE k + 1 \in S
  <2> SUFFICES ASSUME NEW q \in Seq(Pack), Len(q) <= k + 1, Len(q) <= m, Len(q) <= n
               PROVE  g[q] = h[q]
    OBVIOUS
  <2>1. q \in UpTo(m) /\ q \in UpTo(n)
    BY DEF UpTo
  <2>2. q # <<>> => g[Tail(q)] = h[Tail(q)]
    <3> SUFFICES ASSUME q # <<>> PROVE g[Tail(q)] = h[Tail(q)]
      OBVIOUS
    <3>1. /\ Tail(q) \in Seq(Pack) /\ Len(q) \in Nat \ {0} /\ Len(Tail(q)) = Len(q) - 1
      BY TailShorter
    <3>2. Len(Tail(q)) <= k /\ Len(Tail(q)) <= m /\ Len(Tail(q)) <= n
      BY <3>1
    <3> QED BY <1>2, <3>1, <3>2
  <2> QED BY <2>1, <2>2 DEF Flattens, FlatStep
<1> HIDE DEF S
<1>3. \A k \in Nat : k \in S
  BY <1>1, <1>2, Induction
<1>4. Len(ps) \in Nat /\ Len(ps) <= Len(ps)
  BY LenProperties
<1>5. Len(ps) \in S
  BY <1>3, <1>4
<1> QED BY <1>4, <1>5 DEF S

\* So there is a function as TextsOf is declared,
LEMMA TextsOfExists ==
  \E f : f = [ps \in Seq(Pack) |-> IF ps = <<>> THEN <<>> ELSE Head(ps).texts \o f[Tail(ps)]]
<1> DEFINE part(n) == CHOOSE g : Flattens(g, n)
           f == [ps \in Seq(Pack) |-> part(Len(ps))[ps]]
<1>1. \A n \in Nat : Flattens(part(n), n)
  BY FlattensUpTo
<1> HIDE DEF part
<1>2. ASSUME NEW ps \in Seq(Pack)
      PROVE  f[ps] = IF ps = <<>> THEN <<>> ELSE Head(ps).texts \o f[Tail(ps)]
  <2>1. Len(ps) \in Nat /\ ps \in UpTo(Len(ps))
    BY LenProperties DEF UpTo
  <2>2. f[ps] = FlatStep(part(Len(ps)), ps)
    BY <1>1, <2>1 DEF Flattens
  <2>3. CASE ps # <<>>
    <3>1. /\ Tail(ps) \in Seq(Pack) /\ Len(ps) \in Nat \ {0} /\ Len(Tail(ps)) = Len(ps) - 1
      BY <2>3, TailShorter
    <3>2. Len(Tail(ps)) \in Nat /\ Len(Tail(ps)) <= Len(ps) /\ Len(Tail(ps)) <= Len(Tail(ps))
      BY <3>1
    <3>3. part(Len(ps))[Tail(ps)] = part(Len(Tail(ps)))[Tail(ps)]
      <4> DEFINE q == Tail(ps)
                 m == Len(ps)
                 n == Len(q)
      <4>1. /\ q \in Seq(Pack) /\ m \in Nat /\ n \in Nat /\ Len(q) <= m /\ Len(q) <= n
            /\ Flattens(part(m), m) /\ Flattens(part(n), n)
        BY <1>1, <2>1, <3>1, <3>2
      <4> HIDE DEF q, m, n
      <4>2. part(m)[q] = part(n)[q]
        BY <4>1, FlattensAlike
      <4> QED BY <4>2 DEF q, m, n
    <3> QED BY <2>2, <2>3, <3>1, <3>3 DEF FlatStep
  <2> QED BY <2>2, <2>3 DEF FlatStep
<1>3. f = [ps \in Seq(Pack) |-> IF ps = <<>> THEN <<>> ELSE Head(ps).texts \o f[Tail(ps)]]
  <2> DEFINE r == [ps \in Seq(Pack) |-> IF ps = <<>> THEN <<>> ELSE Head(ps).texts \o f[Tail(ps)]]
  <2>1. \A ps \in Seq(Pack) : f[ps] = r[ps]
    BY <1>2
  <2> QED BY <2>1
<1> QED BY <1>3

\* and the equation that declares TextsOf holds.
LEMMA TextsOfIs ==
  \A ps \in Seq(Pack) : TextsOf[ps] = IF ps = <<>> THEN <<>> ELSE Head(ps).texts \o TextsOf[Tail(ps)]
<1>1. TextsOf = [ps \in Seq(Pack) |-> IF ps = <<>> THEN <<>> ELSE Head(ps).texts \o TextsOf[Tail(ps)]]
  BY TextsOfExists DEF TextsOf
<1> QED BY <1>1

\* What lists of packs hold are texts.
LEMMA TextsOfType == \A ps \in Seq(Pack) : TextsOf[ps] \in Seq(Text)
<1> DEFINE S == {k \in Nat : \A q \in Seq(Pack) : Len(q) <= k => TextsOf[q] \in Seq(Text)}
<1>1. 0 \in S
  <2> SUFFICES ASSUME NEW q \in Seq(Pack), Len(q) <= 0 PROVE TextsOf[q] \in Seq(Text)
    OBVIOUS
  <2>1. q = <<>>
    BY EmptySeq
  <2> QED BY <2>1, TextsOfIs, EmptySeq
<1>2. ASSUME NEW k \in Nat, k \in S PROVE k + 1 \in S
  <2> SUFFICES ASSUME NEW q \in Seq(Pack), Len(q) <= k + 1, q # <<>> PROVE TextsOf[q] \in Seq(Text)
    BY TextsOfIs, EmptySeq
  <2>1. /\ Head(q).texts \in Seq(Text)
        /\ Tail(q) \in Seq(Pack) /\ Len(q) \in Nat \ {0} /\ Len(Tail(q)) = Len(q) - 1
    BY TailShorter
  <2>2. TextsOf[Tail(q)] \in Seq(Text)
    <3>1. Len(Tail(q)) <= k
      BY <2>1
    <3> QED BY <1>2, <2>1, <3>1
  <2>3. TextsOf[q] = Head(q).texts \o TextsOf[Tail(q)]
    BY TextsOfIs
  <2> QED BY <2>1, <2>2, <2>3, ConcatProperties
<1> HIDE DEF S
<1>3. \A k \in Nat : k \in S
  BY <1>1, <1>2, Induction
<1> QED
  <2> SUFFICES ASSUME NEW ps \in Seq(Pack) PROVE TextsOf[ps] \in Seq(Text)
    OBVIOUS
  <2>1. Len(ps) \in Nat /\ Len(ps) <= Len(ps)
    BY LenProperties
  <2>2. Len(ps) \in S
    BY <1>3, <2>1
  <2> QED BY <2>1, <2>2 DEF S

\* A pack handed over adds its texts behind those waiting.
LEMMA TextsOfAppend ==
  ASSUME NEW x \in Pack
  PROVE  \A ps \in Seq(Pack) : TextsOf[Append(ps, x)] = TextsOf[ps] \o x.texts
<1> DEFINE Joins(q) == TextsOf[Append(q, x)] = TextsOf[q] \o x.texts
           S == {k \in Nat : \A q \in Seq(Pack) : Len(q) <= k => Joins(q)}
<1>0. x.texts \in Seq(Text)
  BY DEF Pack
<1>a. ASSUME NEW q \in Seq(Pack), q = <<>>
      PROVE  Joins(q)
  <2>1. q = <<>> /\ TextsOf[q] = <<>>
    BY <1>a, TextsOfIs
  <2>2. /\ Append(q, x) \in Seq(Pack) /\ Append(q, x) # <<>>
        /\ Head(Append(q, x)) = x /\ Tail(Append(q, x)) = <<>>
    BY <2>1
  <2>3. TextsOf[Append(q, x)] = x.texts \o <<>>
    BY <2>1, <2>2, TextsOfIs
  <2> QED BY <1>0, <2>1, <2>3, ConcatEmptySeq
<1>1. 0 \in S
  <2>1. \A q \in Seq(Pack) : Len(q) <= 0 => q = <<>>
    BY EmptySeq
  <2> HIDE DEF Joins
  <2> QED BY <1>a, <2>1
<1>2. ASSUME NEW k \in Nat, k \in S PROVE k + 1 \in S
  <2> SUFFICES ASSUME NEW q \in Seq(Pack), Len(q) <= k + 1, q # <<>>
               PROVE  Joins(q)
    <3> HIDE DEF Joins
    <3> QED BY <1>a
  <2>1. /\ Head(q) \in Pack /\ Head(q).texts \in Seq(Text)
        /\ Tail(q) \in Seq(Pack) /\ Len(q) \in Nat \ {0} /\ Len(Tail(q)) = Len(q) - 1
    BY TailShorter
  <2>2. TextsOf[Append(Tail(q), x)] = TextsOf[Tail(q)] \o x.texts
    <3>1. Len(Tail(q)) <= k
      BY <2>1
    <3> QED BY <1>2, <2>1, <3>1
  <2>3. /\ Append(q, x) \in Seq(Pack) /\ Append(q, x) # <<>>
        /\ Head(Append(q, x)) = Head(q) /\ Tail(Append(q, x)) = Append(Tail(q), x)
    BY HeadTailAppend, AppendProperties
  <2>4. TextsOf[Append(q, x)] = Head(q).texts \o (TextsOf[Tail(q)] \o x.texts)
    BY <2>2, <2>3, TextsOfIs
  <2>5. TextsOf[q] = Head(q).texts \o TextsOf[Tail(q)] /\ TextsOf[Tail(q)] \in Seq(Text)
    BY <2>1, TextsOfIs, TextsOfType
  <2>6. Head(q).texts \o (TextsOf[Tail(q)] \o x.texts) = (Head(q).texts \o TextsOf[Tail(q)]) \o x.texts
    <3> DEFINE a == Head(q).texts
               b == TextsOf[Tail(q)]
               c == x.texts
    <3>1. a \in Seq(Text) /\ b \in Seq(Text) /\ c \in Seq(Text)
      BY <1>0, <2>1, <2>5
    <3> HIDE DEF a, b, c
    <3>2. a \o (b \o c) = (a \o b) \o c
      BY <3>1, ConcatAssociative
    <3> QED BY <3>2 DEF a, b, c
  <2> QED BY <2>4, <2>5, <2>6
<1> HIDE DEF S
<1>3. \A k \in Nat : k \in S
  BY <1>1, <1>2, Induction
<1> QED
  <2> SUFFICES ASSUME NEW ps \in Seq(Pack) PROVE TextsOf[Append(ps, x)] = TextsOf[ps] \o x.texts
    OBVIOUS
  <2>1. Len(ps) \in Nat /\ Len(ps) <= Len(ps)
    BY LenProperties
  <2>2. Len(ps) \in S
    BY <1>3, <2>1
  <2> QED BY <2>1, <2>2 DEF S

-----------------------------------------------------------------------------
\* The packs before the one being filled hold nothing; what the one being filled
\* holds; and all that has not yet gone to the worker.
SparesEmpty(av) == \A i \in 1..(Len(av) - 1) : av[i].texts = <<>>
Filling(av) == IF av = <<>> THEN <<>> ELSE Last(av).texts
Waiting(l) == TextsOf[l.logging] \o Filling(l.avail)

\* Texts are texts.
LEMMA FillingType == ASSUME NEW av \in Seq(Pack) PROVE Filling(av) \in Seq(Text)
BY BackFront, EmptySeq DEF Filling, Pack

\* And so are those of all packs.
LEMMA WaitingType == ASSUME NEW l \in PackLists PROVE Waiting(l) \in Seq(Text)
<1>1. l.avail \in Seq(Pack) /\ l.logging \in Seq(Pack) BY DEF PackLists
<1>2. TextsOf[l.logging] \in Seq(Text) /\ Filling(l.avail) \in Seq(Text)
  BY <1>1, TextsOfType, FillingType
<1> QED BY <1>2, ConcatProperties DEF Waiting

\* Behind the pack that is taken away there is an empty one, or none.
LEMMA FrontOf ==
  ASSUME NEW av \in Seq(Pack), av # <<>>, SparesEmpty(av)
  PROVE  /\ \A i \in 1..(Len(av) - 1) : Front(av)[i] = av[i] /\ Front(av)[i].texts = <<>>
         /\ SparesEmpty(Front(av)) /\ Filling(Front(av)) = <<>>
<1>1. Len(av) \in Nat \ {0} /\ Len(Front(av)) = Len(av) - 1 /\ Front(av) \in Seq(Pack)
  BY BackFront
<1>2. \A i \in 1..(Len(av) - 1) : Front(av)[i] = av[i]
  BY <1>1 DEF Front
<1>3. \A i \in 1..(Len(av) - 1) : Front(av)[i].texts = <<>>
  BY <1>2 DEF SparesEmpty
<1>4. SparesEmpty(Front(av))
  <2> DEFINE n == Len(av)
             m == Len(Front(av))
  <2>1. n \in Nat /\ m = n - 1 /\ \A i \in 1..(n - 1) : Front(av)[i].texts = <<>>
    BY <1>1, <1>3
  <2> HIDE DEF n, m
  <2>2. \A i \in 1..(m - 1) : Front(av)[i].texts = <<>>
    BY <2>1
  <2> QED BY <2>2 DEF SparesEmpty, m
<1>5. Filling(Front(av)) = <<>>
  <2> SUFFICES ASSUME Front(av) # <<>> PROVE Last(Front(av)).texts = <<>>
    BY DEF Filling
  <2>1. Len(Front(av)) \in Nat \ {0}
    BY <1>1, EmptySeq
  <2>2. Len(Front(av)) \in 1..(Len(av) - 1)
    BY <1>1, <2>1
  <2> QED BY <1>3, <2>2 DEF Last
<1> QED BY <1>2, <1>3, <1>4, <1>5

\* A pack put at the back of empty ones is the one being filled.
LEMMA AppendBack ==
  ASSUME NEW f \in Seq(Pack), NEW x \in Pack, \A i \in 1..Len(f) : f[i].texts = <<>>
  PROVE  /\ Append(f, x) \in Seq(Pack) /\ Append(f, x) # <<>> /\ Last(Append(f, x)) = x
         /\ SparesEmpty(Append(f, x)) /\ Filling(Append(f, x)) = x.texts
<1>1. /\ Append(f, x) \in Seq(Pack) /\ Append(f, x) # <<>>
      /\ Len(Append(f, x)) = Len(f) + 1 /\ Append(f, x)[Len(f) + 1] = x
      /\ \A i \in 1..Len(f) : Append(f, x)[i] = f[i]
      /\ Len(f) \in Nat
  BY AppendProperties, LenProperties
<1>2. Last(Append(f, x)) = x
  BY <1>1 DEF Last
<1>3. Len(Append(f, x)) - 1 = Len(f)
  BY <1>1
<1>4. SparesEmpty(Append(f, x))
  BY <1>1, <1>3 DEF SparesEmpty
<1> QED BY <1>1, <1>2, <1>4 DEF Filling

\* move_avail() changes the list a pack is in, not the order of the texts.
LEMMA MoveAvailStream ==
  ASSUME NEW l \in PackLists, SparesEmpty(l.avail)
  PROVE  Waiting(move_avail(l)) = Waiting(l) /\ SparesEmpty(move_avail(l).avail)
<1>1. l.avail \in Seq(Pack) /\ l.logging \in Seq(Pack) BY DEF PackLists
<1>2. CASE l.avail # <<>> /\ Last(l.avail).used > 0
  <2>1. move_avail(l) = Lists(Front(l.avail), Append(l.logging, Last(l.avail)))
    BY <1>2 DEF move_avail
  <2>2. /\ move_avail(l).avail = Front(l.avail)
        /\ move_avail(l).logging = Append(l.logging, Last(l.avail))
    BY <2>1 DEF Lists
  <2>3. Last(l.avail) \in Pack /\ Filling(l.avail) = Last(l.avail).texts
    BY <1>1, <1>2, BackFront DEF Filling
  <2>4. TextsOf[Append(l.logging, Last(l.avail))] = TextsOf[l.logging] \o Filling(l.avail)
    BY <1>1, <2>3, TextsOfAppend
  <2>5. Filling(Front(l.avail)) = <<>> /\ SparesEmpty(Front(l.avail))
    BY <1>1, <1>2, FrontOf
  <2>6. Waiting(move_avail(l)) = Waiting(l) \o <<>>
    BY <2>2, <2>4, <2>5 DEF Waiting
  <2> QED BY <2>2, <2>5, <2>6, WaitingType, ConcatEmptySeq
<1>3. CASE ~(l.avail # <<>> /\ Last(l.avail).used > 0)
  BY <1>3 DEF move_avail
<1> QED BY <1>2, <1>3

\* r is s, or s and one text more.
Grown(s, r) == r = s \/ \E u \in Text : r = Append(s, u)

\* What stands before it does not matter.
LEMMA GrownAfter ==
  ASSUME NEW s \in Seq(Text), NEW a \in Seq(Text), NEW b, Grown(a, b)
  PROVE  Grown(s \o a, s \o b)
<1>1. CASE b = a
  BY <1>1 DEF Grown
<1>2. CASE \E u \in Text : b = Append(a, u)
  <2>1. PICK u \in Text : b = Append(a, u)
    BY <1>2
  <2>2. <<u>> \in Seq(Text) /\ b = a \o <<u>>
    BY <2>1, AppendIsConcat
  <2>3. s \o (a \o <<u>>) = (s \o a) \o <<u>>
    BY <2>2, ConcatAssociative
  <2>4. s \o a \in Seq(Text)
    BY ConcatProperties
  <2>5. (s \o a) \o <<u>> = Append(s \o a, u)
    BY <2>4, AppendIsConcat
  <2> QED BY <2>2, <2>3, <2>5 DEF Grown
<1> QED BY <1>1, <1>2 DEF Grown

\* FixBuffer::append adds one text to the pack, or none when it is full.
LEMMA AppendGrows ==
  ASSUME NEW pk \in Pack, NEW t \in Text
  PROVE  Grown(pk.texts, append(pk, t).texts)
<1>. DEFINE n == IF avail(pk) > t.size THEN t.size ELSE avail(pk)
<1>1. t.size \in Nat /\ pk.used \in 0..PackCapacity
  BY LogConstants DEF Text, Pack
<1>2. n \in Nat
  BY <1>1, LogConstants DEF avail
<1>3. [t EXCEPT !.kept = n] \in Text
  BY <1>2 DEF Text
<1>4. append(pk, t) = IF n = 0 THEN pk
        ELSE [texts |-> Append(pk.texts, [t EXCEPT !.kept = n]), used |-> pk.used + n]
  BY DEF append
<1>. HIDE DEF n
<1>. QED BY <1>3, <1>4 DEF Grown

\* get_vail() and the append add at most the one text, at the end.
LEMMA FillStream ==
  ASSUME NEW l \in PackLists, SparesEmpty(l.avail), NEW p \in Posters, NEW t \in Text,
         NEW wakes \in BOOLEAN, Fill(p, t, l, wakes)
  PROVE  /\ SparesEmpty(m_avail')
         /\ Grown(Waiting(l), Waiting(Lists(m_avail', m_logging')))
<1>1. l.avail \in Seq(Pack) /\ l.logging \in Seq(Pack) BY DEF PackLists
<1>2. CASE l.avail = <<>> /\ NoRoom /\ m_avail' = l.avail /\ m_logging' = l.logging
  BY <1>2 DEF Grown, Waiting, Lists
<1>3. CASE l.avail # <<>> \/ ~NoRoom
  <2>. DEFINE av == IF l.avail # <<>> THEN l.avail ELSE <<EmptyPack>>
              pk == append(Last(av), t)
              done == Lists(Append(Front(av), pk), l.logging)
              l2 == IF is_full(pk) THEN move_avail(done) ELSE done
  <2>1. m_avail' = l2.avail /\ m_logging' = l2.logging
    BY <1>3 DEF Fill
  <2>2. /\ av \in Seq(Pack) /\ av # <<>> /\ SparesEmpty(av)
        /\ Filling(l.avail) = Last(av).texts
    <3>1. CASE l.avail # <<>>
      BY <1>1, <3>1 DEF Filling
    <3>2. CASE l.avail = <<>>
      <4>1. EmptyPack \in Pack /\ EmptyPack.texts = <<>>
        BY EmptySeq, LogConstants DEF EmptyPack, Pack
      <4>2. av = <<EmptyPack>> /\ Len(av) = 1 /\ av[1] = EmptyPack
        BY <3>2
      <4> QED BY <3>2, <4>1, <4>2 DEF SparesEmpty, Filling, Last
    <3> QED BY <3>1, <3>2
  <2>3. Last(av) \in Pack /\ Front(av) \in Seq(Pack) /\ Len(Front(av)) = Len(av) - 1
    BY <2>2, BackFront
  <2>4. pk \in Pack /\ Grown(Last(av).texts, pk.texts)
    BY <2>3, AppendFits, AppendGrows
  <2>5. \A i \in 1..Len(Front(av)) : Front(av)[i].texts = <<>>
    BY <2>2, <2>3, FrontOf
  <2>6. /\ Append(Front(av), pk) \in Seq(Pack)
        /\ SparesEmpty(Append(Front(av), pk)) /\ Filling(Append(Front(av), pk)) = pk.texts
    <3> HIDE DEF av, pk
    <3> QED BY <2>3, <2>4, <2>5, AppendBack
  <2>7. /\ done \in PackLists /\ SparesEmpty(done.avail)
        /\ Waiting(done) = TextsOf[l.logging] \o pk.texts
    <3> HIDE DEF av, pk
    <3> QED BY <1>1, <2>6 DEF PackLists, Lists, Waiting
  <2>8. Grown(Waiting(l), Waiting(done))
    <3>1. TextsOf[l.logging] \in Seq(Text) /\ Last(av).texts \in Seq(Text)
      BY <1>1, <2>3, TextsOfType DEF Pack
    <3>2. Waiting(l) = TextsOf[l.logging] \o Last(av).texts
      BY <2>2 DEF Waiting
    <3> HIDE DEF av, pk, done
    <3> QED BY <2>4, <2>7, <3>1, <3>2, GrownAfter
  <2>9. SparesEmpty(l2.avail) /\ Waiting(l2) = Waiting(done)
    <3> HIDE DEF done, pk
    <3> QED BY <2>7, MoveAvailStream
  <2>10. Waiting(Lists(m_avail', m_logging')) = Waiting(l2)
    <3> HIDE DEF l2
    <3> QED BY <2>1 DEF Waiting, Lists
  <2> HIDE DEF l2, done, av, pk
  <2> QED BY <2>1, <2>8, <2>9, <2>10
<1> QED BY <1>2, <1>3 DEF Fill

\* A recycled pack does not come between what is logged.
LEMMA RecycleStream ==
  ASSUME NEW av \in Seq(Pack), SparesEmpty(av)
  PROVE  SparesEmpty(recycle_avail(av)) /\ Filling(recycle_avail(av)) = Filling(av)
<1>1. EmptyPack \in Pack /\ EmptyPack.texts = <<>>
  BY EmptySeq, LogConstants DEF EmptyPack, Pack
<1>2. CASE av = <<>>
  <2>1. recycle_avail(av) = <<EmptyPack>> /\ Len(<<EmptyPack>>) = 1
    BY <1>2 DEF recycle_avail
  <2> QED BY <1>1, <1>2, <2>1 DEF SparesEmpty, Filling, Last
<1>3. CASE av # <<>>
  <2> DEFINE f == Append(Front(av), EmptyPack)
  <2>1. Last(av) \in Pack /\ Front(av) \in Seq(Pack) /\ Len(Front(av)) = Len(av) - 1
        /\ Len(Front(av)) \in Nat
    BY <1>3, BackFront
  <2>2. \A i \in 1..Len(Front(av)) : Front(av)[i].texts = <<>>
    BY <1>3, <2>1, FrontOf
  <2>3. f \in Seq(Pack) /\ Len(f) = Len(Front(av)) + 1
    BY <1>1, <2>1, AppendProperties
  <2>4. \A i \in 1..Len(f) : f[i].texts = <<>>
    <3>1. /\ f[Len(Front(av)) + 1] = EmptyPack
          /\ \A i \in 1..Len(Front(av)) : f[i] = Front(av)[i]
      BY <1>1, <2>1, AppendProperties
    <3> HIDE DEF f
    <3> QED BY <1>1, <2>1, <2>2, <2>3, <3>1
  <2>5. recycle_avail(av) = Append(f, Last(av))
    <3>1. recycle_avail(av) = f \o <<Last(av)>>
      BY <1>3 DEF recycle_avail
    <3> HIDE DEF f
    <3> QED BY <2>1, <2>3, <3>1, AppendIsConcat
  <2> HIDE DEF f
  <2> QED BY <1>3, <2>1, <2>3, <2>4, <2>5, AppendBack DEF Filling
<1> QED BY <1>2, <1>3

\* What the worker has taken and not written; and that with what it has written.
InWork == IF wpc = "handle" THEN pack.texts ELSE <<>>
Logged == file \o InWork

\* Types of the parts of the stream.
LEMMA LoggedType ==
  ASSUME TypeOK
  PROVE  /\ InWork \in Seq(Text) /\ Logged \in Seq(Text) /\ file \in Seq(Text)
         /\ Lists(m_avail, m_logging) \in PackLists
         /\ m_avail \in Seq(Pack) /\ m_logging \in Seq(Pack)
<1>1. InWork \in Seq(Text)
  BY EmptySeq DEF TypeOK, InWork, Pack
<1> QED BY <1>1, ConcatProperties DEF TypeOK, Logged, Lists, PackLists

\* The stream is what was logged before, then what waits.
LEMMA StreamIs == TypeOK => Stream = Logged \o Waiting(Lists(m_avail, m_logging))
<1> SUFFICES ASSUME TypeOK PROVE Stream = Logged \o Waiting(Lists(m_avail, m_logging))
  OBVIOUS
<1>1. /\ Logged \in Seq(Text)
      /\ TextsOf[m_logging] \in Seq(Text) /\ Filling(m_avail) \in Seq(Text)
  BY LoggedType, TextsOfType, FillingType
<1>2. Stream = (Logged \o TextsOf[m_logging]) \o Filling(m_avail)
  BY DEF Stream, Logged, InWork, Filling
<1>3. Waiting(Lists(m_avail, m_logging)) = TextsOf[m_logging] \o Filling(m_avail)
  BY DEF Waiting, Lists
<1>4. (Logged \o TextsOf[m_logging]) \o Filling(m_avail)
        = Logged \o (TextsOf[m_logging] \o Filling(m_avail))
  <2> DEFINE a == Logged
             b == TextsOf[m_logging]
             c == Filling(m_avail)
  <2>1. a \in Seq(Text) /\ b \in Seq(Text) /\ c \in Seq(Text)
    BY <1>1
  <2> HIDE DEF a, b, c
  <2>2. (a \o b) \o c = a \o (b \o c)
    BY <2>1, ConcatAssociative
  <2> QED BY <2>2 DEF a, b, c
<1> QED BY <1>2, <1>3, <1>4

\* The first pack goes from the list to the worker.
LEMMA PopLoopStream ==
  ASSUME TypeOK, NEW l \in PackLists, PopLoop(l), wpc # "handle", file' = file
  PROVE  m_avail' = l.avail
         /\ Logged' \o Waiting(Lists(m_avail', m_logging')) = Logged \o Waiting(l)
<1>1. l.avail \in Seq(Pack) /\ l.logging \in Seq(Pack) /\ m_avail' = l.avail
  BY DEF PackLists, PopLoop
<1>2. file \in Seq(Text) /\ Logged = file \o <<>> /\ Logged = file
  BY LoggedType, ConcatEmptySeq DEF Logged, InWork
<1>3. Waiting(l) \in Seq(Text) /\ Filling(l.avail) \in Seq(Text)
  BY <1>1, WaitingType, FillingType
<1>4. CASE l.logging # <<>>
  <2>1. wpc' = "handle" /\ pack' = Head(l.logging) /\ m_logging' = Tail(l.logging)
    BY <1>4 DEF PopLoop
  <2>2. Logged' = file \o Head(l.logging).texts
    BY <2>1 DEF Logged, InWork
  <2>3. /\ Head(l.logging).texts \in Seq(Text) /\ Tail(l.logging) \in Seq(Pack)
        /\ TextsOf[Tail(l.logging)] \in Seq(Text)
    BY <1>1, <1>4, TailShorter, TextsOfType
  <2>4. TextsOf[l.logging] = Head(l.logging).texts \o TextsOf[Tail(l.logging)]
    BY <1>1, <1>4, TextsOfIs
  <2>5. Waiting(Lists(m_avail', m_logging')) = TextsOf[Tail(l.logging)] \o Filling(l.avail)
    BY <1>1, <2>1 DEF Waiting, Lists
  <2> DEFINE a == file
             b == Head(l.logging).texts
             c == TextsOf[Tail(l.logging)]
             d == Filling(l.avail)
  <2>6. a \in Seq(Text) /\ b \in Seq(Text) /\ c \in Seq(Text) /\ d \in Seq(Text)
    BY <1>2, <1>3, <2>3
  <2>7. Waiting(l) = (b \o c) \o d
    BY <2>4 DEF Waiting
  <2>8. Logged' \o Waiting(Lists(m_avail', m_logging')) = (a \o b) \o (c \o d)
    BY <2>2, <2>5
  <2> HIDE DEF a, b, c, d
  <2>9. c \o d \in Seq(Text) /\ b \o c \in Seq(Text)
    BY <2>6, ConcatProperties
  <2>10. (a \o b) \o (c \o d) = a \o (b \o (c \o d))
    <3> DEFINE e == c \o d
    <3>1. e \in Seq(Text)
      BY <2>9
    <3> HIDE DEF e
    <3>2. (a \o b) \o e = a \o (b \o e)
      BY <2>6, <3>1, ConcatAssociative
    <3> QED BY <3>2 DEF e
  <2>11. (b \o c) \o d = b \o (c \o d)
    BY <2>6, ConcatAssociative
  <2>12. Logged \o Waiting(l) = a \o ((b \o c) \o d)
    BY <1>2, <2>7 DEF a
  <2> QED BY <1>1, <2>8, <2>10, <2>11, <2>12
<1>5. CASE l.logging = <<>>
  <2>1. wpc' # "handle" /\ m_logging' = <<>>
    BY <1>5 DEF PopLoop, pop_empty
  <2>2. Logged' = file \o <<>>
    BY <2>1 DEF Logged, InWork
  <2>3. Waiting(Lists(m_avail', m_logging')) = Waiting(l)
    BY <1>1, <1>5, <2>1 DEF Waiting, Lists
  <2> QED BY <1>1, <1>2, <2>2, <2>3
<1> QED BY <1>4, <1>5

\* Every step leaves the stream as it is or adds one text.
LEMMA StreamStep ==
  ASSUME TypeOK, SparesEmpty(m_avail), [Next]_vars
  PROVE  /\ SparesEmpty(m_avail')
         /\ Grown(Logged \o Waiting(Lists(m_avail, m_logging)),
                  Logged' \o Waiting(Lists(m_avail', m_logging')))
<1> DEFINE l == Lists(m_avail, m_logging)
           Goal == /\ SparesEmpty(m_avail')
                   /\ Grown(Logged \o Waiting(l), Logged' \o Waiting(Lists(m_avail', m_logging')))
<1> SUFFICES Goal
  OBVIOUS
<1>1. /\ l \in PackLists /\ l.avail = m_avail /\ l.logging = m_logging
      /\ Logged \in Seq(Text) /\ Waiting(l) \in Seq(Text) /\ file \in Seq(Text)
  <2>1. l \in PackLists /\ l.avail = m_avail /\ l.logging = m_logging
    BY LoggedType DEF Lists
  <2> HIDE DEF l
  <2> QED BY <2>1, LoggedType, WaitingType
<1>2. ASSUME NEW p \in Posters, NEW t \in Text, NEW k \in PackLists, NEW wakes \in BOOLEAN,
             SparesEmpty(k.avail), Waiting(k) = Waiting(l), Fill(p, t, k, wakes),
             UNCHANGED <<pack, file>>
      PROVE  Goal
  <2>1. /\ SparesEmpty(m_avail')
        /\ Grown(Waiting(l), Waiting(Lists(m_avail', m_logging')))
    BY <1>2, FillStream
  <2>2. wpc' \in {wpc, Notified(wpc)}
    BY <1>2 DEF Fill
  <2>3. Logged' = Logged
    BY <1>2, <2>2 DEF Logged, InWork, Notified
  <2> HIDE DEF l
  <2> QED BY <1>1, <2>1, <2>3, GrownAfter
<1>3. ASSUME NEW k \in PackLists, SparesEmpty(k.avail), Waiting(k) = Waiting(l),
             PopLoop(k), wpc # "handle", file' = file
      PROVE  Goal
  BY <1>3, PopLoopStream DEF Grown
<1>4. ASSUME UNCHANGED <<m_avail, m_logging, file, pack>>, wpc' = wpc \/ ~("handle" \in {wpc, wpc'})
      PROVE  Goal
  BY <1>4 DEF Grown, Logged, InWork, Lists
<1> HIDE DEF l, Goal
<1>5. ASSUME NEW p \in Posters, NEW sz \in TextSizes, post(p, sz) PROVE Goal
  <2>1. CASE UNCHANGED <<m_avail, m_logging, wpc>>
    BY <1>4, <1>5, <2>1 DEF post
  <2>2. CASE sz <= PackCapacity /\ ~UNCHANGED <<m_avail, m_logging, wpc>>
    <3> DEFINE t == [src |-> p, num |-> sent[p] + 1, size |-> sz, kept |-> 0]
    <3>1. t \in Text
      BY <1>5, LogConstants DEF post, TypeOK, Text
    <3>2. \/ TooLittle(t) /\ Fill(p, t, move_avail(l), TRUE)
          \/ Fill(p, t, l, FALSE)
      BY <1>5, <2>2 DEF post, l
    <3>3. SparesEmpty(l.avail) /\ UNCHANGED <<pack, file>>
      BY <1>1, <1>5 DEF post
    <3>4. /\ move_avail(l) \in PackLists /\ SparesEmpty(move_avail(l).avail)
          /\ Waiting(move_avail(l)) = Waiting(l)
      BY <1>1, <3>3, MoveAvailKeeps, MoveAvailStream
    <3> HIDE DEF t
    <3> QED BY <1>1, <1>2, <3>1, <3>2, <3>3, <3>4
  <2> QED BY <1>5, <2>1, <2>2 DEF post
<1>6. ASSUME NEW p \in Posters, post_resume(p) PROVE Goal
  <2>1. pending[p] \in Text /\ Fill(p, pending[p], l, FALSE) /\ UNCHANGED <<pack, file>>
    BY <1>6 DEF post_resume, TypeOK, l
  <2> QED BY <1>1, <1>2, <2>1
<1>7. CASE pop
  <2>1. wpc # "handle" /\ file' = file
    BY <1>7 DEF pop
  <2>2. CASE PopLoop(l)
    BY <1>1, <1>3, <2>1, <2>2
  <2>3. CASE PopLoop(Lists(recycle_avail(m_avail), m_logging))
    <3> DEFINE k == Lists(recycle_avail(m_avail), m_logging)
    <3>1. k \in PackLists /\ k.avail = recycle_avail(m_avail) /\ k.logging = m_logging
      BY LoggedType, RecycleAdds DEF Lists, PackLists
    <3>2. SparesEmpty(k.avail) /\ Waiting(k) = Waiting(l)
      BY <1>1, <3>1, LoggedType, RecycleStream DEF Waiting
    <3> HIDE DEF k
    <3> QED BY <1>3, <2>1, <2>3, <3>1, <3>2 DEF k
  <2> QED BY <1>7, <2>2, <2>3 DEF pop, l
<1>8. CASE pop_resume
  <2>1. wpc # "handle" /\ file' = file
    BY <1>8 DEF pop_resume
  <2>2. PopLoop(l) \/ PopLoop(move_avail(l))
    BY <1>8 DEF pop_resume, l
  <2>3. /\ move_avail(l) \in PackLists /\ SparesEmpty(move_avail(l).avail)
        /\ Waiting(move_avail(l)) = Waiting(l) /\ SparesEmpty(l.avail)
    BY <1>1, MoveAvailKeeps, MoveAvailStream
  <2> QED BY <1>1, <1>3, <2>1, <2>2, <2>3
<1>9. CASE handle
  <2>1. /\ file' = file \o pack.texts /\ Logged = file \o pack.texts /\ wpc' = "pop"
        /\ UNCHANGED <<m_avail, m_logging>>
    BY <1>9 DEF handle, Logged, InWork
  <2>2. Logged' = file' \o <<>>
    BY <2>1 DEF Logged, InWork
  <2>3. file' \in Seq(Text) /\ Logged' = Logged
    BY <1>1, <2>1, <2>2, ConcatEmptySeq
  <2> QED BY <2>1, <2>3, <1>1 DEF Grown, l, Goal
<1>10. CASE timed_wait \/ wait_ends("timeout") \/ wait_ends("woken")
  BY <1>4, <1>10 DEF timed_wait, wait_ends
<1>11. CASE close_notify_logging
  BY <1>4, <1>11 DEF close_notify_logging, Notified
<1>12. ASSUME NEW p \in Posters, post_spurious(p) PROVE Goal
  BY <1>4, <1>12 DEF post_spurious
<1>13. CASE close_state \/ close_notify_avail \/ join
  BY <1>4, <1>13 DEF close_state, close_notify_avail, join
<1>14. CASE UNCHANGED vars
  BY <1>4, <1>14 DEF vars
<1> QED
  BY <1>5, <1>6, <1>7, <1>8, <1>9, <1>10, <1>11, <1>12, <1>13, <1>14
  DEF Next, Worker, Owner

\* No step of any thread loses, repeats or reorders what was logged: the log
\* grows at its end, by one text at a time, while packs are filled, handed
\* over, written and recycled.
THEOREM LogNeverRewritten == Spec => StreamGrows
<1> DEFINE IInv == TypeOK /\ PackAccounting /\ NoStrandedLogger /\ SparesEmpty(m_avail)
           S == Logged \o Waiting(Lists(m_avail, m_logging))
           Step == \/ Stream' = Stream
                   \/ Len(Stream') = Len(Stream) + 1 /\ SubSeq(Stream', 1, Len(Stream)) = Stream
<1>1. Init => IInv
  <2>1. Init => SparesEmpty(m_avail)
    BY DEF Init, SparesEmpty
  <2> QED BY <2>1, LogInit
<1>2. IInv /\ [Next]_vars => IInv'
  <2>1. IInv /\ [Next]_vars => SparesEmpty(m_avail)'
    BY StreamStep
  <2> QED BY <2>1, LogStep
<1>3. IInv /\ IInv' /\ [Next]_vars => [Step]_vars
  <2> SUFFICES ASSUME IInv, IInv', [Next]_vars PROVE Step
    OBVIOUS
  <2>1. Grown(S, S')
    BY StreamStep
  <2>2. Stream = S /\ S \in Seq(Text)
    BY StreamIs, LoggedType, WaitingType, ConcatProperties
  <2>3. (TypeOK => Stream = S)'
    BY StreamIs, PTL
  <2>4. Grown(Stream, Stream') /\ Stream \in Seq(Text)
    BY <2>1, <2>2, <2>3
  <2>5. ASSUME NEW s \in Seq(Text), NEW u \in Text
        PROVE  Len(Append(s, u)) = Len(s) + 1 /\ SubSeq(Append(s, u), 1, Len(s)) = s
    <3>1. <<u>> \in Seq(Text) /\ Append(s, u) = s \o <<u>> /\ Len(Append(s, u)) = Len(s) + 1
      BY AppendIsConcat, AppendProperties
    <3>2. SubSeq(s \o <<u>>, 1, Len(s)) = s
      BY <3>1, ConcatSimplifications, SubSeqOfConcat1, SubSeqFull, LenProperties
    <3> QED BY <3>1, <3>2
  <2> QED BY <2>4, <2>5 DEF Grown
<1> QED BY <1>1, <1>2, <1>3, PTL DEF Spec, StreamGrows

=============================================================================
