------------------------------ MODULE LogQueue ------------------------------
(***************************************************************************)
(* The asynchronous logger: the pack queue of prj/src/log/Queue.h, its one  *)
(* worker (prj/src/log/Server.h), the threads that log (Core::append) and   *)
(* the owner that stops it (Core::stop).  A behaviour starts when           *)
(* Core::run() has returned.                                                *)
(*                                                                         *)
(* A pack is a fixed buffer that collects texts.  m_avail holds the packs   *)
(* not handed over yet, the one being filled at the back; m_logging holds   *)
(* the packs waiting for the worker.  post() and pop() run under the mutex  *)
(* and are cut at their waits; close() takes no mutex, so it can fall       *)
(* between the worker's test of the state and its wait.                     *)
(***************************************************************************)
EXTENDS Integers, Sequences, SequencesExt

CONSTANTS
  Posters,          \* threads that log
  PackCapacity,     \* Pack::capacity()
  m_capacity,       \* bytes the queue may allocate
  TextSizes,        \* the sizes of texts
  MaxTexts,         \* bound: texts each thread logs
  NoText, NoPack,
  PostAfterClose    \* do threads log while and after the logger stops?

ASSUME LogConstants ==
  /\ PackCapacity \in Nat \ {0} /\ m_capacity \in Nat /\ m_capacity >= PackCapacity
  /\ TextSizes \subseteq Nat \ {0}
  /\ MaxTexts \in Nat
  /\ PostAfterClose \in BOOLEAN

\* A text, and how many of its bytes were kept.
Text == [src : Posters, num : 1..MaxTexts, size : TextSizes, kept : Nat]
Pack == [texts : Seq(Text), used : 0..PackCapacity]

ASSUME NoneAssumption == NoText \notin Text /\ NoPack \notin Pack

VARIABLES
  m_avail, m_logging,     \* sequences of packs
  m_cur_size,             \* bytes allocated
  m_state,                \* "ok" or "none"
  avail_wait,             \* threads waiting on m_avail_cond_var
  pending,                \* thread -> the text it holds inside post()
  wpc,                    \* the worker; see the actions below
  pack,                   \* the worker's pack
  file,                   \* texts handed to the sinks
  owner,                  \* the owner inside Core::stop()
  sent                    \* thread -> texts logged so far

vars == <<m_avail, m_logging, m_cur_size, m_state, avail_wait, pending, wpc, pack,
          file, owner, sent>>

EmptyPack == [texts |-> <<>>, used |-> 0]

Init ==
  /\ m_avail = <<>> /\ m_logging = <<>> /\ m_cur_size = 0
  /\ m_state = "ok"
  /\ avail_wait = {} /\ pending = [p \in Posters |-> NoText]
  /\ wpc = "pop" /\ pack = NoPack
  /\ file = <<>>
  /\ owner = "running"
  /\ sent = [p \in Posters |-> 0]

-----------------------------------------------------------------------------
is_close == m_state # "ok"

avail(pk) == PackCapacity - pk.used
is_full(pk) == avail(pk) = 0

\* FixBuffer::append: what does not fit is cut off.
append(pk, t) ==
  LET n == IF avail(pk) > t.size THEN t.size ELSE avail(pk)
  IN  IF n = 0 THEN pk
      ELSE [texts |-> Append(pk.texts, [t EXCEPT !.kept = n]), used |-> pk.used + n]

\* The two pack lists as one value: move_avail() hands the back pack over.
Lists(av, lg) == [avail |-> av, logging |-> lg]
move_avail(l) ==
  IF l.avail # <<>> /\ Last(l.avail).used > 0
  THEN Lists(Front(l.avail), Append(l.logging, Last(l.avail)))
  ELSE l

\* The mutex is held across steps only by a worker about to wait.
MutexFree == wpc # "towait"

\* notify_one() / notify_all() on m_logging_cond_var: only the worker waits.
Notified(w) == IF w = "wait" THEN "woken" ELSE w

-----------------------------------------------------------------------------
(* post() *)

\* Fault: memory is allocated without regard to the capacity left.
NoRoom_unbounded == m_cur_size > m_capacity
NoRoom == m_cur_size + PackCapacity > m_capacity

\* get_vail() and what follows it, on lists l, for thread p with text t: wait
\* for a pack, or append and hand a full pack over; wakes says that the worker
\* was notified already.
Fill(p, t, l, wakes) ==
  \/ /\ l.avail = <<>> /\ NoRoom
     /\ avail_wait' = avail_wait \cup {p}
     /\ pending' = [pending EXCEPT ![p] = t]
     /\ m_avail' = l.avail /\ m_logging' = l.logging
     /\ wpc' = IF wakes THEN Notified(wpc) ELSE wpc
     /\ UNCHANGED m_cur_size
  \/ /\ l.avail # <<>> \/ ~NoRoom
     /\ LET av   == IF l.avail # <<>> THEN l.avail ELSE <<EmptyPack>>
            pk   == append(Last(av), t)
            done == Lists(Append(Front(av), pk), l.logging)
            l2   == IF is_full(pk) THEN move_avail(done) ELSE done
        IN  /\ m_avail' = l2.avail /\ m_logging' = l2.logging
            /\ wpc' = IF wakes \/ is_full(pk) THEN Notified(wpc) ELSE wpc
     /\ m_cur_size' = IF l.avail # <<>> THEN m_cur_size ELSE m_cur_size + PackCapacity
     /\ pending' = [pending EXCEPT ![p] = NoText]
     /\ UNCHANGED avail_wait

\* The text does not fit into the current pack.
TooLittle(t) == m_avail # <<>> /\ avail(Last(m_avail)) < t.size

post(p, sz) ==
  /\ MutexFree
  /\ pending[p] = NoText /\ sent[p] < MaxTexts
  /\ is_close => PostAfterClose
  /\ sent' = [sent EXCEPT ![p] = @ + 1]
  /\ \/ /\ sz > PackCapacity               \* throws std::logic_error
        /\ UNCHANGED <<m_avail, m_logging, m_cur_size, avail_wait, pending, wpc>>
     \/ /\ sz <= PackCapacity
        /\ LET t == [src |-> p, num |-> sent[p] + 1, size |-> sz, kept |-> 0]
               l == Lists(m_avail, m_logging)
           IN  IF TooLittle(t) THEN Fill(p, t, move_avail(l), TRUE)
               ELSE Fill(p, t, l, FALSE)
  /\ UNCHANGED <<m_state, pack, file, owner>>

\* Back from m_avail_cond_var.wait(): only get_vail() is tried again.
post_resume(p) ==
  /\ MutexFree
  /\ pending[p] # NoText /\ p \notin avail_wait
  /\ Fill(p, pending[p], Lists(m_avail, m_logging), FALSE)
  /\ UNCHANGED <<m_state, pack, file, owner, sent>>

-----------------------------------------------------------------------------
(* pop() and work() *)

\* Fault: a closed queue is waited on.
pop_empty_deaf == pack' = NoPack /\ wpc' = "towait"
\* Nothing to hand out: leave when closed, else wait for the interval.
pop_empty == pack' = NoPack /\ wpc' = (IF is_close THEN "exited" ELSE "towait")

\* The loop of pop() on the given lists.
PopLoop(l) ==
  /\ m_avail' = l.avail
  /\ \/ /\ l.logging # <<>>
        /\ pack' = Head(l.logging) /\ m_logging' = Tail(l.logging)
        /\ wpc' = "handle"
     \/ /\ l.logging = <<>>
        /\ m_logging' = <<>>
        /\ pop_empty

\* Fault: the recycled pack becomes the one being filled.
recycle_avail_back(av) == Append(av, EmptyPack)
\* recycle_avail(): cleared, and put before the pack being filled.
recycle_avail(av) ==
  IF av = <<>> THEN <<EmptyPack>> ELSE Append(Front(av), EmptyPack) \o <<Last(av)>>

\* Fault: no thread waiting for a pack hears of the recycled one.
recycle_notify_none == avail_wait' = avail_wait
recycle_notify == avail_wait' = {}

pop ==
  /\ wpc = "pop"
  /\ \/ pack = NoPack /\ PopLoop(Lists(m_avail, m_logging)) /\ UNCHANGED avail_wait
     \/ /\ pack # NoPack
        /\ PopLoop(Lists(recycle_avail(m_avail), m_logging))
        /\ recycle_notify
  /\ UNCHANGED <<m_cur_size, m_state, pending, file, owner, sent>>

timed_wait ==
  /\ wpc = "towait"
  /\ wpc' = "wait"
  /\ UNCHANGED <<m_avail, m_logging, m_cur_size, m_state, avail_wait, pending, pack,
                 file, owner, sent>>

\* The interval elapses, or the wait ends spuriously.
wait_ends(how) ==
  /\ wpc = "wait"
  /\ wpc' = how
  /\ UNCHANGED <<m_avail, m_logging, m_cur_size, m_state, avail_wait, pending, pack,
                 file, owner, sent>>

\* Fault: nothing is moved when the interval elapses.
pop_resume_idle ==
  /\ wpc \in {"woken", "timeout"}
  /\ PopLoop(Lists(m_avail, m_logging))
  /\ UNCHANGED <<m_cur_size, m_state, avail_wait, pending, file, owner, sent>>
\* Back in pop(): after a timeout the pack being filled is moved first.
pop_resume ==
  /\ wpc \in {"woken", "timeout"}
  /\ LET l == Lists(m_avail, m_logging)
     IN  PopLoop(IF wpc = "timeout" THEN move_avail(l) ELSE l)
  /\ UNCHANGED <<m_cur_size, m_state, avail_wait, pending, file, owner, sent>>

\* The handler appends the pack to the sinks; the pack is kept for recycling.
handle ==
  /\ wpc = "handle"
  /\ file' = file \o pack.texts
  /\ wpc' = "pop"
  /\ UNCHANGED <<m_avail, m_logging, m_cur_size, m_state, avail_wait, pending, pack,
                 owner, sent>>

-----------------------------------------------------------------------------
(* Core::stop(): close() without the mutex, then join *)

close_state ==
  /\ owner = "running"
  /\ PostAfterClose \/ \A p \in Posters : pending[p] = NoText
  /\ m_state' = "none"
  /\ owner' = "notify_avail"
  /\ UNCHANGED <<m_avail, m_logging, m_cur_size, avail_wait, pending, wpc, pack, file, sent>>

close_notify_avail ==
  /\ owner = "notify_avail"
  /\ avail_wait' = {}
  /\ owner' = "notify_logging"
  /\ UNCHANGED <<m_avail, m_logging, m_cur_size, m_state, pending, wpc, pack, file, sent>>

close_notify_logging ==
  /\ owner = "notify_logging"
  /\ wpc' = Notified(wpc)
  /\ owner' = "join"
  /\ UNCHANGED <<m_avail, m_logging, m_cur_size, m_state, avail_wait, pending, pack, file, sent>>

\* Fault: the logger is reported stopped while its worker still works.
join_early ==
  /\ owner = "join"
  /\ owner' = "stopped"
  /\ UNCHANGED <<m_avail, m_logging, m_cur_size, m_state, avail_wait, pending, wpc, pack,
                 file, sent>>
join ==
  /\ owner = "join" /\ wpc = "exited"
  /\ owner' = "stopped"
  /\ UNCHANGED <<m_avail, m_logging, m_cur_size, m_state, avail_wait, pending, wpc, pack,
                 file, sent>>

\* A wait on a CONDITION_VARIABLE may return without a notification.
post_spurious(p) ==
  /\ p \in avail_wait
  /\ avail_wait' = avail_wait \ {p}
  /\ UNCHANGED <<m_avail, m_logging, m_cur_size, m_state, pending, wpc, pack, file, owner, sent>>

Worker == pop \/ timed_wait \/ wait_ends("timeout") \/ pop_resume \/ handle
Owner == close_notify_avail \/ close_notify_logging \/ join

Next ==
  \/ \E p \in Posters :
       post_resume(p) \/ post_spurious(p) \/ \E sz \in TextSizes : post(p, sz)
  \/ Worker \/ wait_ends("woken")
  \/ close_state \/ Owner

(***************************************************************************)
(* Runnable threads run, and a stop begun goes on.  Spurious wake-ups, each  *)
(* of which starts the flush interval anew, do not win against the interval *)
(* for ever: strong fairness of the timeout.  So does a thread that asks     *)
(* for the mutex get it among those that come and go.                       *)
(***************************************************************************)
Fairness ==
  /\ \A p \in Posters : SF_vars(post_resume(p))
  /\ WF_vars(Worker) /\ SF_vars(wait_ends("timeout"))
  /\ WF_vars(Owner)

Spec == Init /\ [][Next]_vars
FairSpec == Spec /\ Fairness

-----------------------------------------------------------------------------
(* Properties *)

\* Types, and which packs and threads can be where.
TypeOK ==
  /\ m_avail \in Seq(Pack) /\ m_logging \in Seq(Pack)
  /\ m_cur_size \in Nat
  /\ m_state \in {"ok", "none"}
  /\ pending \in [Posters -> Text \cup {NoText}]
  /\ avail_wait \subseteq {p \in Posters : pending[p] # NoText}
  /\ wpc \in {"pop", "towait", "wait", "woken", "timeout", "handle", "exited"}
  /\ pack \in Pack \cup {NoPack}
  /\ wpc = "handle" => pack # NoPack
  /\ wpc \notin {"handle", "pop"} => pack = NoPack
  /\ file \in Seq(Text)
  /\ owner \in {"running", "notify_avail", "notify_logging", "join", "stopped"}
  /\ sent \in [Posters -> 0..MaxTexts]

Held == Len(m_avail) + Len(m_logging) + (IF pack = NoPack THEN 0 ELSE 1)

\* Every pack allocated is in one of the lists or with the worker, and the
\* memory stays within the capacity, however packs circulate.
PackAccounting == m_cur_size = Held * PackCapacity /\ m_cur_size <= m_capacity

\* A thread sleeps for a pack only while there is none and none may be made.
NoStrandedLogger == avail_wait # {} => m_avail = <<>> /\ NoRoom

TextsOf[ps \in Seq(Pack)] ==
  IF ps = <<>> THEN <<>> ELSE Head(ps).texts \o TextsOf[Tail(ps)]

\* Everything logged, in order: written, in the worker's hands, waiting, being
\* collected.
Stream ==
  file \o (IF wpc = "handle" THEN pack.texts ELSE <<>>) \o TextsOf[m_logging]
       \o (IF m_avail = <<>> THEN <<>> ELSE Last(m_avail).texts)

\* The log only ever grows at its end, by one text at a time: no step of any
\* thread loses, repeats or reorders what was logged.
StreamGrows ==
  [][ \/ Stream' = Stream
      \/ Len(Stream') = Len(Stream) + 1 /\ SubSeq(Stream', 1, Len(Stream)) = Stream ]_vars

InFile(p, n) == \E i \in 1..Len(file) : file[i].src = p /\ file[i].num = n
InStream(p, n) == \E i \in 1..Len(Stream) : Stream[i].src = p /\ Stream[i].num = n

\* A text logged reaches the sinks within the flush interval, unless the
\* logger is stopped.
EventuallyWritten ==
  \A p \in Posters : \A n \in 1..MaxTexts : InStream(p, n) ~> (InFile(p, n) \/ is_close)

\* Core::stop() returns, also when close() falls between the worker's test of
\* the state and its wait: the interval of the wait ends it.
StopReturns == owner # "running" ~> owner = "stopped"

\* When stop() has returned and nothing was logged since it began, every pack
\* that had been handed over is written.
HandedOverIsWritten ==
  (owner = "stopped" /\ ~PostAfterClose) => m_logging = <<>> /\ wpc # "handle"

-----------------------------------------------------------------------------
(* What the comments of Queue.h say and the code does not do *)

\* "when close logging, it should log all the data in queue. and stop post log
\* before close queue." (line 85)
StopWritesAll == owner = "stopped" => file = Stream

\* "if current pack is full, move avail to logging buffer." (line 106): a text
\* is appended to a pack that has room for it, so it is kept whole.
TextsWhole ==
  \A i \in 1..Len(Stream) : Stream[i].kept = Stream[i].size

=============================================================================
