---------------------------- MODULE MessageQueue ----------------------------
(***************************************************************************)
(* The bounded queue of thread/MessageQueue.h: one mutex, one deque, and    *)
(* two condition variables.  Every method runs under the mutex, so a        *)
(* critical section is one step; a wait ends the step (the mutex is freed   *)
(* and the thread joins the condition variable's wait set), and the loop    *)
(* around the wait goes on in a later step, once the thread was notified    *)
(* or woke spuriously.                                                      *)
(*                                                                         *)
(* The operators below are the queue's methods, written for the threads     *)
(* that call them; MessageServer gives those threads their control flow.    *)
(***************************************************************************)
EXTENDS Naturals, Sequences, FiniteSets

CONSTANTS
  Producers,     \* threads that call post() and post_unique()
  Workers,       \* threads that call pop()
  Keys,          \* what a unique checker tells messages apart by
  NoKey,         \* the key of a message sent with post()
  NoMsg,         \* "not inside raw_post()"
  m_capacity,    \* set_capacity(): 0 stands for the default
  MaxPosts       \* bound: messages each producer sends

ASSUME QueueConstants ==
  /\ m_capacity \in Nat \ {0}
  /\ MaxPosts \in Nat
  /\ IsFiniteSet(Producers) /\ IsFiniteSet(Workers)
  /\ NoKey \notin Keys

\* Message: any movable value; here its sender, its number and its key.
Message == [src : Producers, num : 1..MaxPosts, key : Keys \cup {NoKey}]

ASSUME NoMsgAssumption == NoMsg \notin Message

VARIABLES
  m_deque,       \* the messages, oldest first
  m_state,       \* "ok" (open) or "none" (closed)
  full_wait,     \* producers waiting on m_full_cond_var
  empty_wait,    \* workers waiting on m_empty_cond_var
  pending,       \* producer -> the message it carries inside raw_post()
  dropped        \* history: messages overwritten by post_unique, or cleared

queueVars == <<m_deque, m_state, full_wait, empty_wait, pending, dropped>>

QueueInit ==
  /\ m_deque = <<>>
  /\ m_state = "ok"
  /\ full_wait = {} /\ empty_wait = {}
  /\ pending = [p \in Producers |-> NoMsg]
  /\ dropped = {}

-----------------------------------------------------------------------------
is_close == m_state = "none"

is_full == Len(m_deque) = m_capacity

Queued == {m_deque[i] : i \in 1..Len(m_deque)}

\* Fault: the notification is forgotten.
notify_none(waiting, waiting_) == waiting_ = waiting
\* WakeConditionVariable: one waiter leaves the wait set, if there is one.
notify_one(waiting, waiting_) ==
  \/ waiting = {} /\ waiting_ = waiting
  \/ \E t \in waiting : waiting_ = waiting \ {t}

\* Fault: the message is pushed on the wrong end.
push_front(m) == m_deque' = <<m>> \o m_deque
push_back(m) == m_deque' = Append(m_deque, m)

(***************************************************************************)
(* raw_post(): the loop around m_full_cond_var.wait(), then the push.  It   *)
(* never looks at m_state.                                                  *)
(***************************************************************************)
raw_post(p, m) ==
  \/ /\ is_full
     /\ full_wait' = full_wait \cup {p}
     /\ pending' = [pending EXCEPT ![p] = m]
     /\ UNCHANGED <<m_deque, empty_wait>>
  \/ /\ ~is_full
     /\ push_back(m)
     /\ notify_one(empty_wait, empty_wait')
     /\ pending' = [pending EXCEPT ![p] = NoMsg]
     /\ UNCHANGED full_wait

post(p, m) ==
  /\ raw_post(p, m)
  /\ UNCHANGED <<m_state, dropped>>

\* The message find_if returns: the first one the checker accepts.
FoundBy(key) ==
  {i \in 1..Len(m_deque) :
     m_deque[i].key = key /\ \A j \in 1..(i - 1) : m_deque[j].key # key}

(***************************************************************************)
(* post_unique(): overwrite the message the checker finds, in its place and *)
(* without a notification; without one, raw_post().  Once inside raw_post() *)
(* the search is not repeated.                                              *)
(***************************************************************************)
post_unique(p, m) ==
  \/ \E i \in FoundBy(m.key) :
       /\ m_deque' = [m_deque EXCEPT ![i] = m]
       /\ dropped' = dropped \cup {m_deque[i]}
       /\ UNCHANGED <<m_state, full_wait, empty_wait, pending>>
  \/ /\ FoundBy(m.key) = {}
     /\ post(p, m)

(***************************************************************************)
(* pop(): the front message for worker w, a wait, or false once the queue   *)
(* is closed and empty.                                                     *)
(***************************************************************************)
\* Fault: the message is handed out and stays at the front.
pop_true_keep(w) ==
  /\ m_deque # <<>>
  /\ notify_one(full_wait, full_wait')
  /\ UNCHANGED <<m_deque, m_state, empty_wait, pending, dropped>>
pop_true(w) ==
  /\ m_deque # <<>>
  /\ m_deque' = Tail(m_deque)
  /\ notify_one(full_wait, full_wait')
  /\ UNCHANGED <<m_state, empty_wait, pending, dropped>>

\* Fault: a closed queue is not noticed before the wait.
pop_wait_unchecked(w) ==
  /\ m_deque = <<>>
  /\ empty_wait' = empty_wait \cup {w}
  /\ UNCHANGED <<m_deque, m_state, full_wait, pending, dropped>>
pop_wait(w) ==
  /\ m_deque = <<>> /\ ~is_close
  /\ empty_wait' = empty_wait \cup {w}
  /\ UNCHANGED <<m_deque, m_state, full_wait, pending, dropped>>

\* Fault: a closed queue is left with its messages.
pop_false_early(w) ==
  /\ is_close
  /\ UNCHANGED queueVars
pop_false(w) ==
  /\ m_deque = <<>> /\ is_close
  /\ UNCHANGED queueVars

-----------------------------------------------------------------------------
open == m_state' = "ok"

\* Fault: one waiting worker is told instead of all.
raw_close_one ==
  /\ m_state' = "none"
  /\ IF is_close THEN UNCHANGED <<full_wait, empty_wait>>
     ELSE notify_one(empty_wait, empty_wait') /\ notify_one(full_wait, full_wait')
\* raw_close(): nothing, notifications included, when already closed.
raw_close ==
  /\ m_state' = "none"
  /\ IF is_close THEN UNCHANGED <<full_wait, empty_wait>>
     ELSE full_wait' = {} /\ empty_wait' = {}

close ==
  /\ raw_close
  /\ UNCHANGED <<m_deque, pending, dropped>>

release ==
  /\ m_deque' = <<>>
  /\ dropped' = dropped \cup Queued
  /\ raw_close
  /\ UNCHANGED pending

\* A wait on a CONDITION_VARIABLE may return without a notification.
SpuriousWake ==
  /\ \/ \E p \in full_wait : full_wait' = full_wait \ {p} /\ UNCHANGED empty_wait
     \/ \E w \in empty_wait : empty_wait' = empty_wait \ {w} /\ UNCHANGED full_wait
  /\ UNCHANGED <<m_deque, m_state, pending, dropped>>

=============================================================================
