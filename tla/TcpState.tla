------------------------------ MODULE TcpState ------------------------------
(***************************************************************************)
(* The state word of a TCP peer (net/TcpState.h), kept in an atomic State   *)
(* (thread/State.h) and changed through Atomic::load() (thread/Atomic.h):    *)
(* the new word is computed from a first read, the difference from a second *)
(* one, and only the addition of the difference is atomic.                  *)
(***************************************************************************)
EXTENDS Integers, FiniteSets, FiniteSetsExt

\* State::_a .. State::_g, by the names TcpState gives them.
Bit == [server |-> 1, connected |-> 2, ready |-> 4, websocket |-> 8,
        self_live |-> 16, peer_live |-> 32, peer_active |-> 64]
\* Bound: the low bits of a uint32_t.  Sums of words agree with the code's on them.
WordSize == 256
Word == 0..(WordSize - 1)

has(w, bit) == (w \div Bit[bit]) % 2 = 1
\* operator|= and operator&= ~: the word to load, from the word read.
Add(w, bits) == w + SumSet({Bit[b] : b \in {x \in bits : ~has(w, x)}})
Del(w, bits) == w - SumSet({Bit[b] : b \in {x \in bits : has(w, x)}})

\* What the setters do to the state: <<operation, bits>>.
\* Fault: only the connected bit goes.
set_closed_bit == <<"del", {"connected"}>>
set_closed == <<"load", {}>>
set_server == <<"load", {"server"}>>
set_connected == <<"load", {"connected"}>>
set_ready == <<"add", {"ready"}>>
set_websocket == <<"add", {"websocket"}>>
set_self_live(is) == <<IF is THEN "add" ELSE "del", {"self_live"}>>
set_peer_live(is) ==
  IF is THEN <<"add", {"peer_live"}>> ELSE <<"del", {"peer_live", "peer_active"}>>
set_peer_active(is) ==
  IF is THEN <<"add", {"peer_active", "peer_live"}>> ELSE <<"del", {"peer_active"}>>

\* load(v): v is computed from a word read first...
Target(op, w) ==
  CASE op[1] = "load" -> Add(0, op[2])
    [] op[1] = "add" -> Add(w, op[2])
    [] op[1] = "del" -> Del(w, op[2])
\* ... the difference from the word read next; it is added to a third.
exchange_add(w, diff) == (w + diff) % WordSize

=============================================================================
