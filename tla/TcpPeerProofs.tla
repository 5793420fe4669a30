--------------------------- MODULE TcpPeerProofs ---------------------------
(***************************************************************************)
(* Theorems about TcpPeer, with threads that meet at every step and for any *)
(* number of them: what is read, what is closed and what is told, until one *)
(* of the faults happens that the property names.                           *)
(***************************************************************************)
EXTENDS TcpPeer, SequenceTheorems, FiniteSetTheorems, TLAPS

-----------------------------------------------------------------------------
(* The invariant *)

ReadKinds == {"head", "data", "until"}
Completion ==
  [of : {"connect", "write"}, what : {"ok", "error"}]
  \cup [of : {"head"}, what : {"empty", "sized", "malformed", "error"}]
  \cup [of : {"data"}, what : {"body", "error"}]
  \cup [of : {"until"}, what : {"hello", "unparsable", "alien", "error"}]

\* What a thread may have left to do, by the name of the place it is at.
Path ==
  [rest |-> <<>>,
   accept1 |-> <<set_connected, set_peer_live(TRUE), set_server, <<"add_peer", {}>>,
     set_ready, <<"async_read", "head">> >>,
   accept2 |-> <<set_peer_live(TRUE), set_server, <<"add_peer", {}>>, set_ready,
     <<"async_read", "head">> >>,
   accept3 |-> <<set_server, <<"add_peer", {}>>, set_ready, <<"async_read", "head">>
     >>,
   accept4 |-> <<<<"add_peer", {}>>, set_ready, <<"async_read", "head">> >>,
   ready_read |-> <<set_ready, <<"async_read", "head">> >>,
   read_head |-> <<<<"async_read", "head">> >>,
   waccept1 |-> <<set_connected, set_peer_live(TRUE), set_server, <<"add_peer", {}>>,
     set_websocket, <<"async_read", "until">> >>,
   waccept2 |-> <<set_peer_live(TRUE), set_server, <<"add_peer", {}>>, set_websocket,
     <<"async_read", "until">> >>,
   waccept3 |-> <<set_server, <<"add_peer", {}>>, set_websocket, <<"async_read",
     "until">> >>,
   waccept4 |-> <<<<"add_peer", {}>>, set_websocket, <<"async_read", "until">> >>,
   ws_until |-> <<set_websocket, <<"async_read", "until">> >>,
   read_until |-> <<<<"async_read", "until">> >>,
   connect1 |-> <<set_connected, set_peer_live(TRUE), set_ready, <<"on_connect", {}>>,
     <<"async_read", "head">> >>,
   connect2 |-> <<set_peer_live(TRUE), set_ready, <<"on_connect", {}>>,
     <<"async_read", "head">> >>,
   connect3 |-> <<set_ready, <<"on_connect", {}>>, <<"async_read", "head">> >>,
   connect4 |-> <<<<"on_connect", {}>>, <<"async_read", "head">> >>,
   wconnect1 |-> <<set_connected, set_peer_live(TRUE), set_websocket,
     set_self_live(TRUE), <<"async_write", {}>>, set_websocket, <<"async_read",
     "until">> >>,
   wconnect2 |-> <<set_peer_live(TRUE), set_websocket, set_self_live(TRUE),
     <<"async_write", {}>>, set_websocket, <<"async_read", "until">> >>,
   wconnect3 |-> <<set_websocket, set_self_live(TRUE), <<"async_write", {}>>,
     set_websocket, <<"async_read", "until">> >>,
   wconnect4 |-> <<set_self_live(TRUE), <<"async_write", {}>>, set_websocket,
     <<"async_read", "until">> >>,
   wconnect5 |-> <<<<"async_write", {}>>, set_websocket, <<"async_read", "until">> >>,
   shake1 |-> <<set_self_live(TRUE), <<"async_write", {}>>, set_ready, <<"async_read",
     "head">> >>,
   shake2 |-> <<<<"async_write", {}>>, set_ready, <<"async_read", "head">> >>,
   empty1 |-> <<set_peer_live(TRUE), <<"on_read", {}>>, <<"async_read", "head">> >>,
   empty2 |-> <<<<"on_read", {}>>, <<"async_read", "head">> >>,
   sized |-> <<set_peer_live(TRUE), <<"async_read", "data">> >>,
   read_data |-> <<<<"async_read", "data">> >>,
   body |-> <<set_peer_active(TRUE), <<"on_read", {}>>, <<"async_read", "head">> >>,
   close1 |-> <<<<"close", {}>>, <<"on_close", {}>> >>,
   close2 |-> <<set_closed, <<"shutdown", {}>>, <<"on_close", {}>> >>,
   close3 |-> <<<<"shutdown", {}>>, <<"on_close", {}>> >>,
   close4 |-> <<<<"on_close", {}>> >>,
   sweep1 |-> <<<<"close", {}>>, <<"erase", {}>> >>,
   sweep2 |-> <<set_closed, <<"shutdown", {}>>, <<"erase", {}>> >>,
   sweep3 |-> <<<<"shutdown", {}>>, <<"erase", {}>> >>,
   sweep4 |-> <<<<"erase", {}>> >>,
   send1 |-> <<set_self_live(TRUE), <<"async_write", {}>> >>,
   send2 |-> <<<<"async_write", {}>> >>,
   active |-> <<set_peer_active(TRUE)>>,
   live |-> <<set_peer_live(TRUE)>>,
   inactive |-> <<set_peer_active(FALSE)>>,
   again |-> <<<<"connect", {}>> >>]
Place == DOMAIN Path

\* The places: of on_accept(), of a client's handler before it sets the state,
\* of the rest of it, of a read that is to begin, of the end of a connection.
Accepting == {"accept1", "accept2", "accept3", "accept4",
              "waccept1", "waccept2", "waccept3", "waccept4"}
Beginning == {"connect1", "wconnect1"}
Connected == {"connect2", "connect3", "connect4", "wconnect2", "wconnect3", "wconnect4",
              "wconnect5", "ws_until", "read_until"}
Messages == {"read_head", "read_data", "empty1", "empty2", "sized", "body"}
ToRead == Accepting \cup Beginning \cup Connected \cup Messages
          \cup {"ready_read", "shake1", "shake2"}
Closing == {"close1", "close2", "close3", "close4"}
Sweeping == {"sweep1", "sweep2", "sweep3", "sweep4"}

Server == role[1] = "server"
IoPlace ==
  {"rest"} \cup Closing \cup
  IF Server
  THEN Sweeping \cup (ToRead \ {"connect1", "connect2", "wconnect1", "wconnect2", "wconnect3",
                                "wconnect4", "wconnect5"})
  ELSE {"again"} \cup (ToRead \ Accepting)
UserPlace ==
  {"rest", "send1", "send2", "active", "live"} \cup
  IF Server THEN {"inactive"} \cup Sweeping ELSE {"again"}
Swept(u) == \E m \in Sweeping : todo[u] = Path[m]

\* The types of the connection, and what each thread may be at.
Data ==
  /\ role \in Roles /\ m_state \in Word
  /\ socket \in {"none", "connecting", "open", "broken"}
  /\ reads \in Seq(ReadKinds) /\ writes \in Nat /\ done \in Seq(Completion)
  /\ {up, met, erased} \subseteq BOOLEAN /\ known \subseteq Faults
Doing ==
  /\ DOMAIN todo = Threads
  /\ \A u \in Users : \E m \in UserPlace : todo[u] = Path[m]
  /\ load \in [Threads -> {Nil} \cup [v : Int, diff : {Nil} \cup Int]]
  /\ \A t \in Threads : load[t] # Nil => Loading(t)

\* What the socket and the server's set of peers are like, whatever has happened.
Shape ==
  /\ ~Open => reads = <<>>
  /\ Server => socket # "connecting" /\ \A i \in DOMAIN done : done[i].of # "connect"
  /\ ~Server => ~erased
  /\ "update lost" \notin known => m_state \in 0..127

\* A server's peer, with its io thread at n.
OfServer(n) ==
  /\ n \in Accepting \cup Sweeping => ~up /\ ~erased /\ \A u \in Users : ~Swept(u)
  /\ ~up /\ ~erased => n \in Accepting \cup Sweeping
  /\ erased /\ "swept" \notin known => n \in Closing \/ (~up /\ n \notin {"connect3", "connect4"})
  /\ ~Open /\ ~erased => n \in {"close4", "sweep4"} \/ \E u \in Users : todo[u] = Path["sweep4"]

\* A client's connection, from the connect to the end.
Made == [of |-> "connect", what |-> "ok"]
Ended == {i \in DOMAIN done : done[i].of \in ReadKinds}
Broken(i) == done[i].what = "error" /\ done[i].of # "connect"
OfClient(n) ==
  /\ ~Is("server") /\ n \notin {"ready_read", "shake1", "shake2"}
  /\ socket = "connecting" =>
       ~Is("connected") /\ n \notin Beginning /\ \A i \in DOMAIN done : done[i] # Made
  /\ \A i \in DOMAIN done : done[i] = Made =>
       ~Is("connected") /\ n \notin Beginning /\ \A j \in DOMAIN done : done[j] = Made => j = i
  /\ n \in Beginning => ~Is("connected") /\ ~up
  /\ ~Is("connected") => ~Is("ready") /\ ~Is("websocket")
  /\ n \in Connected => Is("connected")
  /\ n = "connect4" => Is("ready")
  /\ n \in {"close3", "close4"} => ~Is("connected")
  /\ Is("connected") /\ ~Open =>
       n \in ToRead \cup {"close1", "close2"} \/ \E i \in DOMAIN done : Broken(i)
  /\ up => (Is("connected") /\ Is("ready")) \/ n \in {"close3", "close4"}
  /\ up => n \in ToRead \cup Closing \/ reads # <<>> \/ Ended # {}

\* The reads of a connection that is there: none while the io thread has yet to
\* begin one, else one, and it is of a kind that its handler will not drop.
NoRead == reads = <<>> /\ Ended = {}
OneRead ==
  \/ Ended = {} /\ Len(reads) = 1
  \/ reads = <<>> /\ \E i \in Ended : Ended = {i}
Fits(kind) == Is("ready") \/ (kind = "until" /\ Is("websocket"))
There == Served /\ Open /\ ~erased
OfReads(n) ==
  /\ n \in Accepting => NoRead
  /\ n \in Beginning /\ Open => NoRead
  /\ \A i \in DOMAIN done : done[i] = Made /\ Open => reads = <<>> /\ \A j \in Ended : j < i
  /\ There => /\ n \in ToRead => NoRead
              /\ n \in {"rest", "again"} => OneRead
              /\ \A i \in DOMAIN reads : Fits(reads[i])
              /\ \A i \in Ended : Fits(done[i].of)
              /\ n \in Messages \cup {"connect4"} => Is("ready")
              /\ n = "read_until" => Is("websocket")

\* The steps after which nothing is said of a client, and of the reads.
Kept == known \cap {"update lost", "cut"} = {}
KeptReads == known \cap {"update lost", "alien", "cut", "late read"} = {}

\* The io thread is at n, and all that follows from it.
InvAt(n) ==
  /\ todo[Io] = Path[n]
  /\ Server => OfServer(n)
  /\ ~Server /\ Kept => OfClient(n)
  /\ KeptReads => OfReads(n)

IInv == Data /\ Doing /\ Shape /\ \E n \in IoPlace : InvAt(n)

Bits(w) == {b \in DOMAIN Bit : has(w, b)}

-----------------------------------------------------------------------------
(* The state word *)

\* SumSet adds an element of the set to the sum of the others.
Pick(s) == CHOOSE x \in s : TRUE
Iter(S, i) == i = [s \in SUBSET S |-> IF s = {} THEN 0 ELSE Pick(s) + i[s \ {Pick(s)}]]

\* The sum of a set of at most two numbers.
LEMMA Sums ==
  /\ SumSet({}) = 0
  /\ \A a \in Int : SumSet({a}) = a
  /\ \A a, b \in Int : a # b => SumSet({a, b}) = a + b
<1>1. \A S : SumSet(S) = (CHOOSE i : Iter(S, i))[S]
  BY DEF SumSet, FoldSet, MapThenFoldSet, Iter, Pick
<1>0. \A S : (\E i : Iter(S, i)) => Iter(S, CHOOSE i : Iter(S, i))
  OBVIOUS
<1>5. \A s : s # {} => Pick(s) \in s BY DEF Pick
<1>2. SumSet({}) = 0
  <2>1. Iter({}, [s \in SUBSET {} |-> 0]) BY DEF Iter
  <2>2. Iter({}, CHOOSE i : Iter({}, i)) BY <2>1, <1>0
  <2>. QED BY <1>1, <2>2 DEF Iter
<1>3. ASSUME NEW a \in Int PROVE SumSet({a}) = a
  <2>0. Pick({a}) = a /\ SUBSET {a} = {{}, {a}} /\ {a} \ {a} = {} BY <1>5
  <2> DEFINE f == [s \in SUBSET {a} |-> IF s = {} THEN 0 ELSE a]
  <2>1. Iter({a}, f)
    <3>1. f[{}] = 0 /\ f[{a}] = a BY <2>0
    <3>2. \A s \in SUBSET {a} : s = {} \/ s = {a} BY <2>0
    <3> HIDE DEF f
    <3>6. Pick({a}) = a /\ {a} \ {Pick({a})} = {} BY <2>0
    <3>7. f[{a} \ {Pick({a})}] = 0 BY <3>6, <3>1
    <3>4. f[{a}] = Pick({a}) + f[{a} \ {Pick({a})}] BY <3>6, <3>1, <3>7
    <3>3. \A s \in SUBSET {a} : f[s] = IF s = {} THEN 0 ELSE Pick(s) + f[s \ {Pick(s)}]
      BY <3>1, <3>2, <3>4
    <3>5. f = [s \in SUBSET {a} |-> f[s]] BY DEF f
    <3>. QED BY <3>3, <3>5 DEF Iter
  <2>2. Iter({a}, CHOOSE i : Iter({a}, i))
    <3> HIDE DEF f
    <3>. QED BY <2>1, <1>0
  <2> DEFINE g == CHOOSE i : Iter({a}, i)
  <2>3. SumSet({a}) = g[{a}] BY <1>1
  <2>4. Iter({a}, g) BY <2>2
  <2> HIDE DEF g
  <2>5. \A s \in SUBSET {a} : g[s] = IF s = {} THEN 0 ELSE Pick(s) + g[s \ {Pick(s)}]
    BY <2>4 DEF Iter
  <2>6. g[{}] = 0 BY <2>5
  <2>7. g[{a}] = a + g[{}] BY <2>5, <2>0
  <2>. QED BY <2>3, <2>6, <2>7
<1>4. ASSUME NEW a \in Int, NEW b \in Int, a # b PROVE SumSet({a, b}) = a + b
  <2>0. /\ Pick({a}) = a /\ Pick({b}) = b /\ Pick({a, b}) \in {a, b}
    BY <1>5
  <2>9. /\ SUBSET {a, b} = {{}, {a}, {b}, {a, b}} /\ {a} \ {a} = {} /\ {b} \ {b} = {}
        /\ {a, b} \ {a} = {b} /\ {a, b} \ {b} = {a}
    BY <1>4
  <2> DEFINE f == [s \in SUBSET {a, b} |-> IF s = {} THEN 0 ELSE IF s = {a} THEN a
                                           ELSE IF s = {b} THEN b ELSE a + b]
  <2>1. Iter({a, b}, f)
    <3>1. f[{}] = 0 /\ f[{a}] = a /\ f[{b}] = b /\ f[{a, b}] = a + b BY <1>4
    <3>5. /\ \A s \in SUBSET {a, b} : s = {} \/ s = {a} \/ s = {b} \/ s = {a, b}
      BY <2>9
    <3> HIDE DEF f
    <3>4. {a} \ {Pick({a})} = {} /\ {b} \ {Pick({b})} = {} BY <2>0, <2>9
    <3>6. /\ f[{a}] = Pick({a}) + f[{a} \ {Pick({a})}]
          /\ f[{b}] = Pick({b}) + f[{b} \ {Pick({b})}]
      <4>1. f[{a} \ {Pick({a})}] = 0 /\ f[{b} \ {Pick({b})}] = 0 BY <3>4, <3>1
      <4>. QED BY <4>1, <2>0, <3>1
    <3>8. \/ Pick({a, b}) = a /\ {a, b} \ {Pick({a, b})} = {b}
          \/ Pick({a, b}) = b /\ {a, b} \ {Pick({a, b})} = {a}
      BY <2>0, <2>9
    <3>7. f[{a, b}] = Pick({a, b}) + f[{a, b} \ {Pick({a, b})}]
      <4>1. \/ Pick({a, b}) = a /\ f[{a, b} \ {Pick({a, b})}] = b
            \/ Pick({a, b}) = b /\ f[{a, b} \ {Pick({a, b})}] = a
        BY <3>8, <3>1
      <4>. QED BY <4>1, <3>1
    <3>2. \A s \in SUBSET {a, b} : f[s] = IF s = {} THEN 0 ELSE Pick(s) + f[s \ {Pick(s)}]
      BY <3>1, <3>5, <3>6, <3>7
    <3>3. f = [s \in SUBSET {a, b} |-> f[s]] BY DEF f
    <3>. QED BY <3>2, <3>3 DEF Iter
  <2>2. Iter({a, b}, CHOOSE i : Iter({a, b}, i)) 
    <3> HIDE DEF f
    <3>. QED BY <2>1, <1>0
  <2> DEFINE g == CHOOSE i : Iter({a, b}, i)
  <2>3. Iter({a, b}, g) BY <2>2
  <2>4. SumSet({a, b}) = g[{a, b}] BY <1>1
  <2> HIDE DEF g
  <2>5. \A s \in SUBSET {a, b} : g[s] = IF s = {} THEN 0 ELSE Pick(s) + g[s \ {Pick(s)}]
    BY <2>3 DEF Iter
  <2>6. g[{}] = 0 BY <2>5
  <2>7. g[{a}] = a + g[{}] /\ g[{b}] = b + g[{}] BY <2>5, <2>0, <2>9
  <2>8. g[{a, b}] = a + g[{b}] \/ g[{a, b}] = b + g[{a}] BY <2>5, <2>0, <2>9
  <2>. QED BY <2>4, <2>6, <2>7, <2>8
<1>. QED BY <1>2, <1>3, <1>4

\* Adding the weight of one bit that a word lacks sets this bit and no other.
LEMMA OneBit ==
  ASSUME NEW w \in 0..127, NEW k \in {1, 2, 4, 8, 16, 32, 64}, (w \div k) % 2 = 0
  PROVE  /\ w + k \in 0..127 /\ ((w + k) \div k) % 2 = 1
         /\ \A j \in {1, 2, 4, 8, 16, 32, 64} \ {k} : ((w + k) \div j) % 2 = (w \div j) % 2
<1>1. CASE k = 1 BY <1>1
<1>2. CASE k = 2 BY <1>2
<1>3. CASE k = 4 BY <1>3
<1>4. CASE k = 8 BY <1>4
<1>5. CASE k = 16 BY <1>5
<1>6. CASE k = 32 BY <1>6
<1>7. CASE k = 64 BY <1>7
<1>. QED BY <1>1, <1>2, <1>3, <1>4, <1>5, <1>6, <1>7

\* Taking it away clears this bit and no other.
LEMMA LessBit ==
  ASSUME NEW w \in 0..127, NEW k \in {1, 2, 4, 8, 16, 32, 64}, (w \div k) % 2 = 1
  PROVE  /\ w - k \in 0..127 /\ ((w - k) \div k) % 2 = 0
         /\ \A j \in {1, 2, 4, 8, 16, 32, 64} \ {k} : ((w - k) \div j) % 2 = (w \div j) % 2
<1>1. CASE k = 1 BY <1>1
<1>2. CASE k = 2 BY <1>2
<1>3. CASE k = 4 BY <1>3
<1>4. CASE k = 8 BY <1>4
<1>5. CASE k = 16 BY <1>5
<1>6. CASE k = 32 BY <1>6
<1>7. CASE k = 64 BY <1>7
<1>. QED BY <1>1, <1>2, <1>3, <1>4, <1>5, <1>6, <1>7

\* A word without bits is zero,
LEMMA NoBit == 
  ASSUME NEW w \in 0..127, \A j \in {1, 2, 4, 8, 16, 32, 64} : (w \div j) % 2 # 1
  PROVE  w = 0
  OBVIOUS

\* and zero has none.
LEMMA ZeroHasNone == \A j \in {1, 2, 4, 8, 16, 32, 64} : (0 \div j) % 2 = 0
  OBVIOUS

\* The bits of a state word have different weights.
LEMMA Weights ==
  /\ \A b \in DOMAIN Bit : Bit[b] \in {1, 2, 4, 8, 16, 32, 64}
  /\ \A b, c \in DOMAIN Bit : b # c => Bit[b] # Bit[c]
  /\ \A w \in 0..127, b \in DOMAIN Bit : ~has(w, b) <=> (w \div Bit[b]) % 2 = 0
<1>1. /\ \A b \in DOMAIN Bit : Bit[b] \in {1, 2, 4, 8, 16, 32, 64}
      /\ \A b, c \in DOMAIN Bit : b # c => Bit[b] # Bit[c]
  BY DEF Bit
<1>2. \A w \in 0..127, k \in {1, 2, 4, 8, 16, 32, 64} : (w \div k) % 2 \in {0, 1}
  OBVIOUS
<1>. QED BY <1>1, <1>2 DEF has

\* The state is closed when no bit is set.
LEMMA NoBits == \A w \in 0..127 : w = 0 <=> Bits(w) = {}
<1>1. ASSUME NEW w \in 0..127, Bits(w) = {} PROVE w = 0
  <2>1. \A b \in DOMAIN Bit : ~has(w, b) BY <1>1 DEF Bits
  <2>2. \A j \in {1, 2, 4, 8, 16, 32, 64} : \E b \in DOMAIN Bit : Bit[b] = j BY DEF Bit
  <2>. QED BY <2>1, <2>2, NoBit DEF has
<1>2. Bits(0) = {} BY ZeroHasNone, Weights DEF Bits, has
<1>. QED BY <1>1, <1>2

\* operator|= of one bit,
LEMMA AddBit ==
  ASSUME NEW w \in 0..127, NEW b \in DOMAIN Bit
  PROVE  /\ Add(w, {b}) \in 0..127 /\ Bits(Add(w, {b})) = Bits(w) \cup {b}
         /\ Add(w, {b}) = IF has(w, b) THEN w ELSE w + Bit[b]
<1> DEFINE A == Add(w, {b})
<1>1. CASE has(w, b)
  <2>1. {Bit[x] : x \in {y \in {b} : ~has(w, y)}} = {} BY <1>1
  <2>3. A = w + 0 BY <2>1, Sums DEF Add
  <2>2. A = w BY <2>3
  <2>. QED BY <1>1, <2>2 DEF Bits
<1>2. CASE ~has(w, b)
  <2>1. {Bit[x] : x \in {y \in {b} : ~has(w, y)}} = {Bit[b]} BY <1>2
  <2>2. Bit[b] \in Int BY Weights
  <2>3. A = w + Bit[b] BY <2>1, <2>2, Sums DEF Add
  <2>4. (w \div Bit[b]) % 2 = 0 BY <1>2, Weights
  <2> DEFINE k == Bit[b]
  <2>6. /\ k \in {1, 2, 4, 8, 16, 32, 64}
        /\ \A c \in DOMAIN Bit : c # b => Bit[c] \in {1, 2, 4, 8, 16, 32, 64} \ {k}
    BY Weights
  <2>7. (w \div k) % 2 = 0 BY <2>4
  <2> HIDE DEF k
  <2>8. /\ w + k \in 0..127 /\ ((w + k) \div k) % 2 = 1
        /\ \A j \in {1, 2, 4, 8, 16, 32, 64} \ {k} : ((w + k) \div j) % 2 = (w \div j) % 2
    BY <2>6, <2>7, OneBit
  <2>9. ASSUME NEW c \in DOMAIN Bit, c # b PROVE has(w + k, c) <=> has(w, c)
    BY <2>6, <2>8, <2>9 DEF has
  <2>10. has(w + k, b) BY <2>8 DEF has, k
  <2>5. /\ w + Bit[b] \in 0..127 /\ has(w + Bit[b], b)
        /\ \A c \in DOMAIN Bit : c # b => (has(w + Bit[b], c) <=> has(w, c))
    BY <2>8, <2>9, <2>10 DEF k
  <2>. QED BY <1>2, <2>3, <2>5 DEF Bits
<1>. QED BY <1>1, <1>2

\* operator&= of the complement of one,
LEMMA DelBit ==
  ASSUME NEW w \in 0..127, NEW b \in DOMAIN Bit
  PROVE  /\ Del(w, {b}) \in 0..127 /\ Bits(Del(w, {b})) = Bits(w) \ {b}
         /\ Del(w, {b}) = IF has(w, b) THEN w - Bit[b] ELSE w
<1> DEFINE A == Del(w, {b})
<1>1. CASE ~has(w, b)
  <2>1. {Bit[x] : x \in {y \in {b} : has(w, y)}} = {} BY <1>1
  <2>3. A = w - 0 BY <2>1, Sums DEF Del
  <2>2. A = w BY <2>3
  <2>. QED BY <1>1, <2>2 DEF Bits
<1>2. CASE has(w, b)
  <2>1. {Bit[x] : x \in {y \in {b} : has(w, y)}} = {Bit[b]} BY <1>2
  <2>2. Bit[b] \in Int BY Weights
  <2>3. A = w - Bit[b] BY <2>1, <2>2, Sums DEF Del
  <2>4. (w \div Bit[b]) % 2 = 1 BY <1>2 DEF has
  <2> DEFINE k == Bit[b]
  <2>6. /\ k \in {1, 2, 4, 8, 16, 32, 64}
        /\ \A c \in DOMAIN Bit : c # b => Bit[c] \in {1, 2, 4, 8, 16, 32, 64} \ {k}
    BY Weights
  <2>7. (w \div k) % 2 = 1 BY <2>4
  <2> HIDE DEF k
  <2>8. /\ w - k \in 0..127 /\ ((w - k) \div k) % 2 = 0
        /\ \A j \in {1, 2, 4, 8, 16, 32, 64} \ {k} : ((w - k) \div j) % 2 = (w \div j) % 2
    BY <2>6, <2>7, LessBit
  <2>9. ASSUME NEW c \in DOMAIN Bit, c # b PROVE has(w - k, c) <=> has(w, c)
    BY <2>6, <2>8, <2>9 DEF has
  <2>10. ~has(w - k, b) BY <2>8 DEF has, k
  <2>5. /\ w - Bit[b] \in 0..127 /\ ~has(w - Bit[b], b)
        /\ \A c \in DOMAIN Bit : c # b => (has(w - Bit[b], c) <=> has(w, c))
    BY <2>8, <2>9, <2>10 DEF k
  <2>. QED BY <1>2, <2>3, <2>5 DEF Bits
<1>. QED BY <1>1, <1>2

\* and of two bits: as of one after the other.
LEMMA AddTwo ==
  ASSUME NEW w \in 0..127, NEW a \in DOMAIN Bit, NEW b \in DOMAIN Bit, a # b
  PROVE  Add(w, {a, b}) \in 0..127 /\ Bits(Add(w, {a, b})) = Bits(w) \cup {a, b}
<1> DEFINE x == Add(w, {a})
<1>1. x \in 0..127 /\ Bits(x) = Bits(w) \cup {a} /\ x = IF has(w, a) THEN w ELSE w + Bit[a]
  BY AddBit
<1>2. has(x, b) <=> has(w, b) BY <1>1 DEF Bits
<1> HIDE DEF x
<1>3. /\ Add(x, {b}) \in 0..127 /\ Bits(Add(x, {b})) = Bits(x) \cup {b}
      /\ Add(x, {b}) = IF has(w, b) THEN x ELSE x + Bit[b]
  BY <1>1, <1>2, AddBit
<1> DEFINE S == {Bit[c] : c \in {y \in {a, b} : ~has(w, y)}}
<1>4. Bit[a] \in Int /\ Bit[b] \in Int /\ Bit[a] # Bit[b] BY Weights
<1>5. S = (IF has(w, a) THEN {} ELSE {Bit[a]}) \cup (IF has(w, b) THEN {} ELSE {Bit[b]})
  OBVIOUS
<1>6. Add(w, {a, b}) = w + SumSet(S) BY DEF Add
<1> HIDE DEF S
<1>7. SumSet(S) = (IF has(w, a) THEN 0 ELSE Bit[a]) + (IF has(w, b) THEN 0 ELSE Bit[b])
  <2>1. CASE has(w, a) /\ has(w, b) BY <2>1, <1>5, Sums
  <2>2. CASE has(w, a) /\ ~has(w, b) BY <2>2, <1>4, <1>5, Sums
  <2>3. CASE ~has(w, a) /\ has(w, b) BY <2>3, <1>4, <1>5, Sums
  <2>4. CASE ~has(w, a) /\ ~has(w, b)
    <3>1. S = {Bit[a], Bit[b]} BY <2>4, <1>5
    <3>. QED BY <2>4, <3>1, <1>4, Sums
  <2>. QED BY <2>1, <2>2, <2>3, <2>4
<1>8. Add(w, {a, b}) = Add(x, {b}) BY <1>1, <1>3, <1>4, <1>6, <1>7
<1>. QED BY <1>1, <1>3, <1>8

\* The same for two bits to clear.
LEMMA DelTwo ==
  ASSUME NEW w \in 0..127, NEW a \in DOMAIN Bit, NEW b \in DOMAIN Bit, a # b
  PROVE  Del(w, {a, b}) \in 0..127 /\ Bits(Del(w, {a, b})) = Bits(w) \ {a, b}
<1> DEFINE x == Del(w, {a})
<1>1. x \in 0..127 /\ Bits(x) = Bits(w) \ {a} /\ x = IF has(w, a) THEN w - Bit[a] ELSE w
  BY DelBit
<1>2. has(x, b) <=> has(w, b) BY <1>1 DEF Bits
<1> HIDE DEF x
<1>3. /\ Del(x, {b}) \in 0..127 /\ Bits(Del(x, {b})) = Bits(x) \ {b}
      /\ Del(x, {b}) = IF has(w, b) THEN x - Bit[b] ELSE x
  BY <1>1, <1>2, DelBit
<1> DEFINE S == {Bit[c] : c \in {y \in {a, b} : has(w, y)}}
<1>4. Bit[a] \in Int /\ Bit[b] \in Int /\ Bit[a] # Bit[b] BY Weights
<1>5. S = (IF has(w, a) THEN {Bit[a]} ELSE {}) \cup (IF has(w, b) THEN {Bit[b]} ELSE {})
  OBVIOUS
<1>6. Del(w, {a, b}) = w - SumSet(S) BY DEF Del
<1> HIDE DEF S
<1>7. SumSet(S) = (IF has(w, a) THEN Bit[a] ELSE 0) + (IF has(w, b) THEN Bit[b] ELSE 0)
  <2>1. CASE ~has(w, a) /\ ~has(w, b) BY <2>1, <1>5, Sums
  <2>2. CASE ~has(w, a) /\ has(w, b) BY <2>2, <1>4, <1>5, Sums
  <2>3. CASE has(w, a) /\ ~has(w, b) BY <2>3, <1>4, <1>5, Sums
  <2>4. CASE has(w, a) /\ has(w, b)
    <3>1. S = {Bit[a], Bit[b]} BY <2>4, <1>5
    <3>. QED BY <2>4, <3>1, <1>4, Sums
  <2>. QED BY <2>1, <2>2, <2>3, <2>4
<1>8. Del(w, {a, b}) = Del(x, {b}) BY <1>1, <1>3, <1>4, <1>6, <1>7
<1>. QED BY <1>1, <1>3, <1>8

-----------------------------------------------------------------------------
(* What is left to do, operation by operation *)

\* The operation at each place, and the place after it; close() may go on to
\* close2 or sweep2 instead.
Now ==
  [accept1 |-> set_connected, accept2 |-> set_peer_live(TRUE), accept3 |-> set_server,
   accept4 |-> <<"add_peer", {}>>, ready_read |-> set_ready,
   read_head |-> <<"async_read", "head">>, waccept1 |-> set_connected,
   waccept2 |-> set_peer_live(TRUE), waccept3 |-> set_server,
   waccept4 |-> <<"add_peer", {}>>, ws_until |-> set_websocket,
   read_until |-> <<"async_read", "until">>, connect1 |-> set_connected,
   connect2 |-> set_peer_live(TRUE), connect3 |-> set_ready,
   connect4 |-> <<"on_connect", {}>>, wconnect1 |-> set_connected,
   wconnect2 |-> set_peer_live(TRUE), wconnect3 |-> set_websocket,
   wconnect4 |-> set_self_live(TRUE), wconnect5 |-> <<"async_write", {}>>,
   shake1 |-> set_self_live(TRUE), shake2 |-> <<"async_write", {}>>,
   empty1 |-> set_peer_live(TRUE), empty2 |-> <<"on_read", {}>>,
   sized |-> set_peer_live(TRUE), read_data |-> <<"async_read", "data">>,
   body |-> set_peer_active(TRUE), close1 |-> <<"close", {}>>, close2 |-> set_closed,
   close3 |-> <<"shutdown", {}>>, close4 |-> <<"on_close", {}>>,
   sweep1 |-> <<"close", {}>>, sweep2 |-> set_closed, sweep3 |-> <<"shutdown", {}>>,
   sweep4 |-> <<"erase", {}>>, send1 |-> set_self_live(TRUE),
   send2 |-> <<"async_write", {}>>, active |-> set_peer_active(TRUE),
   live |-> set_peer_live(TRUE), inactive |-> set_peer_active(FALSE),
   again |-> <<"connect", {}>>]
Then ==
  [accept1 |-> "accept2", accept2 |-> "accept3", accept3 |-> "accept4",
   accept4 |-> "ready_read", ready_read |-> "read_head", read_head |-> "rest",
   waccept1 |-> "waccept2", waccept2 |-> "waccept3", waccept3 |-> "waccept4",
   waccept4 |-> "ws_until", ws_until |-> "read_until", read_until |-> "rest",
   connect1 |-> "connect2", connect2 |-> "connect3", connect3 |-> "connect4",
   connect4 |-> "read_head", wconnect1 |-> "wconnect2", wconnect2 |-> "wconnect3",
   wconnect3 |-> "wconnect4", wconnect4 |-> "wconnect5", wconnect5 |-> "ws_until",
   shake1 |-> "shake2", shake2 |-> "ready_read", empty1 |-> "empty2",
   empty2 |-> "read_head", sized |-> "read_data", read_data |-> "rest",
   body |-> "empty2", close1 |-> "close4", close2 |-> "close3", close3 |-> "close4",
   close4 |-> "rest", sweep1 |-> "sweep4", sweep2 |-> "sweep3", sweep3 |-> "sweep4",
   sweep4 |-> "rest", send1 |-> "send2", send2 |-> "rest", active |-> "rest",
   live |-> "rest", inactive |-> "rest", again |-> "rest"]

\* The rest of a list.
LEMMA TailIs ==
  ASSUME NEW T, NEW s \in Seq(T), NEW r \in Seq(T), Len(s) = Len(r) + 1,
         \A i \in 1..Len(r) : s[i + 1] = r[i]
  PROVE  Tail(s) = r
<1>1. s # <<>> /\ Len(r) \in Nat OBVIOUS
<1>2. Tail(s) \in Seq(T) /\ Len(Tail(s)) = Len(r) /\ \A i \in 1..Len(r) : Tail(s)[i] = s[i + 1]
  BY <1>1
<1>. QED BY <1>2, SeqEqual

\* The rest of a list of two, three or four,
LEMMA Few ==
  ASSUME NEW a, NEW b, NEW c, NEW d
  PROVE  /\ <<a, b>> # <<>> /\ Head(<<a, b>>) = a /\ Tail(<<a, b>>) = <<b>>
         /\ <<a, b, c>> # <<>> /\ Head(<<a, b, c>>) = a /\ Tail(<<a, b, c>>) = <<b, c>>
         /\ <<a, b, c, d>> # <<>> /\ Head(<<a, b, c, d>>) = a /\ Tail(<<a, b, c, d>>) = <<b, c, d>>
OBVIOUS

\* of five,
LEMMA Five ==
  ASSUME NEW a, NEW b, NEW c, NEW d, NEW e
  PROVE  /\ <<a, b, c, d, e>> # <<>> /\ Head(<<a, b, c, d, e>>) = a
         /\ Tail(<<a, b, c, d, e>>) = <<b, c, d, e>>
<1> DEFINE s == <<a, b, c, d, e>>
           r == <<b, c, d, e>>
           T == {a, b, c, d, e}
<1>1. s \in Seq(T) /\ Len(s) = 5
  OBVIOUS
<1>2. s[1] = a /\ s[2] = b /\ s[3] = c /\ s[4] = d /\ s[5] = e
  OBVIOUS
<1>3. r \in Seq(T) /\ Len(r) = 4
  OBVIOUS
<1>4. r[1] = b /\ r[2] = c /\ r[3] = d /\ r[4] = e
  OBVIOUS
<1> HIDE DEF s, r, T
<1>5. \A i \in 1..4 : s[i + 1] = r[i]
  <2>1. \A i \in 1..4 : i = 1 \/ i = 2 \/ i = 3 \/ i = 4 OBVIOUS
  <2>. QED BY <2>1, <1>2, <1>4
<1>6. Len(s) = Len(r) + 1 /\ \A i \in 1..Len(r) : s[i + 1] = r[i]
  BY <1>1, <1>3, <1>5
<1>7. s \in Seq(T) /\ r \in Seq(T) BY <1>1, <1>3
<1>8. Tail(s) = r BY <1>6, <1>7, TailIs
<1>9. s # <<>> /\ Head(s) = a BY <1>1, <1>2
<1>. QED BY <1>8, <1>9 DEF s, r

\* of six,
LEMMA Six ==
  ASSUME NEW a, NEW b, NEW c, NEW d, NEW e, NEW f
  PROVE  /\ <<a, b, c, d, e, f>> # <<>> /\ Head(<<a, b, c, d, e, f>>) = a
         /\ Tail(<<a, b, c, d, e, f>>) = <<b, c, d, e, f>>
<1> DEFINE s == <<a, b, c, d, e, f>>
           r == <<b, c, d, e, f>>
           T == {a, b, c, d, e, f}
<1>1. s \in Seq(T) /\ Len(s) = 6
  OBVIOUS
<1>2. s[1] = a /\ s[2] = b /\ s[3] = c /\ s[4] = d /\ s[5] = e /\ s[6] = f
  OBVIOUS
<1>3. r \in Seq(T) /\ Len(r) = 5
  OBVIOUS
<1>4. r[1] = b /\ r[2] = c /\ r[3] = d /\ r[4] = e /\ r[5] = f
  OBVIOUS
<1> HIDE DEF s, r, T
<1>5. \A i \in 1..5 : s[i + 1] = r[i]
  <2>1. \A i \in 1..5 : i = 1 \/ i = 2 \/ i = 3 \/ i = 4 \/ i = 5 OBVIOUS
  <2>. QED BY <2>1, <1>2, <1>4
<1>6. Len(s) = Len(r) + 1 /\ \A i \in 1..Len(r) : s[i + 1] = r[i]
  BY <1>1, <1>3, <1>5
<1>7. s \in Seq(T) /\ r \in Seq(T) BY <1>1, <1>3
<1>8. Tail(s) = r BY <1>6, <1>7, TailIs
<1>9. s # <<>> /\ Head(s) = a BY <1>1, <1>2
<1>. QED BY <1>8, <1>9 DEF s, r

\* and of seven.
LEMMA Seven ==
  ASSUME NEW a, NEW b, NEW c, NEW d, NEW e, NEW f, NEW g
  PROVE  /\ <<a, b, c, d, e, f, g>> # <<>> /\ Head(<<a, b, c, d, e, f, g>>) = a
         /\ Tail(<<a, b, c, d, e, f, g>>) = <<b, c, d, e, f, g>>
<1> DEFINE s == <<a, b, c, d, e, f, g>>
           r == <<b, c, d, e, f, g>>
           T == {a, b, c, d, e, f, g}
<1>1. s \in Seq(T) /\ Len(s) = 7
  OBVIOUS
<1>2. s[1] = a /\ s[2] = b /\ s[3] = c /\ s[4] = d /\ s[5] = e /\ s[6] = f /\ s[7] = g
  OBVIOUS
<1>3. r \in Seq(T) /\ Len(r) = 6
  OBVIOUS
<1>4. r[1] = b /\ r[2] = c /\ r[3] = d /\ r[4] = e /\ r[5] = f /\ r[6] = g
  OBVIOUS
<1> HIDE DEF s, r, T
<1>5. \A i \in 1..6 : s[i + 1] = r[i]
  <2>1. \A i \in 1..6 : i = 1 \/ i = 2 \/ i = 3 \/ i = 4 \/ i = 5 \/ i = 6 OBVIOUS
  <2>. QED BY <2>1, <1>2, <1>4
<1>6. Len(s) = Len(r) + 1 /\ \A i \in 1..Len(r) : s[i + 1] = r[i]
  BY <1>1, <1>3, <1>5
<1>7. s \in Seq(T) /\ r \in Seq(T) BY <1>1, <1>3
<1>8. Tail(s) = r BY <1>6, <1>7, TailIs
<1>9. s # <<>> /\ Head(s) = a BY <1>1, <1>2
<1>. QED BY <1>8, <1>9 DEF s, r

\* The places.
LEMMA Places ==
  Place = {"accept1", "accept2", "accept3", "accept4", "ready_read", "read_head",
           "waccept1", "waccept2", "waccept3", "waccept4", "ws_until", "read_until",
           "connect1", "connect2", "connect3", "connect4", "wconnect1", "wconnect2",
           "wconnect3", "wconnect4", "wconnect5", "shake1", "shake2", "empty1",
           "empty2", "sized", "read_data", "body", "close1", "close2", "close3",
           "close4", "sweep1", "sweep2", "sweep3", "sweep4", "send1", "send2", "active",
           "live", "inactive", "again", "rest"}
BY DEF Place, Path

\* The operations, but for the handler's on_close().
Silent ==
  {set_connected, set_peer_live(TRUE), set_server, <<"add_peer", {}>>, set_ready,
   <<"async_read", "head">>, set_websocket, <<"async_read", "until">>,
   <<"on_connect", {}>>, set_self_live(TRUE), <<"async_write", {}>>, <<"on_read", {}>>,
   <<"async_read", "data">>, set_peer_active(TRUE), <<"close", {}>>, set_closed,
   <<"shutdown", {}>>, <<"erase", {}>>, set_peer_active(FALSE), <<"connect", {}>>}

\* What is left at each place, operation by operation.
LEMMA Paths ==
  /\ Path["rest"] = <<>>
  /\ \A n \in Place \ {"rest"} :
       /\ Path[n] # <<>> /\ Head(Path[n]) = Now[n] /\ Tail(Path[n]) = Path[Then[n]]
       /\ Then[n] \in Place
  /\ \A n \in Place \ Closing : Path[n] \in Seq(Silent)
<1> DEFINE Is1(n) == Path[n] # <<>> /\ Head(Path[n]) = Now[n] /\ Tail(Path[n]) = Path[Then[n]]
<1>1. Path["rest"] = <<>> BY DEF Path
<1> DEFINE Con == set_connected
           Liv == set_peer_live(TRUE)
           Srv == set_server
           Peer == <<"add_peer", {}>>
           Rdy == set_ready
           Rhd == <<"async_read", "head">>
           Web == set_websocket
           Run == <<"async_read", "until">>
           Onc == <<"on_connect", {}>>
           Slf == set_self_live(TRUE)
           Wrt == <<"async_write", {}>>
           Onr == <<"on_read", {}>>
           Rda == <<"async_read", "data">>
           Act == set_peer_active(TRUE)
           Cls == <<"close", {}>>
           Non == set_closed
           Shd == <<"shutdown", {}>>
           Onl == <<"on_close", {}>>
           Era == <<"erase", {}>>
           Ina == set_peer_active(FALSE)
           Again == <<"connect", {}>>
<1>2. /\ Path["accept1"] = <<Con, Liv, Srv, Peer, Rdy, Rhd>> /\ Now["accept1"] = Con 
       /\ Path[Then["accept1"]] = <<Liv, Srv, Peer, Rdy, Rhd>>
  BY DEF Path, Now, Then
<1>3. /\ Path["accept2"] = <<Liv, Srv, Peer, Rdy, Rhd>> /\ Now["accept2"] = Liv 
       /\ Path[Then["accept2"]] = <<Srv, Peer, Rdy, Rhd>>
  BY DEF Path, Now, Then
<1>4. /\ Path["accept3"] = <<Srv, Peer, Rdy, Rhd>> /\ Now["accept3"] = Srv 
       /\ Path[Then["accept3"]] = <<Peer, Rdy, Rhd>>
  BY DEF Path, Now, Then
<1>5. /\ Path["accept4"] = <<Peer, Rdy, Rhd>> /\ Now["accept4"] = Peer 
       /\ Path[Then["accept4"]] = <<Rdy, Rhd>>
  BY DEF Path, Now, Then
<1>6. /\ Path["ready_read"] = <<Rdy, Rhd>> /\ Now["ready_read"] = Rdy 
       /\ Path[Then["ready_read"]] = <<Rhd>>
  BY DEF Path, Now, Then
<1>7. /\ Path["read_head"] = <<Rhd>> /\ Now["read_head"] = Rhd 
       /\ Path[Then["read_head"]] = <<>>
  BY DEF Path, Now, Then
<1>8. /\ Path["waccept1"] = <<Con, Liv, Srv, Peer, Web, Run>> /\ Now["waccept1"] = Con 
       /\ Path[Then["waccept1"]] = <<Liv, Srv, Peer, Web, Run>>
  BY DEF Path, Now, Then
<1>9. /\ Path["waccept2"] = <<Liv, Srv, Peer, Web, Run>> /\ Now["waccept2"] = Liv 
       /\ Path[Then["waccept2"]] = <<Srv, Peer, Web, Run>>
  BY DEF Path, Now, Then
<1>10. /\ Path["waccept3"] = <<Srv, Peer, Web, Run>> /\ Now["waccept3"] = Srv 
       /\ Path[Then["waccept3"]] = <<Peer, Web, Run>>
  BY DEF Path, Now, Then
<1>11. /\ Path["waccept4"] = <<Peer, Web, Run>> /\ Now["waccept4"] = Peer 
       /\ Path[Then["waccept4"]] = <<Web, Run>>
  BY DEF Path, Now, Then
<1>12. /\ Path["ws_until"] = <<Web, Run>> /\ Now["ws_until"] = Web 
       /\ Path[Then["ws_until"]] = <<Run>>
  BY DEF Path, Now, Then
<1>13. /\ Path["read_until"] = <<Run>> /\ Now["read_until"] = Run 
       /\ Path[Then["read_until"]] = <<>>
  BY DEF Path, Now, Then
<1>14. /\ Path["connect1"] = <<Con, Liv, Rdy, Onc, Rhd>> /\ Now["connect1"] = Con 
       /\ Path[Then["connect1"]] = <<Liv, Rdy, Onc, Rhd>>
  BY DEF Path, Now, Then
<1>15. /\ Path["connect2"] = <<Liv, Rdy, Onc, Rhd>> /\ Now["connect2"] = Liv 
       /\ Path[Then["connect2"]] = <<Rdy, Onc, Rhd>>
  BY DEF Path, Now, Then
<1>16. /\ Path["connect3"] = <<Rdy, Onc, Rhd>> /\ Now["connect3"] = Rdy 
       /\ Path[Then["connect3"]] = <<Onc, Rhd>>
  BY DEF Path, Now, Then
<1>17. /\ Path["connect4"] = <<Onc, Rhd>> /\ Now["connect4"] = Onc 
       /\ Path[Then["connect4"]] = <<Rhd>>
  BY DEF Path, Now, Then
<1>18. /\ Path["wconnect1"] = <<Con, Liv, Web, Slf, Wrt, Web, Run>> /\ Now["wconnect1"] = Con 
       /\ Path[Then["wconnect1"]] = <<Liv, Web, Slf, Wrt, Web, Run>>
  BY DEF Path, Now, Then
<1>19. /\ Path["wconnect2"] = <<Liv, Web, Slf, Wrt, Web, Run>> /\ Now["wconnect2"] = Liv 
       /\ Path[Then["wconnect2"]] = <<Web, Slf, Wrt, Web, Run>>
  BY DEF Path, Now, Then
<1>20. /\ Path["wconnect3"] = <<Web, Slf, Wrt, Web, Run>> /\ Now["wconnect3"] = Web 
       /\ Path[Then["wconnect3"]] = <<Slf, Wrt, Web, Run>>
  BY DEF Path, Now, Then
<1>21. /\ Path["wconnect4"] = <<Slf, Wrt, Web, Run>> /\ Now["wconnect4"] = Slf 
       /\ Path[Then["wconnect4"]] = <<Wrt, Web, Run>>
  BY DEF Path, Now, Then
<1>22. /\ Path["wconnect5"] = <<Wrt, Web, Run>> /\ Now["wconnect5"] = Wrt 
       /\ Path[Then["wconnect5"]] = <<Web, Run>>
  BY DEF Path, Now, Then
<1>23. /\ Path["shake1"] = <<Slf, Wrt, Rdy, Rhd>> /\ Now["shake1"] = Slf 
       /\ Path[Then["shake1"]] = <<Wrt, Rdy, Rhd>>
  BY DEF Path, Now, Then
<1>24. /\ Path["shake2"] = <<Wrt, Rdy, Rhd>> /\ Now["shake2"] = Wrt 
       /\ Path[Then["shake2"]] = <<Rdy, Rhd>>
  BY DEF Path, Now, Then
<1>25. /\ Path["empty1"] = <<Liv, Onr, Rhd>> /\ Now["empty1"] = Liv 
       /\ Path[Then["empty1"]] = <<Onr, Rhd>>
  BY DEF Path, Now, Then
<1>26. /\ Path["empty2"] = <<Onr, Rhd>> /\ Now["empty2"] = Onr 
       /\ Path[Then["empty2"]] = <<Rhd>>
  BY DEF Path, Now, Then
<1>27. /\ Path["sized"] = <<Liv, Rda>> /\ Now["sized"] = Liv 
       /\ Path[Then["sized"]] = <<Rda>>
  BY DEF Path, Now, Then
<1>28. /\ Path["read_data"] = <<Rda>> /\ Now["read_data"] = Rda 
       /\ Path[Then["read_data"]] = <<>>
  BY DEF Path, Now, Then
<1>29. /\ Path["body"] = <<Act, Onr, Rhd>> /\ Now["body"] = Act 
       /\ Path[Then["body"]] = <<Onr, Rhd>>
  BY DEF Path, Now, Then
<1>30. /\ Path["close1"] = <<Cls, Onl>> /\ Now["close1"] = Cls 
       /\ Path[Then["close1"]] = <<Onl>>
  BY DEF Path, Now, Then
<1>31. /\ Path["close2"] = <<Non, Shd, Onl>> /\ Now["close2"] = Non 
       /\ Path[Then["close2"]] = <<Shd, Onl>>
  BY DEF Path, Now, Then
<1>32. /\ Path["close3"] = <<Shd, Onl>> /\ Now["close3"] = Shd 
       /\ Path[Then["close3"]] = <<Onl>>
  BY DEF Path, Now, Then
<1>33. /\ Path["close4"] = <<Onl>> /\ Now["close4"] = Onl 
       /\ Path[Then["close4"]] = <<>>
  BY DEF Path, Now, Then
<1>34. /\ Path["sweep1"] = <<Cls, Era>> /\ Now["sweep1"] = Cls 
       /\ Path[Then["sweep1"]] = <<Era>>
  BY DEF Path, Now, Then
<1>35. /\ Path["sweep2"] = <<Non, Shd, Era>> /\ Now["sweep2"] = Non 
       /\ Path[Then["sweep2"]] = <<Shd, Era>>
  BY DEF Path, Now, Then
<1>36. /\ Path["sweep3"] = <<Shd, Era>> /\ Now["sweep3"] = Shd 
       /\ Path[Then["sweep3"]] = <<Era>>
  BY DEF Path, Now, Then
<1>37. /\ Path["sweep4"] = <<Era>> /\ Now["sweep4"] = Era 
       /\ Path[Then["sweep4"]] = <<>>
  BY DEF Path, Now, Then
<1>38. /\ Path["send1"] = <<Slf, Wrt>> /\ Now["send1"] = Slf 
       /\ Path[Then["send1"]] = <<Wrt>>
  BY DEF Path, Now, Then
<1>39. /\ Path["send2"] = <<Wrt>> /\ Now["send2"] = Wrt 
       /\ Path[Then["send2"]] = <<>>
  BY DEF Path, Now, Then
<1>40. /\ Path["active"] = <<Act>> /\ Now["active"] = Act 
       /\ Path[Then["active"]] = <<>>
  BY DEF Path, Now, Then
<1>41. /\ Path["live"] = <<Liv>> /\ Now["live"] = Liv 
       /\ Path[Then["live"]] = <<>>
  BY DEF Path, Now, Then
<1>42. /\ Path["inactive"] = <<Ina>> /\ Now["inactive"] = Ina 
       /\ Path[Then["inactive"]] = <<>>
  BY DEF Path, Now, Then
<1>43. /\ Path["again"] = <<Again>> /\ Now["again"] = Again 
       /\ Path[Then["again"]] = <<>>
  BY DEF Path, Now, Then
<1> DEFINE Ops == {Con, Liv, Srv, Peer, Rdy, Rhd, Web, Run, Onc, Slf, Wrt, Onr, Rda, Act, Cls, Non, Shd,
   Era, Ina, Again}
<1>86. Ops = Silent BY DEF Silent
<1> HIDE DEF Con, Liv, Srv, Peer, Rdy, Rhd, Web, Run, Onc, Slf, Wrt, Onr, Rda, Act, Cls, Non, Shd, Onl, Era, Ina, Again
<1>44. Is1("accept1") BY <1>2, Six
<1>45. Is1("accept2") BY <1>3, Five
<1>46. Is1("accept3") BY <1>4, Few
<1>47. Is1("accept4") BY <1>5, Few
<1>48. Is1("ready_read") BY <1>6, Few
<1>49. Is1("read_head") BY <1>7
<1>50. Is1("waccept1") BY <1>8, Six
<1>51. Is1("waccept2") BY <1>9, Five
<1>52. Is1("waccept3") BY <1>10, Few
<1>53. Is1("waccept4") BY <1>11, Few
<1>54. Is1("ws_until") BY <1>12, Few
<1>55. Is1("read_until") BY <1>13
<1>56. Is1("connect1") BY <1>14, Five
<1>57. Is1("connect2") BY <1>15, Few
<1>58. Is1("connect3") BY <1>16, Few
<1>59. Is1("connect4") BY <1>17, Few
<1>60. Is1("wconnect1") BY <1>18, Seven
<1>61. Is1("wconnect2") BY <1>19, Six
<1>62. Is1("wconnect3") BY <1>20, Five
<1>63. Is1("wconnect4") BY <1>21, Few
<1>64. Is1("wconnect5") BY <1>22, Few
<1>65. Is1("shake1") BY <1>23, Few
<1>66. Is1("shake2") BY <1>24, Few
<1>67. Is1("empty1") BY <1>25, Few
<1>68. Is1("empty2") BY <1>26, Few
<1>69. Is1("sized") BY <1>27, Few
<1>70. Is1("read_data") BY <1>28
<1>71. Is1("body") BY <1>29, Few
<1>72. Is1("close1") BY <1>30, Few
<1>73. Is1("close2") BY <1>31, Few
<1>74. Is1("close3") BY <1>32, Few
<1>75. Is1("close4") BY <1>33
<1>76. Is1("sweep1") BY <1>34, Few
<1>77. Is1("sweep2") BY <1>35, Few
<1>78. Is1("sweep3") BY <1>36, Few
<1>79. Is1("sweep4") BY <1>37
<1>80. Is1("send1") BY <1>38, Few
<1>81. Is1("send2") BY <1>39
<1>82. Is1("active") BY <1>40
<1>83. Is1("live") BY <1>41
<1>84. Is1("inactive") BY <1>42
<1>85. Is1("again") BY <1>43
<1>87. Path["accept1"] \in Seq(Ops) BY <1>2
<1>88. Path["accept2"] \in Seq(Ops) BY <1>3
<1>89. Path["accept3"] \in Seq(Ops) BY <1>4
<1>90. Path["accept4"] \in Seq(Ops) BY <1>5
<1>91. Path["ready_read"] \in Seq(Ops) BY <1>6
<1>92. Path["read_head"] \in Seq(Ops) BY <1>7
<1>93. Path["waccept1"] \in Seq(Ops) BY <1>8
<1>94. Path["waccept2"] \in Seq(Ops) BY <1>9
<1>95. Path["waccept3"] \in Seq(Ops) BY <1>10
<1>96. Path["waccept4"] \in Seq(Ops) BY <1>11
<1>97. Path["ws_until"] \in Seq(Ops) BY <1>12
<1>98. Path["read_until"] \in Seq(Ops) BY <1>13
<1>99. Path["connect1"] \in Seq(Ops) BY <1>14
<1>100. Path["connect2"] \in Seq(Ops) BY <1>15
<1>101. Path["connect3"] \in Seq(Ops) BY <1>16
<1>102. Path["connect4"] \in Seq(Ops) BY <1>17
<1>103. Path["wconnect1"] \in Seq(Ops) BY <1>18
<1>104. Path["wconnect2"] \in Seq(Ops) BY <1>19
<1>105. Path["wconnect3"] \in Seq(Ops) BY <1>20
<1>106. Path["wconnect4"] \in Seq(Ops) BY <1>21
<1>107. Path["wconnect5"] \in Seq(Ops) BY <1>22
<1>108. Path["shake1"] \in Seq(Ops) BY <1>23
<1>109. Path["shake2"] \in Seq(Ops) BY <1>24
<1>110. Path["empty1"] \in Seq(Ops) BY <1>25
<1>111. Path["empty2"] \in Seq(Ops) BY <1>26
<1>112. Path["sized"] \in Seq(Ops) BY <1>27
<1>113. Path["read_data"] \in Seq(Ops) BY <1>28
<1>114. Path["body"] \in Seq(Ops) BY <1>29
<1>115. Path["sweep1"] \in Seq(Ops) BY <1>34
<1>116. Path["sweep2"] \in Seq(Ops) BY <1>35
<1>117. Path["sweep3"] \in Seq(Ops) BY <1>36
<1>118. Path["sweep4"] \in Seq(Ops) BY <1>37
<1>119. Path["send1"] \in Seq(Ops) BY <1>38
<1>120. Path["send2"] \in Seq(Ops) BY <1>39
<1>121. Path["active"] \in Seq(Ops) BY <1>40
<1>122. Path["live"] \in Seq(Ops) BY <1>41
<1>123. Path["inactive"] \in Seq(Ops) BY <1>42
<1>124. Path["again"] \in Seq(Ops) BY <1>43
<1>125. Path["rest"] \in Seq(Ops) BY <1>1
<1> HIDE DEF Ops
<1>126. \A n \in Place \ Closing : Path[n] \in Seq(Ops)
  BY Places,
     <1>87, <1>88, <1>89, <1>90, <1>91, <1>92, <1>93, <1>94, <1>95, <1>96, <1>97, <1>98,
     <1>99, <1>100, <1>101, <1>102, <1>103, <1>104, <1>105, <1>106, <1>107, <1>108,
     <1>109, <1>110, <1>111, <1>112, <1>113, <1>114, <1>115, <1>116, <1>117, <1>118,
     <1>119, <1>120, <1>121, <1>122, <1>123, <1>124, <1>125
     DEF Closing
<1>127. \A n \in Place \ {"rest"} : Then[n] \in Place BY Places DEF Then
<1> HIDE DEF Is1
<1>128. \A n \in Place \ {"rest"} : Is1(n)
  BY Places,
     <1>44, <1>45, <1>46, <1>47, <1>48, <1>49, <1>50, <1>51, <1>52, <1>53, <1>54, <1>55,
     <1>56, <1>57, <1>58, <1>59, <1>60, <1>61, <1>62, <1>63, <1>64, <1>65, <1>66, <1>67,
     <1>68, <1>69, <1>70, <1>71, <1>72, <1>73, <1>74, <1>75, <1>76, <1>77, <1>78, <1>79,
     <1>80, <1>81, <1>82, <1>83, <1>84, <1>85
<1>. QED BY <1>1, <1>86, <1>126, <1>127, <1>128 DEF Is1

\* What the setters make of a word.
LEMMA Changes ==
  ASSUME NEW w \in 0..127
  PROVE  /\ Target(set_closed, w) = 0
         /\ Target(set_server, w) \in 0..127 /\ Bits(Target(set_server, w)) = {"server"}
         /\ Target(set_connected, w) \in 0..127 /\ Bits(Target(set_connected, w)) = {"connected"}
         /\ Target(set_ready, w) \in 0..127
         /\ Bits(Target(set_ready, w)) = Bits(w) \cup {"ready"}
         /\ Target(set_websocket, w) \in 0..127
         /\ Bits(Target(set_websocket, w)) = Bits(w) \cup {"websocket"}
         /\ Target(set_self_live(TRUE), w) \in 0..127
         /\ Bits(Target(set_self_live(TRUE), w)) = Bits(w) \cup {"self_live"}
         /\ Target(set_peer_live(TRUE), w) \in 0..127
         /\ Bits(Target(set_peer_live(TRUE), w)) = Bits(w) \cup {"peer_live"}
         /\ Target(set_peer_active(TRUE), w) \in 0..127
         /\ Bits(Target(set_peer_active(TRUE), w)) = Bits(w) \cup {"peer_active", "peer_live"}
         /\ Target(set_peer_active(FALSE), w) \in 0..127
         /\ Bits(Target(set_peer_active(FALSE), w)) = Bits(w) \ {"peer_active"}
<1>1. Target(set_closed, w) = 0
  <2>1. {Bit[b] : b \in {x \in {} : ~has(0, x)}} = {} OBVIOUS
  <2>2. Add(0, {}) = 0 + 0 BY <2>1, Sums DEF Add
  <2>. QED BY <2>2 DEF Target, set_closed
<1>2. {"server", "connected", "ready", "websocket", "self_live", "peer_live", "peer_active"}
        \subseteq DOMAIN Bit
  BY DEF Bit
<1>3. /\ Target(set_server, w) = Add(0, {"server"})
      /\ Target(set_connected, w) = Add(0, {"connected"})
      /\ Target(set_ready, w) = Add(w, {"ready"})
      /\ Target(set_websocket, w) = Add(w, {"websocket"})
  BY DEF Target, set_server, set_connected, set_ready, set_websocket
<1>4. /\ Target(set_self_live(TRUE), w) = Add(w, {"self_live"})
      /\ Target(set_peer_live(TRUE), w) = Add(w, {"peer_live"})
      /\ Target(set_peer_active(TRUE), w) = Add(w, {"peer_active", "peer_live"})
      /\ Target(set_peer_active(FALSE), w) = Del(w, {"peer_active"})
  BY DEF Target, set_self_live, set_peer_live, set_peer_active
<1>5. 0 \in 0..127 /\ Bits(0) = {} BY NoBits
<1>6. /\ \A b \in DOMAIN Bit : Add(0, {b}) \in 0..127 /\ Bits(Add(0, {b})) = {b}
      /\ \A b \in DOMAIN Bit : Add(w, {b}) \in 0..127 /\ Bits(Add(w, {b})) = Bits(w) \cup {b}
      /\ \A b \in DOMAIN Bit : Del(w, {b}) \in 0..127 /\ Bits(Del(w, {b})) = Bits(w) \ {b}
  <2>1. ASSUME NEW b \in DOMAIN Bit PROVE Add(0, {b}) \in 0..127 /\ Bits(Add(0, {b})) = {b}
    <3>1. Add(0, {b}) \in 0..127 /\ Bits(Add(0, {b})) = Bits(0) \cup {b} BY <1>5, AddBit
    <3>. QED BY <3>1, <1>5
  <2>2. ASSUME NEW b \in DOMAIN Bit
        PROVE  /\ Add(w, {b}) \in 0..127 /\ Bits(Add(w, {b})) = Bits(w) \cup {b}
               /\ Del(w, {b}) \in 0..127 /\ Bits(Del(w, {b})) = Bits(w) \ {b}
    BY AddBit, DelBit
  <2>. QED BY <2>1, <2>2
<1>7. /\ Add(w, {"peer_active", "peer_live"}) \in 0..127
      /\ Bits(Add(w, {"peer_active", "peer_live"})) = Bits(w) \cup {"peer_active", "peer_live"}
  BY <1>2, AddTwo
<1>8. /\ Target(set_server, w) \in 0..127 /\ Bits(Target(set_server, w)) = {"server"}
      /\ Target(set_connected, w) \in 0..127 /\ Bits(Target(set_connected, w)) = {"connected"}
      /\ Target(set_ready, w) \in 0..127
      /\ Bits(Target(set_ready, w)) = Bits(w) \cup {"ready"}
      /\ Target(set_websocket, w) \in 0..127
      /\ Bits(Target(set_websocket, w)) = Bits(w) \cup {"websocket"}
  BY <1>2, <1>3, <1>6
<1>9. /\ Target(set_self_live(TRUE), w) \in 0..127
      /\ Bits(Target(set_self_live(TRUE), w)) = Bits(w) \cup {"self_live"}
      /\ Target(set_peer_live(TRUE), w) \in 0..127
      /\ Bits(Target(set_peer_live(TRUE), w)) = Bits(w) \cup {"peer_live"}
  <2>1. /\ Add(w, {"self_live"}) \in 0..127
        /\ Bits(Add(w, {"self_live"})) = Bits(w) \cup {"self_live"}
    BY <1>2, <1>6
  <2>2. /\ Add(w, {"peer_live"}) \in 0..127
        /\ Bits(Add(w, {"peer_live"})) = Bits(w) \cup {"peer_live"}
    BY <1>2, <1>6
  <2>. QED BY <1>4, <2>1, <2>2
<1>10. /\ Target(set_peer_active(TRUE), w) \in 0..127
       /\ Bits(Target(set_peer_active(TRUE), w)) = Bits(w) \cup {"peer_active", "peer_live"}
  BY <1>4, <1>7
<1>11. /\ Target(set_peer_active(FALSE), w) \in 0..127
       /\ Bits(Target(set_peer_active(FALSE), w)) = Bits(w) \ {"peer_active"}
  BY <1>2, <1>4, <1>6
<1>. QED BY <1>1, <1>8, <1>9, <1>10, <1>11

\* Which operation comes at which place.
Reading == {"read_head", "read_until", "read_data"}
Writing == {"wconnect5", "shake2", "send2"}
Telling == {"connect4", "close4"}
Adding == {"accept4", "waccept4"}
Ending == {"close1", "sweep1"}
Shutting == {"close3", "sweep3"}
Calling == Reading \cup Writing \cup Telling \cup Adding \cup Ending \cup Shutting
           \cup {"empty2", "sweep4", "again"}
Loads == Place \ (Calling \cup {"rest"})

\* The places of one kind have operations of this kind, and no others do.
LEMMA Operations ==
  ASSUME NEW n \in Place \ {"rest"}
  PROVE  /\ Now[n][1] \in {"load", "add", "del"} <=> n \in Loads
         /\ Now[n][1] = "async_read" <=> n \in Reading
         /\ Now[n][1] = "async_write" <=> n \in Writing
         /\ Now[n][1] = "close" <=> n \in Ending
         /\ Now[n][1] = "shutdown" <=> n \in Shutting
         /\ Now[n][1] = "add_peer" <=> n \in Adding
         /\ Now[n][1] = "on_connect" <=> n = "connect4"
         /\ Now[n][1] = "on_close" <=> n = "close4"
         /\ Now[n][1] = "on_read" <=> n = "empty2"
         /\ Now[n][1] = "erase" <=> n = "sweep4"
         /\ Now[n][1] = "connect" <=> n = "again"
<1>1. \A m \in Loads : Now[m][1] \in {"load", "add", "del"}
  BY Places DEF Loads, Calling, Reading, Writing, Telling, Adding, Ending, Shutting, Now,
     set_connected, set_server, set_ready, set_websocket, set_closed, set_self_live,
     set_peer_live, set_peer_active
<1>2. /\ \A m \in Reading : Now[m][1] = "async_read"
      /\ \A m \in Writing : Now[m][1] = "async_write"
      /\ \A m \in Ending : Now[m][1] = "close"
      /\ \A m \in Shutting : Now[m][1] = "shutdown"
      /\ \A m \in Adding : Now[m][1] = "add_peer"
  BY DEF Reading, Writing, Ending, Shutting, Adding, Now
<1>3. /\ Now["connect4"][1] = "on_connect" /\ Now["close4"][1] = "on_close"
      /\ Now["empty2"][1] = "on_read" /\ Now["sweep4"][1] = "erase" /\ Now["again"][1] = "connect"
  BY DEF Now
<1>4. n \in Loads \cup Calling BY DEF Loads
<1>. QED BY <1>1, <1>2, <1>3, <1>4
     DEF Loads, Calling, Reading, Writing, Telling, Adding, Ending, Shutting

\* The bits that the invariant speaks of.
Marked == {"server", "connected", "ready", "websocket"}
SetsConnected == {"accept1", "waccept1", "connect1", "wconnect1"}
SetsServer == {"accept3", "waccept3"}
SetsReady == {"ready_read", "connect3"}
SetsWebsocket == {"ws_until", "wconnect3"}
SetsClosed == {"close2", "sweep2"}
SetsOther == Loads \ (SetsConnected \cup SetsServer \cup SetsReady \cup SetsWebsocket \cup SetsClosed)

\* The setter at each of those places.
LEMMA Setters ==
  /\ \A n \in SetsConnected : Now[n] = set_connected
  /\ \A n \in SetsServer : Now[n] = set_server
  /\ \A n \in SetsReady : Now[n] = set_ready
  /\ \A n \in SetsWebsocket : Now[n] = set_websocket
  /\ \A n \in SetsClosed : Now[n] = set_closed
  /\ \A n \in {"accept2", "waccept2", "connect2", "wconnect2", "empty1", "sized", "live"} :
       Now[n] = set_peer_live(TRUE)
  /\ \A n \in {"wconnect4", "shake1", "send1"} : Now[n] = set_self_live(TRUE)
  /\ \A n \in {"body", "active"} : Now[n] = set_peer_active(TRUE)
  /\ Now["inactive"] = set_peer_active(FALSE)
<1> DEFINE Liv == set_peer_live(TRUE)
           Slf == set_self_live(TRUE)
           Act == set_peer_active(TRUE)
           Ina == set_peer_active(FALSE)
<1>1. /\ Now["accept2"] = Liv /\ Now["waccept2"] = Liv /\ Now["connect2"] = Liv
      /\ Now["wconnect2"] = Liv /\ Now["empty1"] = Liv /\ Now["sized"] = Liv /\ Now["live"] = Liv
  BY DEF Now
<1>2. Now["wconnect4"] = Slf /\ Now["shake1"] = Slf /\ Now["send1"] = Slf BY DEF Now
<1>3. Now["body"] = Act /\ Now["active"] = Act /\ Now["inactive"] = Ina BY DEF Now
<1> HIDE DEF Liv, Slf, Act, Ina
<1>4. /\ \A n \in {"accept2", "waccept2", "connect2", "wconnect2", "empty1", "sized", "live"} :
           Now[n] = Liv
      /\ \A n \in {"wconnect4", "shake1", "send1"} : Now[n] = Slf
      /\ \A n \in {"body", "active"} : Now[n] = Act
      /\ Now["inactive"] = Ina
  BY <1>1, <1>2, <1>3
<1>5. /\ \A n \in SetsConnected : Now[n] = set_connected
      /\ \A n \in SetsServer : Now[n] = set_server
      /\ \A n \in SetsReady : Now[n] = set_ready
      /\ \A n \in SetsWebsocket : Now[n] = set_websocket
      /\ \A n \in SetsClosed : Now[n] = set_closed
  BY DEF SetsConnected, SetsServer, SetsReady, SetsWebsocket, SetsClosed, Now
<1>. QED BY <1>4, <1>5 DEF Liv, Slf, Act, Ina

\* What each of the setters does to them.
LEMMA Marks ==
  ASSUME NEW w \in 0..127, NEW n \in Loads, NEW x, x = Target(Now[n], w)
  PROVE  /\ x \in 0..127
         /\ n \in SetsClosed => \A b \in Marked : ~has(x, b)
         /\ n \in SetsServer => \A b \in Marked : has(x, b) <=> b = "server"
         /\ n \in SetsConnected => \A b \in Marked : has(x, b) <=> b = "connected"
         /\ n \in SetsReady => \A b \in Marked : has(x, b) <=> has(w, b) \/ b = "ready"
         /\ n \in SetsWebsocket => \A b \in Marked : has(x, b) <=> has(w, b) \/ b = "websocket"
         /\ n \in SetsOther => \A b \in Marked : has(x, b) <=> has(w, b)
<1>1. \A y : \A b \in Marked : has(y, b) <=> b \in Bits(y)
  BY DEF Marked, Bits, Bit
<1>2. CASE n \in SetsClosed
  <2>1. Now[n] = set_closed BY <1>2, Setters
  <2>2. x = 0 BY <2>1, Changes
  <2>3. Bits(0) = {} BY NoBits
  <2>. QED BY <1>1, <1>2, <2>2, <2>3
       DEF SetsClosed, SetsServer, SetsConnected, SetsReady, SetsWebsocket, SetsOther
<1>3. CASE n \in SetsServer
  <2>1. Now[n] = set_server BY <1>3, Setters
  <2>2. x \in 0..127 /\ Bits(x) = {"server"} BY <2>1, Changes
  <2>. QED BY <1>1, <1>3, <2>2
       DEF SetsClosed, SetsServer, SetsConnected, SetsReady, SetsWebsocket, SetsOther
<1>4. CASE n \in SetsConnected
  <2>1. Now[n] = set_connected BY <1>4, Setters
  <2>2. x \in 0..127 /\ Bits(x) = {"connected"} BY <2>1, Changes
  <2>. QED BY <1>1, <1>4, <2>2
       DEF SetsClosed, SetsServer, SetsConnected, SetsReady, SetsWebsocket, SetsOther
<1>5. CASE n \in SetsReady
  <2>1. Now[n] = set_ready BY <1>5, Setters
  <2>2. x \in 0..127 /\ Bits(x) = Bits(w) \cup {"ready"} BY <2>1, Changes
  <2>. QED BY <1>1, <1>5, <2>2
       DEF SetsClosed, SetsServer, SetsConnected, SetsReady, SetsWebsocket, SetsOther
<1>6. CASE n \in SetsWebsocket
  <2>1. Now[n] = set_websocket BY <1>6, Setters
  <2>2. x \in 0..127 /\ Bits(x) = Bits(w) \cup {"websocket"} BY <2>1, Changes
  <2>. QED BY <1>1, <1>6, <2>2
       DEF SetsClosed, SetsServer, SetsConnected, SetsReady, SetsWebsocket, SetsOther
<1>7. CASE n \in SetsOther
  <2>1. n \in {"accept2", "waccept2", "connect2", "wconnect2", "wconnect4", "shake1", "empty1",
               "sized", "body", "send1", "active", "live", "inactive"}
    BY <1>7, Places DEF SetsOther, Loads, Calling, Reading, Writing, Telling, Adding, Ending,
       Shutting, SetsConnected, SetsServer, SetsReady, SetsWebsocket, SetsClosed
  <2>2. Now[n] \in {set_peer_live(TRUE), set_self_live(TRUE), set_peer_active(TRUE),
                    set_peer_active(FALSE)}
    BY <2>1, Setters
  <2>3. /\ x \in 0..127
        /\ \/ Bits(x) = Bits(w) \cup {"self_live"} \/ Bits(x) = Bits(w) \cup {"peer_live"}
           \/ Bits(x) = Bits(w) \cup {"peer_active", "peer_live"}
           \/ Bits(x) = Bits(w) \ {"peer_active"}
    BY <2>2, Changes
  <2>4. \A b \in Marked : b \in Bits(x) <=> b \in Bits(w)
    BY <2>3 DEF Marked
  <2>. QED BY <1>1, <1>7, <2>3, <2>4 DEF SetsOther
<1>. QED BY <1>2, <1>3, <1>4, <1>5, <1>6, <1>7 DEF SetsOther

\* The word to load is a number, whatever word it is made of.
LEMMA TargetIsInt ==
  ASSUME NEW w \in Int, NEW n \in Loads
  PROVE  Target(Now[n], w) \in Int
<1>1. \A b \in DOMAIN Bit : Bit[b] \in Int BY Weights
<1>2. ASSUME NEW a \in DOMAIN Bit, NEW b \in DOMAIN Bit, NEW S \in SUBSET {a, b}
      PROVE  SumSet({Bit[c] : c \in S}) \in Int
  <2>1. S = {} \/ S = {a} \/ S = {b} \/ S = {a, b} OBVIOUS
  <2>2. \/ {Bit[c] : c \in S} = {}
        \/ {Bit[c] : c \in S} = {Bit[a]}
        \/ {Bit[c] : c \in S} = {Bit[b]}
        \/ {Bit[c] : c \in S} = {Bit[a], Bit[b]}
    BY <2>1
  <2>3. Bit[a] \in Int /\ Bit[b] \in Int BY <1>1
  <2>4. SumSet({Bit[a], Bit[b]}) \in Int
    <3>1. CASE Bit[a] = Bit[b]
      <4>1. {Bit[a], Bit[b]} = {Bit[a]} BY <3>1
      <4>. QED BY <4>1, <2>3, Sums
    <3>2. CASE Bit[a] # Bit[b] BY <3>2, <2>3, Sums
    <3>. QED BY <3>1, <3>2
  <2>5. SumSet({}) \in Int /\ SumSet({Bit[a]}) \in Int /\ SumSet({Bit[b]}) \in Int
    BY <2>3, Sums
  <2>6. CASE {Bit[c] : c \in S} = {} BY <2>5, <2>6
  <2>7. CASE {Bit[c] : c \in S} = {Bit[a]} BY <2>5, <2>7
  <2>8. CASE {Bit[c] : c \in S} = {Bit[b]} BY <2>5, <2>8
  <2>9. CASE {Bit[c] : c \in S} = {Bit[a], Bit[b]} BY <2>4, <2>9
  <2>. QED BY <2>2, <2>6, <2>7, <2>8, <2>9
<1>3. ASSUME NEW a \in DOMAIN Bit, NEW b \in DOMAIN Bit, NEW y \in Int
      PROVE  Add(y, {a, b}) \in Int /\ Del(y, {a, b}) \in Int
  <2>1. /\ SumSet({Bit[c] : c \in {d \in {a, b} : ~has(y, d)}}) \in Int
        /\ SumSet({Bit[c] : c \in {d \in {a, b} : has(y, d)}}) \in Int
    BY <1>2
  <2>. QED BY <2>1 DEF Add, Del
<1>4. {"server", "connected", "ready", "websocket", "self_live", "peer_live", "peer_active"}
        \subseteq DOMAIN Bit
  BY DEF Bit
<1>5. \A b : {b, b} = {b} OBVIOUS
<1>6. \A b \in DOMAIN Bit : \A y \in Int : Add(y, {b}) \in Int /\ Del(y, {b}) \in Int
  <2> SUFFICES ASSUME NEW b \in DOMAIN Bit, NEW y \in Int
               PROVE  Add(y, {b}) \in Int /\ Del(y, {b}) \in Int
    OBVIOUS
  <2>1. Add(y, {b, b}) \in Int /\ Del(y, {b, b}) \in Int BY <1>3
  <2>. QED BY <2>1, <1>5
<1>7. Target(set_closed, w) \in Int
  <2>1. {Bit[b] : b \in {x \in {} : ~has(0, x)}} = {} OBVIOUS
  <2>2. Add(0, {}) = 0 + 0 BY <2>1, Sums DEF Add
  <2>. QED BY <2>2 DEF Target, set_closed
<1>8. /\ Target(set_server, w) = Add(0, {"server"})
      /\ Target(set_connected, w) = Add(0, {"connected"})
      /\ Target(set_ready, w) = Add(w, {"ready"})
      /\ Target(set_websocket, w) = Add(w, {"websocket"})
  BY DEF Target, set_server, set_connected, set_ready, set_websocket
<1>9. /\ Target(set_self_live(TRUE), w) = Add(w, {"self_live"})
      /\ Target(set_peer_live(TRUE), w) = Add(w, {"peer_live"})
      /\ Target(set_peer_active(TRUE), w) = Add(w, {"peer_active", "peer_live"})
      /\ Target(set_peer_active(FALSE), w) = Del(w, {"peer_active"})
  BY DEF Target, set_self_live, set_peer_live, set_peer_active
<1>10. Now[n] \in {set_closed, set_server, set_connected, set_ready, set_websocket,
                   set_self_live(TRUE), set_peer_live(TRUE), set_peer_active(TRUE),
                   set_peer_active(FALSE)}
  <2>1. n \in SetsConnected \cup SetsServer \cup SetsReady \cup SetsWebsocket \cup SetsClosed
              \cup {"accept2", "waccept2", "connect2", "wconnect2", "wconnect4", "shake1", "empty1",
                    "sized", "body", "send1", "active", "live", "inactive"}
    BY Places DEF Loads, Calling, Reading, Writing, Telling, Adding, Ending, Shutting,
       SetsConnected, SetsServer, SetsReady, SetsWebsocket, SetsClosed
  <2>. QED BY <2>1, Setters
<1>11. /\ Target(set_server, w) \in Int /\ Target(set_connected, w) \in Int
       /\ Target(set_ready, w) \in Int /\ Target(set_websocket, w) \in Int
  <2>1. 0 \in Int OBVIOUS
  <2>. QED BY <2>1, <1>4, <1>6, <1>8
<1>12. /\ Target(set_self_live(TRUE), w) \in Int /\ Target(set_peer_live(TRUE), w) \in Int
       /\ Target(set_peer_active(FALSE), w) \in Int
  BY <1>4, <1>6, <1>9
<1>13. Target(set_peer_active(TRUE), w) \in Int
  <2>1. "peer_active" \in DOMAIN Bit /\ "peer_live" \in DOMAIN Bit BY <1>4
  <2>2. Add(w, {"peer_active", "peer_live"}) \in Int BY <2>1, <1>3
  <2>. QED BY <2>2, <1>9
<1>. QED BY <1>7, <1>10, <1>11, <1>12, <1>13

-----------------------------------------------------------------------------
(* Completions *)

\* A completion joins those whose handlers are to run.
LEMMA Joins ==
  ASSUME Data, NEW c \in Completion, done' = Append(done, c)
  PROVE  /\ done' \in Seq(Completion)
         /\ DOMAIN done' = DOMAIN done \cup {Len(done) + 1}
         /\ done'[Len(done) + 1] = c /\ Len(done) + 1 \notin DOMAIN done
         /\ \A i \in DOMAIN done : done'[i] = done[i] /\ i < Len(done) + 1
         /\ Ended \subseteq DOMAIN done
         /\ Ended' = IF c.of \in ReadKinds THEN Ended \cup {Len(done) + 1} ELSE Ended
<1>1. /\ Len(done) \in Nat /\ DOMAIN done = 1..Len(done) /\ done' \in Seq(Completion)
      /\ Len(done') = Len(done) + 1 /\ DOMAIN done' = 1..(Len(done) + 1)
      /\ done'[Len(done) + 1] = c /\ \A i \in 1..Len(done) : done'[i] = done[i]
  BY DEF Data
<1>2. Ended' = {i \in 1..(Len(done) + 1) : done'[i].of \in ReadKinds}
  BY <1>1 DEF Ended
<1>3. Ended = {i \in 1..Len(done) : done[i].of \in ReadKinds}
  BY <1>1 DEF Ended
<1>4. Ended' = IF c.of \in ReadKinds THEN Ended \cup {Len(done) + 1} ELSE Ended
  BY <1>1, <1>2, <1>3
<1>. QED BY <1>1, <1>3, <1>4

\* A handler takes a completion.
LEMMA Taken ==
  ASSUME Data, done # <<>>, done' = Tail(done)
  PROVE  /\ done' \in Seq(Completion) /\ Head(done) \in Completion
         /\ 1 \in DOMAIN done /\ done[1] = Head(done)
         /\ \A i \in DOMAIN done' : i \in Nat /\ i + 1 \in DOMAIN done /\ done'[i] = done[i + 1]
         /\ \A i \in DOMAIN done : i = 1 \/ (i - 1 \in DOMAIN done' /\ done'[i - 1] = done[i])
         /\ Ended \subseteq DOMAIN done /\ Ended \subseteq Nat \ {0}
         /\ 1 \in Ended <=> Head(done).of \in ReadKinds
         /\ \A i : i \in Ended' <=> i \in Nat \ {0} /\ i + 1 \in Ended
<1>1. /\ Len(done) \in Nat /\ DOMAIN done = 1..Len(done) /\ done' \in Seq(Completion)
      /\ Len(done) >= 1 /\ Len(done') = Len(done) - 1 /\ DOMAIN done' = 1..(Len(done) - 1)
      /\ \A i \in 1..(Len(done) - 1) : done'[i] = done[i + 1]
      /\ Head(done) = done[1] /\ Head(done) \in Completion
  BY DEF Data
<1>2. \A i : i \in Ended' <=> i \in 1..(Len(done) - 1) /\ i + 1 \in Ended
  BY <1>1 DEF Ended
<1>3. Ended \subseteq 1..Len(done) /\ (1 \in Ended <=> Head(done).of \in ReadKinds)
  BY <1>1 DEF Ended
<1>4. \A i \in DOMAIN done : i = 1 \/ (i - 1 \in DOMAIN done' /\ done'[i - 1] = done[i])
  BY <1>1
<1>5. \A i : i \in Ended' <=> i \in Nat \ {0} /\ i + 1 \in Ended
  BY <1>1, <1>2, <1>3
<1>. QED BY <1>1, <1>3, <1>4, <1>5

\* Closing the socket: what was under way has failed.
LEMMA Aborts ==
  ASSUME Data, NEW next, close_socket(next)
  PROVE  /\ done' \in Seq(Completion) /\ reads' = <<>> /\ writes' = 0 /\ socket' = next
         /\ \A i \in DOMAIN done : i \in DOMAIN done' /\ done'[i] = done[i]
         /\ \A i \in DOMAIN done' : \/ i \in DOMAIN done
                                    \/ /\ done'[i].what = "error"
                                       /\ socket # "connecting" => done'[i].of # "connect"
<1> DEFINE R == [i \in DOMAIN reads |-> Failed(reads[i])]
           W == [i \in 1..writes |-> Failed("write")]
           X == IF socket = "connecting" THEN <<Failed("connect")>> ELSE <<>>
           Bad == {c \in Completion : c.what = "error" /\ (socket # "connecting" => c.of # "connect")}
<1>1. /\ \A k \in ReadKinds : Failed(k) \in Bad
      /\ Failed("write") \in Bad
      /\ socket = "connecting" => Failed("connect") \in Bad
  BY DEF Failed, Completion, ReadKinds
<1>2. \A c \in Bad : c \in Completion /\ c.what = "error" /\ (socket # "connecting" => c.of # "connect")
  OBVIOUS
<1>3. Bad \subseteq Completion OBVIOUS
<1> HIDE DEF Bad
<1>4. R \in Seq(Bad)
  <2>1. Len(reads) \in Nat /\ DOMAIN reads = 1..Len(reads) /\ \A i \in 1..Len(reads) : reads[i] \in ReadKinds
    BY DEF Data
  <2>. QED BY <1>1, <2>1
<1>5. W \in Seq(Bad) BY <1>1 DEF Data
<1>6. X \in Seq(Bad) BY <1>1
<1>7. done' = done \o (R \o W \o X) /\ reads' = <<>> /\ writes' = 0 /\ socket' = next
  BY DEF close_socket, Aborted
<1> HIDE DEF R, W, X
<1> DEFINE A == R \o W \o X
<1>8. A \in Seq(Bad) BY <1>4, <1>5, <1>6
<1>9. done' = done \o A BY <1>7
<1> HIDE DEF A
<1>10. done \in Seq(Completion) BY DEF Data
<1>11. A \in Seq(Completion) BY <1>3, <1>8
<1>12. /\ done' \in Seq(Completion) /\ Len(done') = Len(done) + Len(A)
       /\ \A i \in 1..Len(done) : done'[i] = done[i]
       /\ \A i \in 1..Len(A) : done'[Len(done) + i] = A[i]
  BY <1>9, <1>10, <1>11
<1>13. Len(done) \in Nat /\ Len(A) \in Nat /\ DOMAIN done = 1..Len(done) /\ DOMAIN done' = 1..Len(done')
  BY <1>10, <1>11, <1>12
<1>14. ASSUME NEW i \in DOMAIN done', i \notin DOMAIN done PROVE done'[i] \in Bad
  <2> DEFINE j == i - Len(done)
  <2>1. j \in 1..Len(A) /\ i = Len(done) + j BY <1>12, <1>13, <1>14
  <2>2. done'[i] = A[j] BY <1>12, <2>1
  <2> HIDE DEF j
  <2>. QED BY <1>8, <2>1, <2>2
<1>15. \A i \in DOMAIN done : i \in DOMAIN done' /\ done'[i] = done[i] BY <1>12, <1>13
<1>. QED BY <1>2, <1>7, <1>12, <1>14, <1>15

-----------------------------------------------------------------------------
(* Threads *)

\* Where a thread is tells what it calls.
LEMMA At ==
  ASSUME NEW t \in Threads, NEW n \in Place, todo[t] = Path[n]
  PROVE  /\ Free(t) <=> n = "rest"
         /\ n # "rest" => /\ Head(todo[t]) = Now[n] /\ Tail(todo[t]) = Path[Then[n]]
                          /\ Then[n] \in Place
         /\ Loading(t) <=> n \in Loads
         /\ Calls(t, "async_read") <=> n \in Reading
         /\ Calls(t, "async_write") <=> n \in Writing
         /\ Calls(t, "close") <=> n \in Ending
         /\ Calls(t, "shutdown") <=> n \in Shutting
         /\ Calls(t, "add_peer") <=> n \in Adding
         /\ Calls(t, "on_connect") <=> n = "connect4"
         /\ Calls(t, "on_close") <=> n = "close4"
         /\ Calls(t, "on_read") <=> n = "empty2"
         /\ Calls(t, "erase") <=> n = "sweep4"
         /\ Calls(t, "connect") <=> n = "again"
<1>1. Free(t) <=> n = "rest" BY Paths DEF Free
<1>2. CASE n = "rest"
  BY <1>1, <1>2 DEF Calls, Loading, Loads, Calling, Reading, Writing, Telling, Adding, Ending, Shutting
<1>3. CASE n # "rest"
  <2>1. Head(todo[t]) = Now[n] /\ Tail(todo[t]) = Path[Then[n]] /\ Then[n] \in Place
    BY <1>3, Paths
  <2>. QED BY <1>1, <1>3, <2>1, Operations DEF Calls, Loading
<1>. QED BY <1>2, <1>3

\* The places a thread may be at.
LEMMA PlacesOf == UserPlace \subseteq Place /\ IoPlace \subseteq Place
BY Places DEF UserPlace, IoPlace, ToRead, Accepting, Beginning, Connected, Messages, Closing, Sweeping

\* A thread that does not load goes on to a place.
LEMMA Goes ==
  ASSUME Doing, NEW t \in Threads, NEW m \in Place, t # Io => m \in UserPlace,
         UNCHANGED role, todo' = [todo EXCEPT ![t] = Path[m]],
         load' \in [Threads -> {Nil} \cup [v : Int, diff : {Nil} \cup Int]],
         load'[t] = Nil, \A u \in Threads \ {t} : load'[u] = load[u]
  PROVE  /\ todo'[t] = Path[m] /\ \A u \in Threads \ {t} : todo'[u] = todo[u]
         /\ Doing' /\ IoPlace' = IoPlace /\ (Server' <=> Server)
<1>1. todo'[t] = Path[m] /\ (\A u \in Threads \ {t} : todo'[u] = todo[u]) /\ DOMAIN todo' = Threads
  BY DEF Doing
<1>2. IoPlace' = IoPlace /\ (Server' <=> Server) /\ UserPlace' = UserPlace
  BY DEF IoPlace, Server, UserPlace
<1>3. \A u \in Users : \E k \in UserPlace : todo'[u] = Path[k]
  <2> SUFFICES ASSUME NEW u \in Users PROVE \E k \in UserPlace : todo'[u] = Path[k] OBVIOUS
  <2>1. CASE u = t BY <1>1, <2>1, IoAssumption
  <2>2. CASE u # t BY <1>1, <2>2 DEF Doing, Threads
  <2>. QED BY <2>1, <2>2
<1>4. \A u \in Threads : load'[u] # Nil => Loading(u)'
  <2> SUFFICES ASSUME NEW u \in Threads, load'[u] # Nil PROVE Loading(u)' OBVIOUS
  <2>1. u # t /\ load[u] # Nil BY DEF Doing
  <2>2. Loading(u) /\ todo'[u] = todo[u] BY <1>1, <2>1 DEF Doing
  <2>. QED BY <2>2 DEF Loading, Free
<1>. QED BY <1>1, <1>2, <1>3, <1>4 DEF Doing

\* The connection stays as it is.
LEMMA Same ==
  ASSUME UNCHANGED <<role, m_state, socket, reads, done>>
  PROVE  /\ (Open' <=> Open) /\ Ended' = Ended /\ (NoRead' <=> NoRead) /\ (OneRead' <=> OneRead)
         /\ Server' <=> Server
         /\ (Is("server")' <=> Is("server")) /\ (Is("connected")' <=> Is("connected"))
         /\ (Is("ready")' <=> Is("ready")) /\ (Is("websocket")' <=> Is("websocket"))
<1>1. (Open' <=> Open) /\ (Server' <=> Server) BY DEF Open, Server
<1>2. Ended' = Ended BY DEF Ended
<1>3. (NoRead' <=> NoRead) /\ (OneRead' <=> OneRead) BY <1>2 DEF NoRead, OneRead
<1>4. /\ (Is("server")' <=> Is("server")) /\ (Is("connected")' <=> Is("connected"))
      /\ (Is("ready")' <=> Is("ready")) /\ (Is("websocket")' <=> Is("websocket"))
  BY DEF Is
<1>. QED BY <1>1, <1>2, <1>3, <1>4

-----------------------------------------------------------------------------
(* The io thread *)

\* Which places the io thread is at in a server, and in a client.
LEMMA IoKinds ==
  /\ {"rest"} \cup Closing \subseteq IoPlace
  /\ Server => Sweeping \cup Accepting \subseteq IoPlace
  /\ ~Server => "again" \in IoPlace
  /\ \A n \in IoPlace : n \in Sweeping \cup Accepting => Server
  /\ \A n \in IoPlace : n \in {"connect1", "connect2", "wconnect1", "wconnect2", "wconnect3",
                               "wconnect4", "wconnect5", "again"} => ~Server
  /\ \A n \in IoPlace \ {"rest"} : Then[n] \in IoPlace
  /\ \A n \in IoPlace : n \in {"rest", "again"} \cup ToRead \cup Closing \cup Sweeping
<1>1. /\ {"rest"} \cup Closing \subseteq IoPlace
      /\ Server => Sweeping \cup Accepting \subseteq IoPlace
      /\ ~Server => "again" \in IoPlace
  BY DEF IoPlace, Closing, Sweeping, Accepting, ToRead
<1>2. /\ \A n \in IoPlace : n \in Sweeping \cup Accepting => Server
      /\ \A n \in IoPlace : n \in {"rest", "again"} \cup ToRead \cup Closing \cup Sweeping
  BY DEF IoPlace, Closing, Sweeping, Accepting, ToRead, Beginning, Connected, Messages
<1>3. \A n \in IoPlace : n \in {"connect1", "connect2", "wconnect1", "wconnect2", "wconnect3",
                                "wconnect4", "wconnect5", "again"} => ~Server
  BY DEF IoPlace, Closing, Sweeping, Accepting, ToRead, Beginning, Connected, Messages
<1>4. \A n \in IoPlace \ {"rest"} : Then[n] \in IoPlace
  BY DEF IoPlace, Closing, Sweeping, Accepting, ToRead, Beginning, Connected, Messages, Then
<1>. QED BY <1>1, <1>2, <1>3, <1>4

\* What a concatenation is,
LEMMA Concat ==
  ASSUME NEW T, NEW s \in Seq(T), NEW r \in Seq(T)
  PROVE  /\ s \o r \in Seq(T) /\ Len(s \o r) = Len(s) + Len(r)
         /\ \A i \in 1..Len(s) : (s \o r)[i] = s[i]
         /\ \A i \in 1..Len(r) : (s \o r)[Len(s) + i] = r[i]
OBVIOUS

\* and lists put together.
LEMMA Joined ==
  ASSUME NEW a, NEW b, NEW c
  PROVE  <<a, b>> \o <<c>> = <<a, b, c>>
<1> DEFINE s == <<a, b>>
           r == <<c>>
           z == <<a, b, c>>
           T == {a, b, c}
<1>1. s \in Seq(T) /\ Len(s) = 2 /\ s[1] = a /\ s[2] = b OBVIOUS
<1>2. r \in Seq(T) /\ Len(r) = 1 /\ r[1] = c OBVIOUS
<1>3. z \in Seq(T) /\ Len(z) = 3 /\ z[1] = a /\ z[2] = b /\ z[3] = c OBVIOUS
<1> HIDE DEF s, r, z, T
<1>4. /\ s \o r \in Seq(T) /\ Len(s \o r) = 3
      /\ (s \o r)[1] = a /\ (s \o r)[2] = b /\ (s \o r)[3] = c
  <2>1. s \in Seq(T) /\ r \in Seq(T) BY <1>1, <1>2
  <2>2. /\ s \o r \in Seq(T) /\ Len(s \o r) = Len(s) + Len(r)
        /\ \A i \in 1..Len(s) : (s \o r)[i] = s[i]
        /\ \A i \in 1..Len(r) : (s \o r)[Len(s) + i] = r[i]
    BY <2>1, Concat
  <2>. QED BY <1>1, <1>2, <2>2
<1>5. \A i \in 1..3 : i = 1 \/ i = 2 \/ i = 3 OBVIOUS
<1>6. \A i \in 1..3 : (s \o r)[i] = z[i] BY <1>3, <1>4, <1>5
<1>7. s \o r = z BY <1>3, <1>4, <1>6, SeqEqual
<1>. QED BY <1>7 DEF s, r, z

\* A step of a thread that does not load goes on to m.
Passes(t, m) ==
  /\ Does(t, Path[m]) /\ UNCHANGED <<role, load>>
  /\ ~Loading(t)

\* What the io thread's step to m leaves to show.
LEMMA IoGoes ==
  ASSUME Doing, NEW m \in Place, m \in IoPlace, Passes(Io, m), Data', Shape',
         Server => OfServer(m)', ~Server /\ Kept' => OfClient(m)', KeptReads' => OfReads(m)'
  PROVE  IInv'
<1>1. load[Io] = Nil /\ load \in [Threads -> {Nil} \cup [v : Int, diff : {Nil} \cup Int]]
  BY DEF Passes, Doing, Threads
<1>2. /\ todo'[Io] = Path[m] /\ Doing' /\ IoPlace' = IoPlace /\ (Server' <=> Server)
  BY <1>1, Goes DEF Passes, Does, Threads
<1>3. InvAt(m)' BY <1>2 DEF InvAt
<1>. QED BY <1>2, <1>3 DEF IInv

\* and what a user's step leaves.
LEMMA UserGoes ==
  ASSUME Doing, NEW u \in Users, NEW m \in UserPlace, Passes(u, m), Data', Shape',
         NEW n \in IoPlace, todo[Io] = Path[n],
         Server => OfServer(n)', ~Server /\ Kept' => OfClient(n)', KeptReads' => OfReads(n)'
  PROVE  IInv'
<1>1. load[u] = Nil /\ load \in [Threads -> {Nil} \cup [v : Int, diff : {Nil} \cup Int]]
  BY DEF Passes, Doing, Threads
<1>2. m \in Place /\ u \in Threads /\ Io \in Threads \ {u} BY PlacesOf, IoAssumption DEF Threads
<1>3. /\ todo'[Io] = Path[n] /\ Doing' /\ IoPlace' = IoPlace /\ (Server' <=> Server)
  BY <1>1, <1>2, Goes DEF Passes, Does
<1>4. InvAt(n)' BY <1>3 DEF InvAt
<1>. QED BY <1>3, <1>4 DEF IInv

\* The other threads stay where they are.
LEMMA UsersStay ==
  ASSUME Doing, NEW m, Does(Io, Path[m])
  PROVE  \A u \in Users : todo'[u] = todo[u]
BY IoAssumption DEF Doing, Does

LEMMA IoCloses ==
  ASSUME Data, Doing, Shape, NEW n \in IoPlace, InvAt(n), close(Io)
  PROVE  IInv'
<1>1. /\ n \in Place /\ todo[Io] = Path[n] /\ n \in {"close1", "sweep1"}
      /\ Tail(todo[Io]) = Path[Then[n]] /\ ~Loading(Io)
  BY PlacesOf, At DEF close, Threads, InvAt, Ending, Loads, Calling
<1>2. UNCHANGED <<role, m_state, load, socket, reads, writes, done, up, met, erased, counts, known>>
  BY DEF close, ioVars
<1>3. PICK m \in {"close2", "close4", "sweep2", "sweep4"} :
        /\ Does(Io, Path[m])
        /\ m \in {"close4", "sweep4"} <=> m_state = 0
        /\ m \in {"close2", "close4"} <=> n = "close1"
  <2>1. Path["close2"] = <<set_closed, <<"shutdown", {}>> >> \o Path["close4"]
    BY Joined DEF Path
  <2>2. Path["sweep2"] = <<set_closed, <<"shutdown", {}>> >> \o Path["sweep4"]
    BY Joined DEF Path
  <2>3. Then["close1"] = "close4" /\ Then["sweep1"] = "sweep4" BY DEF Then
  <2>4. <<>> \o Path["close4"] = Path["close4"] /\ <<>> \o Path["sweep4"] = Path["sweep4"]
    BY DEF Path
  <2>5. Does(Io, (IF m_state = 0 THEN <<>> ELSE <<set_closed, <<"shutdown", {}>> >>)
                 \o Path[Then[n]])
    BY <1>1 DEF close
  <2>6. CASE m_state = 0 /\ n = "close1" BY <2>3, <2>4, <2>5, <2>6
  <2>7. CASE m_state = 0 /\ n = "sweep1" BY <2>3, <2>4, <2>5, <2>7
  <2>8. CASE m_state # 0 /\ n = "close1" BY <2>1, <2>3, <2>5, <2>8
  <2>9. CASE m_state # 0 /\ n = "sweep1" BY <2>2, <2>3, <2>5, <2>9
  <2>. QED BY <1>1, <2>6, <2>7, <2>8, <2>9
<1>4. m \in IoPlace /\ m \in Place
  <2>1. n = "sweep1" => Server BY <1>1, IoKinds DEF Sweeping
  <2>. QED BY <1>1, <1>3, <2>1, PlacesOf, IoKinds DEF Closing, Sweeping
<1>5. Passes(Io, m) BY <1>1, <1>2, <1>3 DEF Passes
<1>6. m_state = 0 => ~Is("connected")
  BY NoBits DEF Is, Bits, Bit
<1>7. (m \in Closing <=> n \in Closing) /\ (m \in Sweeping <=> n \in Sweeping)
  BY <1>1, <1>3 DEF Closing, Sweeping
<1>8. \A u \in Users : todo'[u] = todo[u] BY <1>3, UsersStay
<1>9. Server => OfServer(m)'
  BY <1>1, <1>2, <1>3, <1>7, <1>8, Same DEF OfServer, InvAt, Swept, Accepting, Sweeping, Closing
<1>10. ~Server /\ Kept' => OfClient(m)'
  BY <1>1, <1>2, <1>3, <1>6, <1>7, Same DEF OfClient, InvAt, Kept, ToRead, Accepting, Beginning, Connected,
     Messages, Closing, Broken, Made
<1>11. KeptReads' => OfReads(m)'
  BY <1>1, <1>2, <1>3, <1>7, Same DEF OfReads, InvAt, KeptReads, There, Served, Fits, ToRead, Accepting,
     Beginning, Connected, Messages, Made
<1>12. Data' /\ Shape'
  BY <1>2, Same DEF Data, Shape
<1>. QED BY <1>4, <1>5, <1>9, <1>10, <1>11, <1>12, IoGoes

LEMMA IoNotifiesConnect ==
  ASSUME Data, Doing, Shape, NEW n \in IoPlace, InvAt(n), notify_connect(Io)
  PROVE  IInv'
<1>1. /\ n \in Place /\ todo[Io] = Path[n] /\ n = "connect4" /\ Then[n] = "read_head"
      /\ Tail(todo[Io]) = Path[Then[n]] /\ ~Loading(Io)
  BY PlacesOf, At DEF notify_connect, Threads, InvAt, Loads, Calling, Telling, Then
<1>2. UNCHANGED <<role, m_state, load, socket, reads, writes, done, met, erased, counts, known>> /\ up' = TRUE
  BY DEF notify_connect, ioVars
<1>3. Does(Io, Path["read_head"]) BY <1>1 DEF notify_connect, Rest, Does
<1>4. "read_head" \in IoPlace /\ "read_head" \in Place BY <1>1, IoKinds, PlacesOf
<1>5. Passes(Io, "read_head") BY <1>1, <1>2, <1>3 DEF Passes
<1>6. \A u \in Users : todo'[u] = todo[u] BY <1>3, UsersStay
<1>7. Server => OfServer("read_head")'
  BY <1>1, <1>2, <1>6, Same DEF OfServer, InvAt, Swept, Accepting, Sweeping, Closing
<1>8. ~Server /\ Kept' => OfClient("read_head")'
  BY <1>1, <1>2, <1>6, Same DEF OfClient, InvAt, Kept, ToRead, Accepting, Beginning, Connected,
     Messages, Closing, Broken, Made
<1>9. KeptReads' => OfReads("read_head")'
  BY <1>1, <1>2, <1>6, Same DEF OfReads, InvAt, KeptReads, There, Served, Fits, ToRead, Accepting,
     Beginning, Connected, Messages, Made
<1>10. Data' /\ Shape'
  BY <1>1, <1>2, <1>6, Same DEF Data, Shape
<1>. QED BY <1>4, <1>5, <1>7, <1>8, <1>9, <1>10, IoGoes

LEMMA IoNotifiesClose ==
  ASSUME Data, Doing, Shape, NEW n \in IoPlace, InvAt(n), notify_close(Io)
  PROVE  IInv'
<1>1. /\ n \in Place /\ todo[Io] = Path[n] /\ n = "close4" /\ Then[n] = "rest"
      /\ Tail(todo[Io]) = Path[Then[n]] /\ ~Loading(Io)
  BY PlacesOf, At DEF notify_close, Threads, InvAt, Loads, Calling, Telling, Then
<1>2. /\ UNCHANGED <<role, m_state, load, socket, reads, writes, done, met, counts, known>>
      /\ up' = FALSE /\ erased' = (erased \/ Server)
  BY DEF notify_close, ioVars, Server
<1>3. Does(Io, Path["rest"]) BY <1>1 DEF notify_close, Rest, Does
<1>4. "rest" \in IoPlace /\ "rest" \in Place BY <1>1, IoKinds, PlacesOf
<1>5. Passes(Io, "rest") BY <1>1, <1>2, <1>3 DEF Passes
<1>6. \A u \in Users : todo'[u] = todo[u] BY <1>3, UsersStay
<1>7. Server => OfServer("rest")'
  BY <1>1, <1>2, <1>6, Same DEF OfServer, InvAt, Swept, Accepting, Sweeping, Closing
<1>8. ~Server /\ Kept' => OfClient("rest")'
  BY <1>1, <1>2, <1>6, Same DEF OfClient, InvAt, Kept, ToRead, Accepting, Beginning, Connected,
     Messages, Closing, Broken, Made
<1>9. KeptReads' => OfReads("rest")'
  BY <1>1, <1>2, <1>6, Same DEF OfReads, OfClient, Kept, InvAt, KeptReads, There, Served, Fits, ToRead, Accepting,
     Beginning, Connected, Messages, Made
<1>10. Data' /\ Shape'
  BY <1>1, <1>2, <1>6, Same DEF Data, Shape
<1>. QED BY <1>4, <1>5, <1>7, <1>8, <1>9, <1>10, IoGoes

LEMMA IoReadsMessage ==
  ASSUME Data, Doing, Shape, NEW n \in IoPlace, InvAt(n), on_read(Io)
  PROVE  IInv'
<1>1. /\ n \in Place /\ todo[Io] = Path[n] /\ n = "empty2" /\ Then[n] = "read_head"
      /\ Tail(todo[Io]) = Path[Then[n]] /\ ~Loading(Io)
  BY PlacesOf, At DEF on_read, Threads, InvAt, Loads, Calling, Then
<1>2. UNCHANGED <<role, m_state, load, socket, reads, writes, done, up, erased, counts, known>> /\ met' = TRUE
  BY DEF on_read, ioVars
<1>3. Does(Io, Path["read_head"]) BY <1>1 DEF on_read, Rest, Does
<1>4. "read_head" \in IoPlace /\ "read_head" \in Place BY <1>1, IoKinds, PlacesOf
<1>5. Passes(Io, "read_head") BY <1>1, <1>2, <1>3 DEF Passes
<1>6. \A u \in Users : todo'[u] = todo[u] BY <1>3, UsersStay
<1>7. Server => OfServer("read_head")'
  BY <1>1, <1>2, <1>6, Same DEF OfServer, InvAt, Swept, Accepting, Sweeping, Closing
<1>8. ~Server /\ Kept' => OfClient("read_head")'
  BY <1>1, <1>2, <1>6, Same DEF OfClient, InvAt, Kept, ToRead, Accepting, Beginning, Connected,
     Messages, Closing, Broken, Made
<1>9. KeptReads' => OfReads("read_head")'
  BY <1>1, <1>2, <1>6, Same DEF OfReads, InvAt, KeptReads, There, Served, Fits, ToRead, Accepting,
     Beginning, Connected, Messages, Made
<1>10. Data' /\ Shape'
  BY <1>1, <1>2, <1>6, Same DEF Data, Shape
<1>. QED BY <1>4, <1>5, <1>7, <1>8, <1>9, <1>10, IoGoes

LEMMA IoAddsPeer ==
  ASSUME Data, Doing, Shape, NEW n \in IoPlace, InvAt(n), add_peer(Io)
  PROVE  IInv'
<1>1. /\ n \in Place /\ todo[Io] = Path[n] /\ n \in {"accept4", "waccept4"}
      /\ Tail(todo[Io]) = Path[Then[n]] /\ ~Loading(Io)
      /\ Then["accept4"] = "ready_read" /\ Then["waccept4"] = "ws_until"
  BY PlacesOf, At DEF add_peer, Threads, InvAt, Loads, Calling, Adding, Then
<1>2. /\ UNCHANGED <<role, m_state, load, socket, reads, writes, done, met, erased, counts, known>>
      /\ up' \in BOOLEAN
  BY DEF add_peer, ioVars, Data
<1>3. PICK m \in {"ready_read", "ws_until", "sweep1"} :
        Does(Io, Path[m]) /\ (m = "sweep1" => up' = up) /\ (m # "sweep1" => up')
  <2>1. Path["sweep1"] = <<<<"close", {}>>, <<"erase", {}>> >> BY DEF Path
  <2>. QED BY <1>1, <2>1 DEF add_peer, Rest, Does
<1>0. Server BY <1>1, IoKinds DEF Accepting
<1>4. m \in IoPlace /\ m \in Place
  <2>1. "ready_read" \in IoPlace /\ "ws_until" \in IoPlace
    BY <1>0 DEF IoPlace, ToRead, Connected
  <2>2. "sweep1" \in IoPlace BY <1>0, IoKinds DEF Sweeping
  <2>. QED BY <1>3, <2>1, <2>2, PlacesOf
<1>5. Passes(Io, m) BY <1>1, <1>2, <1>3 DEF Passes
<1>6. \A u \in Users : todo'[u] = todo[u] BY <1>3, UsersStay
<1>7. Server => OfServer(m)'
  BY <1>0, <1>1, <1>2, <1>3, <1>6, Same DEF OfServer, InvAt, Swept, Accepting, Sweeping, Closing
<1>8. ~Server /\ Kept' => OfClient(m)'
  BY <1>0, <1>1, <1>2, <1>3, <1>6, Same DEF OfClient, InvAt, Kept, ToRead, Accepting, Beginning, Connected,
     Messages, Closing, Broken, Made
<1>9. KeptReads' => OfReads(m)'
  BY <1>0, <1>1, <1>2, <1>3, <1>6, Same DEF OfReads, InvAt, KeptReads, There, Served, Fits, ToRead, Accepting,
     Beginning, Connected, Messages, Made
<1>10. Data' /\ Shape'
  BY <1>0, <1>1, <1>2, <1>3, <1>6, Same DEF Data, Shape
<1>. QED BY <1>4, <1>5, <1>7, <1>8, <1>9, <1>10, IoGoes

LEMMA IoErases ==
  ASSUME Data, Doing, Shape, NEW n \in IoPlace, InvAt(n), erase(Io)
  PROVE  IInv'
<1>1. /\ n \in Place /\ todo[Io] = Path[n] /\ n = "sweep4" /\ Then[n] = "rest"
      /\ Tail(todo[Io]) = Path[Then[n]] /\ ~Loading(Io)
  BY PlacesOf, At DEF erase, Threads, InvAt, Loads, Calling, Then
<1>0. Server /\ ~up BY <1>1, IoKinds DEF Sweeping, InvAt, OfServer
<1>2. /\ UNCHANGED <<role, m_state, load, socket, reads, writes, done, up, met, counts, known>>
      /\ erased' = TRUE
  BY <1>0 DEF erase, ioVars, Record
<1>3. Does(Io, Path["rest"]) BY <1>1 DEF erase, Rest, Does
<1>4. "rest" \in IoPlace /\ "rest" \in Place BY <1>1, IoKinds, PlacesOf
<1>5. Passes(Io, "rest") BY <1>1, <1>2, <1>3 DEF Passes
<1>6. \A u \in Users : todo'[u] = todo[u] BY <1>3, UsersStay
<1>7. Server => OfServer("rest")'
  BY <1>0, <1>1, <1>2, <1>6, Same DEF OfServer, InvAt, Swept, Accepting, Sweeping, Closing
<1>8. ~Server /\ Kept' => OfClient("rest")'
  BY <1>0, <1>1, <1>2, <1>6, Same DEF OfClient, InvAt, Kept, ToRead, Accepting, Beginning, Connected,
     Messages, Closing, Broken, Made
<1>9. KeptReads' => OfReads("rest")'
  BY <1>0, <1>1, <1>2, <1>6, Same DEF OfReads, InvAt, KeptReads, There, Served, Fits, ToRead, Accepting,
     Beginning, Connected, Messages, Made
<1>10. Data' /\ Shape'
  BY <1>0, <1>1, <1>2, <1>6, Same DEF Data, Shape
<1>. QED BY <1>4, <1>5, <1>7, <1>8, <1>9, <1>10, IoGoes

-----------------------------------------------------------------------------
(* The io thread changes the state word *)

\* A load takes its word and the difference: nothing that can be seen.
LEMMA LoadBegins ==
  ASSUME Data, Doing, Shape, NEW n \in IoPlace, InvAt(n),
         NEW t \in Threads, load_target(t) \/ load_diff(t)
  PROVE  IInv'
<1>1. Loading(t) /\ UNCHANGED <<role, m_state, todo, socket, reads, writes, done, up, met, erased, known>>
  BY DEF load_target, load_diff, ioVars
<1>2. PICK m \in Place : todo[t] = Path[m] /\ m \in Loads /\ Head(todo[t]) = Now[m]
  <2>1. \E m \in Place : todo[t] = Path[m] BY PlacesOf DEF Doing, InvAt, Threads
  <2>2. PICK m \in Place : todo[t] = Path[m] BY <2>1
  <2>3. m \in Loads BY <1>1, <2>2, At
  <2>4. m # "rest" BY <2>3 DEF Loads
  <2>. QED BY <2>2, <2>3, <2>4, At
<1>3. m_state \in Int BY DEF Data, Word, WordSize
<1>4. Target(Head(todo[t]), m_state) \in Int BY <1>2, <1>3, TargetIsInt
<1> DEFINE V == [v : Int, diff : {Nil} \cup Int]
<1>5. load' \in [Threads -> {Nil} \cup V] /\ \A u \in Threads \ {t} : load'[u] = load[u]
  <2>1. load \in [Threads -> {Nil} \cup V] BY DEF Doing
  <2>2. CASE load_target(t)
    <3> DEFINE x == [v |-> Target(Head(todo[t]), m_state), diff |-> Nil]
    <3>1. x \in V BY <1>4
    <3>2. load' = [load EXCEPT ![t] = x] BY <2>2 DEF load_target
    <3> HIDE DEF x, V
    <3>. QED BY <2>1, <3>1, <3>2
  <2>3. CASE load_diff(t)
    <3>1. load[t] \in V /\ load' = [load EXCEPT ![t].diff = load[t].v - m_state]
      BY <2>1, <2>3 DEF load_diff
    <3>2. load[t].v - m_state \in Int BY <1>3, <3>1
    <3> DEFINE x == [load[t] EXCEPT !.diff = load[t].v - m_state]
    <3>3. x \in V BY <3>1, <3>2
    <3>4. load' = [load EXCEPT ![t] = x] BY <3>1
    <3> HIDE DEF x, V
    <3>. QED BY <2>1, <3>3, <3>4
  <2>. QED BY <2>2, <2>3
<1>6. Doing'
  <2>1. \A u \in Threads : Loading(u)' <=> Loading(u) BY <1>1 DEF Loading, Free
  <2>2. \A u \in Threads : load'[u] # Nil => Loading(u)
    BY <1>1, <1>5 DEF Doing
  <2>3. UserPlace' = UserPlace BY <1>1 DEF UserPlace, Server
  <2>4. \A u \in Threads : load'[u] # Nil => Loading(u)'
    BY <1>1, <2>2 DEF Loading, Free
  <2>. QED BY <1>1, <1>5, <2>3, <2>4 DEF Doing
<1>7. Server => OfServer(n)'
  BY <1>1, Same DEF OfServer, InvAt, Swept
<1>8. ~Server /\ Kept' => OfClient(n)'
  BY <1>1, Same DEF OfClient, InvAt, Kept, Broken, Made
<1>9. KeptReads' => OfReads(n)'
  BY <1>1, Same DEF OfReads, InvAt, KeptReads, There, Served, Fits, Made
<1>10. Data' /\ Shape' BY <1>1, Same DEF Data, Shape
<1>11. IoPlace' = IoPlace BY <1>1 DEF IoPlace, Server
<1>12. InvAt(n)' BY <1>1, <1>7, <1>8, <1>9, Same DEF InvAt
<1>. QED BY <1>6, <1>10, <1>11, <1>12 DEF IInv

\* The addition: unless it overwrites a change, the bits are those of the setter.
LEMMA Adds ==
  ASSUME Data, Doing, Shape, NEW t \in Threads, NEW m \in Place, todo[t] = Path[m], load_add(t)
  PROVE  /\ m \in Loads /\ m_state' \in Word
         /\ Does(t, Path[Then[m]]) /\ Then[m] \in Place
         /\ load' = [load EXCEPT ![t] = Nil]
         /\ UNCHANGED <<role, socket, reads, writes, done, up, met, erased>>
         /\ known \subseteq known' /\ known' \subseteq known \cup {"update lost"}
         /\ "update lost" \notin known' =>
              /\ m_state' \in 0..127
              /\ m \in SetsClosed => \A b \in Marked : ~Is(b)'
              /\ m \in SetsServer => \A b \in Marked : Is(b)' <=> b = "server"
              /\ m \in SetsConnected => \A b \in Marked : Is(b)' <=> b = "connected"
              /\ m \in SetsReady => \A b \in Marked : Is(b)' <=> Is(b) \/ b = "ready"
              /\ m \in SetsWebsocket => \A b \in Marked : Is(b)' <=> Is(b) \/ b = "websocket"
              /\ m \in SetsOther => \A b \in Marked : Is(b)' <=> Is(b)
<1>1. m \in Loads BY At DEF load_add
<1>2. m # "rest" BY <1>1 DEF Loads
<1>3. Head(todo[t]) = Now[m] /\ Tail(todo[t]) = Path[Then[m]] /\ Then[m] \in Place
  BY <1>2, At
<1>4. /\ UNCHANGED <<role, socket, reads, writes, done, up, met, erased>>
      /\ known' = known \cup IF m_state' # Target(Now[m], m_state) THEN {"update lost"} ELSE {}
      /\ load' = [load EXCEPT ![t] = Nil]
      /\ m_state' = exchange_add(m_state, load[t].diff) /\ load[t] # Nil /\ load[t].diff # Nil
  BY <1>3 DEF load_add, ioVars, Record
<1>5. m_state' \in Word
  <2>1. load[t].diff \in Int BY <1>4 DEF Doing
  <2>2. m_state \in Int
    <3>1. m_state \in Word BY DEF Data
    <3>. QED BY <3>1 DEF Word, WordSize
  <2>3. \A a, b \in Int : (a + b) % 256 \in 0..255 OBVIOUS
  <2>4. (m_state + load[t].diff) % 256 \in 0..255 BY <2>1, <2>2, <2>3
  <2>5. m_state' = (m_state + load[t].diff) % 256 BY <1>4 DEF exchange_add, WordSize
  <2>6. Word = 0..255 BY DEF Word, WordSize
  <2>. QED BY <2>4, <2>5, <2>6
<1>6. Does(t, Path[Then[m]]) BY <1>3 DEF load_add, Rest, Does
<1>7. ASSUME "update lost" \notin known'
      PROVE  /\ m_state' \in 0..127
             /\ m \in SetsClosed => \A b \in Marked : ~has(m_state', b)
             /\ m \in SetsServer => \A b \in Marked : has(m_state', b) <=> b = "server"
             /\ m \in SetsConnected => \A b \in Marked : has(m_state', b) <=> b = "connected"
             /\ m \in SetsReady => \A b \in Marked : has(m_state', b) <=> has(m_state, b) \/ b = "ready"
             /\ m \in SetsWebsocket =>
                  \A b \in Marked : has(m_state', b) <=> has(m_state, b) \/ b = "websocket"
             /\ m \in SetsOther => \A b \in Marked : has(m_state', b) <=> has(m_state, b)
  <2>1. "update lost" \notin known /\ m_state' = Target(Now[m], m_state) BY <1>4, <1>7
  <2>2. m_state \in 0..127 BY <2>1 DEF Shape
  <2>. QED BY <1>1, <2>1, <2>2, Marks
<1>. QED BY <1>1, <1>3, <1>4, <1>5, <1>6, <1>7 DEF Is

\* The socket and what is under way on it stay as they are.
LEMMA SameSocket ==
  ASSUME UNCHANGED <<role, socket, reads, done>>
  PROVE  /\ (Open' <=> Open) /\ Ended' = Ended /\ (NoRead' <=> NoRead) /\ (OneRead' <=> OneRead)
         /\ Server' <=> Server
<1>1. (Open' <=> Open) /\ (Server' <=> Server) BY DEF Open, Server
<1>2. Ended' = Ended BY DEF Ended
<1>3. (NoRead' <=> NoRead) /\ (OneRead' <=> OneRead) BY <1>2 DEF NoRead, OneRead
<1>. QED BY <1>1, <1>2, <1>3

LEMMA IoAdds ==
  ASSUME Data, Doing, Shape, NEW n \in IoPlace, InvAt(n), load_add(Io)
  PROVE  IInv'
<1>0. n \in Place /\ todo[Io] = Path[n] /\ Io \in Threads BY PlacesOf DEF InvAt, Threads
<1> DEFINE m == Then[n]
<1>1. /\ n \in Loads /\ m_state' \in Word /\ Does(Io, Path[m]) /\ m \in Place
      /\ load' = [load EXCEPT ![Io] = Nil]
      /\ UNCHANGED <<role, socket, reads, writes, done, up, met, erased>>
      /\ known \subseteq known' /\ known' \subseteq known \cup {"update lost"}
      /\ "update lost" \notin known' =>
           /\ m_state' \in 0..127
           /\ n \in SetsClosed => \A b \in Marked : ~Is(b)'
           /\ n \in SetsServer => \A b \in Marked : Is(b)' <=> b = "server"
           /\ n \in SetsConnected => \A b \in Marked : Is(b)' <=> b = "connected"
           /\ n \in SetsReady => \A b \in Marked : Is(b)' <=> Is(b) \/ b = "ready"
           /\ n \in SetsWebsocket => \A b \in Marked : Is(b)' <=> Is(b) \/ b = "websocket"
           /\ n \in SetsOther => \A b \in Marked : Is(b)' <=> Is(b)
  BY <1>0, Adds
<1>2. /\ n \in SetsConnected =>
           <<n, m>> \in {<<"accept1", "accept2">>, <<"waccept1", "waccept2">>,
                         <<"connect1", "connect2">>, <<"wconnect1", "wconnect2">>}
      /\ n \in SetsServer => m \in {"accept4", "waccept4"}
      /\ n = "ready_read" => m = "read_head"
      /\ n = "connect3" => m = "connect4"
      /\ n = "ws_until" => m = "read_until"
      /\ n = "wconnect3" => m = "wconnect4"
      /\ n = "close2" => m = "close3"
      /\ n = "sweep2" => m = "sweep3"
  BY DEF SetsConnected, SetsServer, Then
<1>3. n \in SetsOther =>
        <<n, m>> \in {<<"accept2", "accept3">>, <<"waccept2", "waccept3">>,
                      <<"connect2", "connect3">>, <<"wconnect2", "wconnect3">>,
                      <<"wconnect4", "wconnect5">>, <<"shake1", "shake2">>,
                      <<"empty1", "empty2">>, <<"sized", "read_data">>, <<"body", "empty2">>}
  <2>1. n \in SetsOther => n \in {"accept2", "waccept2", "connect2", "wconnect2", "wconnect4",
                                  "shake1", "empty1", "sized", "body"}
    BY IoKinds DEF SetsOther, Loads, Calling, SetsConnected, SetsServer, SetsReady, SetsWebsocket,
       SetsClosed, ToRead, Accepting, Beginning, Connected, Messages, Closing, Sweeping,
       Reading, Writing, Telling, Adding, Ending, Shutting
  <2>. QED BY <2>1 DEF Then
<1>4. \/ n \in SetsConnected \/ n \in SetsServer \/ n \in SetsReady \/ n \in SetsWebsocket
      \/ n \in SetsClosed \/ n \in SetsOther
  BY <1>1 DEF SetsOther
<1>5. m \in IoPlace /\ n # "rest"
  <2>1. n # "rest" BY <1>1 DEF Loads
  <2>. QED BY <2>1, IoKinds
<1> HIDE DEF m
<1>6. PICK k \in IoPlace : k = m BY <1>5
<1>7. \A u \in Users : todo'[u] = todo[u] BY <1>1, UsersStay
<1>8. /\ todo'[Io] = Path[m] /\ Doing' /\ IoPlace' = IoPlace /\ (Server' <=> Server)
  <2>1. load \in [Threads -> {Nil} \cup [v : Int, diff : {Nil} \cup Int]] BY DEF Doing
  <2>2. /\ load' \in [Threads -> {Nil} \cup [v : Int, diff : {Nil} \cup Int]]
        /\ load'[Io] = Nil /\ \A u \in Threads \ {Io} : load'[u] = load[u]
    BY <1>0, <1>1, <2>1
  <2>. QED BY <1>0, <1>1, <2>2, Goes DEF Does
<1>9. Data' /\ Shape'
  BY <1>1, SameSocket DEF Data, Shape, Faults
<1>10. Server => OfServer(k)'
  <2> SUFFICES ASSUME Server PROVE OfServer(k)' OBVIOUS
  <2>1. OfServer(n) BY DEF InvAt
  <2>2. /\ m \in Accepting <=> n \in Accepting
        /\ m \in Sweeping <=> n \in Sweeping
        /\ m \in Closing <=> n \in Closing
        /\ n \notin {"close4", "sweep4"}
        /\ m = "connect4" => n = "connect3"
        /\ m # "connect3"
    <3>1. ~(n \in {"connect1", "connect2", "wconnect1", "wconnect2", "wconnect3", "wconnect4",
                   "wconnect5"})
      BY IoKinds
    <3>. QED BY <1>1, <1>2, <1>3, <1>4, <3>1
         DEF Accepting, Sweeping, Closing, SetsConnected, SetsServer, SetsReady, SetsWebsocket,
             SetsClosed
  <2>3. (Open' <=> Open) /\ \A u \in Users : Swept(u)' <=> Swept(u)
    BY <1>1, <1>7, SameSocket DEF Swept
  <2>. QED BY <1>1, <1>6, <1>7, <2>1, <2>2, <2>3 DEF OfServer
<1>11. ~Server /\ Kept' => OfClient(k)'
  <2> SUFFICES ASSUME ~Server, Kept' PROVE OfClient(k)' OBVIOUS
  <2>0. Kept /\ "update lost" \notin known' /\ OfClient(n) BY <1>1 DEF Kept, InvAt
  <2>1. CASE n \in SetsConnected
    <3>1. n \in Beginning BY <2>1, IoKinds DEF Beginning, SetsConnected, Accepting
    <3>. QED BY <1>1, <1>2, <1>6, <2>0, <2>1, <3>1, SameSocket
         DEF OfClient, Marked, Beginning, Connected, ToRead, Broken, Made
  <2>2. CASE n \in SetsReady
    BY <1>1, <1>2, <1>6, <2>0, <2>2, SameSocket
    DEF OfClient, Marked, SetsReady, Beginning, Connected, ToRead, Messages, Broken, Made
  <2>3. CASE n \in SetsWebsocket
    BY <1>1, <1>2, <1>6, <2>0, <2>3, SameSocket
    DEF OfClient, Marked, SetsWebsocket, Beginning, Connected, ToRead, Messages, Broken, Made
  <2>4. CASE n \in SetsClosed
    <3>1. n = "close2" BY <2>4, IoKinds DEF SetsClosed, Sweeping
    <3>. QED BY <1>1, <1>2, <1>6, <2>0, <2>4, <3>1, SameSocket
         DEF OfClient, Marked, Beginning, Connected, ToRead, Closing, Broken, Made
  <2>5. CASE n \in SetsOther
    <3>1. n \notin {"accept2", "waccept2", "shake1"} BY <2>0, IoKinds DEF OfClient, Accepting
    <3>. QED BY <1>1, <1>3, <1>6, <2>0, <2>5, <3>1, SameSocket
         DEF OfClient, Marked, Beginning, Connected, ToRead, Messages, Broken, Made
  <2>6. CASE n \in SetsServer BY <2>6, IoKinds DEF SetsServer, Accepting
  <2>. QED BY <1>4, <2>1, <2>2, <2>3, <2>4, <2>5, <2>6
<1>12. KeptReads' => OfReads(k)'
  <2> SUFFICES ASSUME KeptReads' PROVE OfReads(k)' OBVIOUS
  <2>0. KeptReads /\ "update lost" \notin known' /\ OfReads(n) BY <1>1 DEF KeptReads, InvAt
  <2>7. n \in SetsConnected \cup SetsServer => (There' => NoRead)
    BY <1>1, <2>0, SameSocket DEF OfReads, SetsConnected, SetsServer, Accepting, Beginning, There
  <2>8. NoRead => DOMAIN reads' = {} /\ Ended' = {}
    <3>1. DOMAIN <<>> = {} OBVIOUS
    <3>. QED BY <1>1, <3>1, SameSocket DEF NoRead
  <2>1. CASE n \in SetsConnected
    BY <1>1, <1>2, <1>6, <2>0, <2>1, <2>7, <2>8, SameSocket
    DEF OfReads, Accepting, Beginning, Connected, ToRead, Messages, Made
  <2>2. CASE n \in SetsReady
    BY <1>1, <1>2, <1>6, <2>0, <2>2, SameSocket
    DEF OfReads, Marked, SetsReady, Accepting, Beginning, Connected, ToRead, Messages, Made,
        There, Served, Fits
  <2>3. CASE n \in SetsWebsocket
    BY <1>1, <1>2, <1>6, <2>0, <2>3, SameSocket
    DEF OfReads, Marked, SetsWebsocket, Accepting, Beginning, Connected, ToRead, Messages, Made,
        There, Served, Fits
  <2>4. CASE n \in SetsClosed
    BY <1>1, <1>2, <1>6, <2>0, <2>4, SameSocket
    DEF OfReads, Marked, SetsClosed, Accepting, Beginning, Connected, ToRead, Messages, Made,
        There, Served
  <2>5. CASE n \in SetsOther
    BY <1>1, <1>3, <1>6, <2>0, <2>5, SameSocket
    DEF OfReads, Marked, Accepting, Beginning, Connected, ToRead, Messages, Made,
        There, Served, Fits
  <2>6. CASE n \in SetsServer
    BY <1>1, <1>2, <1>6, <2>0, <2>6, <2>7, <2>8, SameSocket
    DEF OfReads, SetsServer, Accepting, Beginning, Connected, ToRead, Messages, Made
  <2>. QED BY <1>4, <2>1, <2>2, <2>3, <2>4, <2>5, <2>6
<1>13. InvAt(k)' BY <1>6, <1>8, <1>10, <1>11, <1>12 DEF InvAt
<1>. QED BY <1>8, <1>9, <1>13 DEF IInv

-----------------------------------------------------------------------------
(* The io thread and the connector *)

\* What does not depend on the socket.
LEMMA SameWord ==
  ASSUME UNCHANGED <<role, m_state>>
  PROVE  /\ Server' <=> Server
         /\ (Is("server")' <=> Is("server")) /\ (Is("connected")' <=> Is("connected"))
         /\ (Is("ready")' <=> Is("ready")) /\ (Is("websocket")' <=> Is("websocket"))
BY DEF Server, Is

\* Completions are told apart.
LEMMA Kinds ==
  /\ Made.of = "connect" /\ Made.what = "ok"
  /\ \A kind \in ReadKinds \cup {"write"} :
       Failed(kind).of = kind /\ Failed(kind).what = "error" /\ Failed(kind) # Made
  /\ "connect" \notin ReadKinds /\ "write" \notin ReadKinds
BY DEF Made, Failed, ReadKinds

LEMMA IoShutsDown ==
  ASSUME Data, Doing, Shape, NEW n \in IoPlace, InvAt(n), shutdown(Io)
  PROVE  IInv'
<1>1. /\ n \in Place /\ todo[Io] = Path[n] /\ n \in {"close3", "sweep3"}
      /\ Tail(todo[Io]) = Path[Then[n]] /\ ~Loading(Io)
  BY PlacesOf, At DEF shutdown, Threads, InvAt, Shutting, Loads, Calling
<1>2. UNCHANGED <<role, m_state, load, up, met, erased, counts, known>> /\ close_socket("none")
  BY DEF shutdown
<1>3. PICK m \in {"close4", "sweep4"} : Does(Io, Path[m]) /\ m = Then[n]
  <2>1. Then["close3"] = "close4" /\ Then["sweep3"] = "sweep4" BY DEF Then
  <2>. QED BY <1>1, <2>1 DEF shutdown, Rest, Does
<1>4. m \in IoPlace /\ m \in Place /\ (m = "close4" <=> n = "close3")
  <2>1. Then["close3"] = "close4" /\ Then["sweep3"] = "sweep4" BY DEF Then
  <2>. QED BY <1>1, <1>3, <2>1, IoKinds, PlacesOf
<1>5. Passes(Io, m) BY <1>1, <1>2, <1>3 DEF Passes
<1>6. \A u \in Users : todo'[u] = todo[u] BY <1>3, UsersStay
<1>7. /\ done' \in Seq(Completion) /\ reads' = <<>> /\ writes' = 0 /\ socket' = "none"
      /\ \A i \in DOMAIN done : i \in DOMAIN done' /\ done'[i] = done[i]
      /\ \A i \in DOMAIN done' : \/ i \in DOMAIN done
                                 \/ /\ done'[i].what = "error"
                                    /\ socket # "connecting" => done'[i].of # "connect"
  BY <1>2, Aborts
<1>8. ~Open' /\ reads' \in Seq(ReadKinds) BY <1>7 DEF Open
<1>9. Data' BY <1>2, <1>7, <1>8 DEF Data
<1>10. Shape' BY <1>2, <1>7, <1>8, SameWord DEF Shape
<1>11. Server => OfServer(m)'
  BY <1>1, <1>2, <1>3, <1>4, <1>6, SameWord DEF OfServer, InvAt, Swept, Accepting, Sweeping, Closing
<1>12. ~Server /\ Kept' => OfClient(m)'
  <2> SUFFICES ASSUME ~Server, Kept' PROVE OfClient(m)' OBVIOUS
  <2>1. OfClient(n) BY <1>2 DEF Kept, InvAt
  <2>2. n = "close3" /\ m = "close4" BY <1>1, <1>4, IoKinds DEF Sweeping
  <2>3. \A i \in DOMAIN done' : done'[i] = Made => i \in DOMAIN done /\ done[i] = Made
    BY <1>7, Kinds
  <2>. QED BY <1>2, <1>7, <2>1, <2>2, <2>3, SameWord
       DEF OfClient, ToRead, Accepting, Beginning, Connected, Messages, Closing
<1>13. KeptReads' => OfReads(m)'
  BY <1>3, <1>8 DEF OfReads, There, Accepting, Beginning
<1>. QED BY <1>4, <1>5, <1>9, <1>10, <1>11, <1>12, <1>13, IoGoes

LEMMA IoConnects ==
  ASSUME Data, Doing, Shape, NEW n \in IoPlace, InvAt(n), connect(Io)
  PROVE  IInv'
<1>1. /\ n \in Place /\ todo[Io] = Path[n] /\ n = "again" /\ Then[n] = "rest"
      /\ Tail(todo[Io]) = Path[Then[n]] /\ ~Loading(Io)
  BY PlacesOf, At DEF connect, Threads, InvAt, Loads, Calling, Then
<1>0. ~Server BY <1>1, IoKinds
<1>2. /\ UNCHANGED <<role, m_state, load, up, met, erased, counts>>
      /\ known \subseteq known' /\ known' \subseteq Faults
      /\ "update lost" \in known' => "update lost" \in known
      /\ "cut" \notin known' => ~Is("connected") /\ Made \notin Range(done)
  BY DEF connect, Record, Faults, Data, Made
<1>3. Does(Io, Path["rest"]) BY <1>1 DEF connect, Rest, Does
<1>4. "rest" \in IoPlace /\ "rest" \in Place BY <1>1, IoKinds, PlacesOf
<1>5. Passes(Io, "rest") BY <1>1, <1>2, <1>3 DEF Passes
<1>6. PICK next \in {"connecting", "none"} : close_socket(next) BY DEF connect
<1>7. /\ done' \in Seq(Completion) /\ reads' = <<>> /\ writes' = 0 /\ socket' = next
      /\ \A i \in DOMAIN done : i \in DOMAIN done' /\ done'[i] = done[i]
      /\ \A i \in DOMAIN done' : \/ i \in DOMAIN done
                                 \/ /\ done'[i].what = "error"
                                    /\ socket # "connecting" => done'[i].of # "connect"
  BY <1>6, Aborts
<1>8. ~Open' /\ reads' \in Seq(ReadKinds) BY <1>6, <1>7 DEF Open
<1>9. Data' BY <1>2, <1>6, <1>7, <1>8 DEF Data
<1>10. Shape' BY <1>0, <1>2, <1>7, <1>8, SameWord DEF Shape
<1>11. "cut" \notin known' => \A i \in DOMAIN done : done[i] # Made
  BY <1>2 DEF Range
<1>12. ~Server /\ Kept' => OfClient("rest")'
  <2> SUFFICES ASSUME Kept' PROVE OfClient("rest")' OBVIOUS
  <2>1. Kept /\ "cut" \notin known' /\ OfClient(n) BY <1>0, <1>2 DEF Kept, InvAt
  <2>2. ~Is("connected") /\ ~up BY <1>1, <1>2, <2>1 DEF OfClient
  <2>3. \A i \in DOMAIN done' : done'[i] # Made
    BY <1>7, <1>11, <2>1 DEF Made
  <2>. QED BY <1>1, <1>2, <1>7, <2>1, <2>2, <2>3, SameWord
       DEF OfClient, Beginning, Connected
<1>13. KeptReads' => OfReads("rest")'
  BY <1>8 DEF OfReads, There, Accepting, Beginning
<1>. QED BY <1>0, <1>4, <1>5, <1>9, <1>10, <1>12, <1>13, IoGoes

\* A write begins, or fails at once.
WriteBegins ==
  \/ Open /\ writes' = writes + 1 /\ UNCHANGED done
  \/ ~Open /\ done' = Append(done, Failed("write")) /\ UNCHANGED writes
LEMMA WriteEffect ==
  ASSUME Data, WriteBegins, UNCHANGED <<reads, socket>>
  PROVE  /\ done' \in Seq(Completion) /\ writes' \in Nat
         /\ Ended' = Ended /\ (Open' <=> Open) /\ (NoRead' <=> NoRead)
         /\ \A i \in DOMAIN done : i \in DOMAIN done' /\ done'[i] = done[i]
         /\ \A i \in DOMAIN done' : i \in DOMAIN done \/ (done'[i] # Made /\ done'[i].of = "write")
         /\ Ended \subseteq DOMAIN done
<1>1. Open' <=> Open BY DEF Open
<1>2. Ended \subseteq DOMAIN done BY DEF Ended
<1>3. CASE UNCHANGED done /\ writes' = writes + 1
  <2>1. Ended' = Ended BY <1>3 DEF Ended
  <2>. QED BY <1>1, <1>2, <1>3, <2>1 DEF NoRead, Data
<1>4. CASE done' = Append(done, Failed("write")) /\ UNCHANGED writes
  <2>1. Failed("write") \in Completion /\ Failed("write").of \notin ReadKinds
    BY DEF Failed, Completion, ReadKinds
  <2>2. /\ done' \in Seq(Completion) /\ Ended' = Ended
        /\ DOMAIN done' = DOMAIN done \cup {Len(done) + 1}
        /\ done'[Len(done) + 1] = Failed("write")
        /\ \A i \in DOMAIN done : done'[i] = done[i]
    BY <1>4, <2>1, Joins
  <2>. QED BY <1>1, <1>2, <1>4, <2>2, Kinds DEF NoRead, Data
<1>. QED BY <1>3, <1>4 DEF WriteBegins

LEMMA IoWrites ==
  ASSUME Data, Doing, Shape, NEW n \in IoPlace, InvAt(n), async_write(Io)
  PROVE  IInv'
<1>1. /\ n \in Place /\ todo[Io] = Path[n] /\ n \in {"wconnect5", "shake2"}
      /\ Tail(todo[Io]) = Path[Then[n]] /\ ~Loading(Io)
      /\ Then["wconnect5"] = "ws_until" /\ Then["shake2"] = "ready_read"
  <2>1. n # "send2" BY IoKinds DEF ToRead, Accepting, Beginning, Connected, Messages, Closing, Sweeping
  <2>. QED BY <2>1, PlacesOf, At DEF async_write, Threads, InvAt, Loads, Calling, Writing, Then
<1>2. UNCHANGED <<role, m_state, load, socket, reads, up, met, erased, counts, known>>
  BY DEF async_write
<1>3. PICK m \in {"ws_until", "ready_read"} : Does(Io, Path[m]) /\ m = Then[n]
  BY <1>1 DEF async_write, Rest, Does
<1>4. m \in IoPlace /\ m \in Place /\ (m = "ws_until" <=> n = "wconnect5")
  BY <1>1, <1>3, IoKinds, PlacesOf
<1>5. Passes(Io, m) BY <1>1, <1>2, <1>3 DEF Passes
<1>6. \A u \in Users : todo'[u] = todo[u] BY <1>3, UsersStay
<1>7. WriteBegins BY DEF WriteBegins, async_write, Open
<1>8. /\ done' \in Seq(Completion) /\ writes' \in Nat
      /\ Ended' = Ended /\ (Open' <=> Open) /\ (NoRead' <=> NoRead)
      /\ \A i \in DOMAIN done : i \in DOMAIN done' /\ done'[i] = done[i]
      /\ \A i \in DOMAIN done' : i \in DOMAIN done \/ (done'[i] # Made /\ done'[i].of = "write")
      /\ Ended \subseteq DOMAIN done
  BY <1>2, <1>7, WriteEffect
<1>9. Data' BY <1>2, <1>8 DEF Data
<1>10. Shape' BY <1>2, <1>8, SameWord DEF Shape
<1>11. Server => OfServer(m)'
  BY <1>1, <1>2, <1>3, <1>4, <1>6, <1>8, SameWord DEF OfServer, InvAt, Swept, Accepting, Sweeping, Closing
<1>12. ~Server /\ Kept' => OfClient(m)'
  BY <1>1, <1>2, <1>3, <1>4, <1>8, SameWord DEF OfClient, InvAt, Kept, ToRead, Accepting,
     Beginning, Connected, Messages, Closing, Broken
<1>13. KeptReads' => OfReads(m)'
  BY <1>1, <1>2, <1>3, <1>4, <1>8, SameWord DEF OfReads, InvAt, KeptReads, There, Served, Fits, ToRead,
     Accepting, Beginning, Connected, Messages
<1>. QED BY <1>4, <1>5, <1>9, <1>10, <1>11, <1>12, <1>13, IoGoes

\* A read begins, or fails at once.
LEMMA IoReads ==
  ASSUME Data, Doing, Shape, NEW n \in IoPlace, InvAt(n), async_read(Io)
  PROVE  IInv'
<1>1. /\ n \in Place /\ todo[Io] = Path[n] /\ n \in {"read_head", "read_data", "read_until"}
      /\ Head(todo[Io]) = Now[n] /\ Tail(todo[Io]) = Path["rest"] /\ ~Loading(Io)
  <2>1. n \in Place /\ todo[Io] = Path[n] /\ n \in Reading /\ n # "rest" /\ ~Loading(Io)
    BY PlacesOf, At DEF async_read, Threads, InvAt, Loads, Calling, Reading
  <2>2. \A m \in Reading : Then[m] = "rest" BY DEF Reading, Then
  <2>. QED BY <2>1, <2>2, At DEF Threads, Reading
<1>2. PICK kind \in ReadKinds :
        /\ Now[n][2] = kind /\ (n = "read_until" <=> kind = "until")
        /\ \/ Open /\ reads' = Append(reads, kind) /\ UNCHANGED done
           \/ ~Open /\ done' = Append(done, Failed(kind)) /\ UNCHANGED reads
  <2>1. /\ Now["read_head"][2] = "head" /\ Now["read_data"][2] = "data"
        /\ Now["read_until"][2] = "until"
    BY DEF Now
  <2>. QED BY <1>1, <2>1 DEF async_read, Open, ReadKinds
<1>3. /\ UNCHANGED <<role, m_state, load, socket, writes, up, met, erased, counts>>
      /\ known \subseteq known' /\ known' \subseteq known \cup {"late read"}
      /\ "late read" \notin known' /\ ~Server /\ Open => Is("connected")
  <2>1. Server <=> role[1] = "server" BY DEF Server
  <2>2. role[1] = "client" <=> ~Server
    BY <2>1, PeerConstants DEF Data
  <2>. QED BY <2>2 DEF async_read, Record, Open
<1>4. Does(Io, Path["rest"]) BY <1>1 DEF async_read, Rest, Does
<1>5. "rest" \in IoPlace /\ "rest" \in Place BY IoKinds, PlacesOf
<1>6. Passes(Io, "rest") BY <1>1, <1>3, <1>4 DEF Passes
<1>7. \A u \in Users : todo'[u] = todo[u] BY <1>4, UsersStay
<1>8. (Open' <=> Open) BY <1>3 DEF Open
<1>9. CASE Open /\ reads' = Append(reads, kind) /\ UNCHANGED done
  <2>1. reads' \in Seq(ReadKinds) /\ reads' # <<>> BY <1>9 DEF Data
  <2>2. Data' BY <1>3, <1>9, <2>1 DEF Data, Faults
  <2>3. Shape' BY <1>3, <1>8, <1>9, SameWord DEF Shape
  <2>4. Server => OfServer("rest")'
    BY <1>1, <1>3, <1>7, <1>8, SameWord DEF OfServer, InvAt, Swept, Accepting, Sweeping, Closing
  <2>5. ~Server /\ Kept' => OfClient("rest")'
    BY <1>1, <1>3, <1>8, <1>9, <2>1, SameWord DEF OfClient, InvAt, Kept, ToRead, Messages, Connected,
       Beginning, Made, Closing
  <2>6. KeptReads' => OfReads("rest")'
    <3> SUFFICES ASSUME KeptReads' PROVE OfReads("rest")' OBVIOUS
    <3>1. KeptReads /\ Kept /\ "late read" \notin known' /\ OfReads(n)
      BY <1>3 DEF KeptReads, Kept, InvAt
    <3>2. \A i \in DOMAIN done : done[i] # Made
      <4>1. CASE Server BY <4>1, Kinds DEF Shape
      <4>2. CASE ~Server
        <5>1. Is("connected") /\ OfClient(n) BY <1>3, <1>9, <3>1, <4>2 DEF InvAt
        <5>. QED BY <5>1 DEF OfClient
      <4>. QED BY <4>1, <4>2
    <3>3. There' => There BY <1>3, <1>8, SameWord DEF There, Served
    <3>4. There => NoRead /\ Fits(kind)
      BY <1>1, <1>2, <3>1 DEF OfReads, ToRead, Messages, Connected, Fits
    <3>5. Ended' = Ended BY <1>9 DEF Ended
    <3>6. NoRead => /\ reads' = <<kind>> /\ Len(reads') = 1 /\ Ended' = {}
                    /\ \A i \in DOMAIN reads' : reads'[i] = kind
      BY <1>9, <3>5 DEF NoRead
    <3>7. There' => OneRead' BY <3>3, <3>4, <3>6 DEF OneRead
    <3>8. Fits(kind) => Fits(kind)' BY <1>3, SameWord DEF Fits
    <3>9. There' => /\ \A i \in DOMAIN reads' : Is("ready")' \/ (reads'[i] = "until" /\ Is("websocket")')
                    /\ Ended' = {}
      BY <3>3, <3>4, <3>6, <3>8 DEF Fits
    <3>. QED BY <1>9, <3>2, <3>7, <3>9
         DEF OfReads, Accepting, Beginning, ToRead, Messages, Connected, Fits
  <2>. QED BY <1>5, <1>6, <2>2, <2>3, <2>4, <2>5, <2>6, IoGoes
<1>10. CASE ~Open /\ done' = Append(done, Failed(kind)) /\ UNCHANGED reads
  <2>1. Failed(kind) \in Completion /\ Failed(kind).of = kind /\ Failed(kind).what = "error"
    BY Kinds DEF Failed, Completion, ReadKinds
  <2>2. /\ done' \in Seq(Completion)
        /\ DOMAIN done' = DOMAIN done \cup {Len(done) + 1}
        /\ done'[Len(done) + 1] = Failed(kind)
        /\ \A i \in DOMAIN done : done'[i] = done[i]
        /\ Ended' = Ended \cup {Len(done) + 1}
    BY <1>10, <2>1, Joins
  <2>3. Failed(kind) # Made /\ kind # "connect" BY Kinds
  <2>4. Data' BY <1>3, <1>10, <2>2 DEF Data, Faults
  <2>5. Shape' BY <1>3, <1>8, <1>10, <2>1, <2>2, <2>3, SameWord DEF Shape
  <2>6. Server => OfServer("rest")'
    BY <1>1, <1>3, <1>7, <1>8, SameWord DEF OfServer, InvAt, Swept, Accepting, Sweeping, Closing
  <2>7. ~Server /\ Kept' => OfClient("rest")'
    <3> SUFFICES ASSUME ~Server, Kept' PROVE OfClient("rest")' OBVIOUS
    <3>1. OfClient(n) BY <1>3 DEF Kept, InvAt
    <3>2. /\ Ended' # {} /\ Len(done) + 1 \in DOMAIN done'
          /\ done'[Len(done) + 1].what = "error" /\ done'[Len(done) + 1].of # "connect"
      BY <2>1, <2>2, <2>3
    <3>. QED BY <1>1, <1>3, <1>8, <1>10, <2>1, <2>2, <2>3, <3>1, <3>2, SameWord
         DEF OfClient, Beginning, Connected, Messages, ToRead, Closing, Broken
  <2>8. KeptReads' => OfReads("rest")'
    BY <1>8, <1>10 DEF OfReads, Accepting, Beginning, There
  <2>. QED BY <1>5, <1>6, <2>4, <2>5, <2>6, <2>7, <2>8, IoGoes
<1>. QED BY <1>2, <1>9, <1>10

-----------------------------------------------------------------------------
(* The other threads *)

\* A user is somewhere, and the io thread stays where it is.
LEMMA UserIsAt ==
  ASSUME Doing, NEW u \in Users
  PROVE  \E m \in UserPlace : m \in Place /\ u \in Threads /\ u # Io /\ todo[u] = Path[m]
BY PlacesOf, IoAssumption DEF Doing, Threads

\* What users are at, in a server and in a client.
LEMMA UserKinds ==
  /\ {"rest", "send1", "send2", "active", "live"} \subseteq UserPlace
  /\ Server => {"inactive"} \cup Sweeping \subseteq UserPlace
  /\ ~Server => "again" \in UserPlace
  /\ \A m \in UserPlace : m \in Sweeping \cup {"inactive"} => Server
  /\ \A m \in UserPlace : m = "again" => ~Server
  /\ \A m \in UserPlace \ {"rest"} : Then[m] \in UserPlace
  /\ \A m \in UserPlace : m \in {"rest", "send1", "send2", "active", "live", "inactive", "again"}
                                \cup Sweeping
BY DEF UserPlace, Sweeping, Then

\* The lists of the sweep are those of no other place.
LEMMA Differ ==
  ASSUME NEW m \in Place, NEW k \in Sweeping, Path[m] = Path[k]
  PROVE  m = k
<1>1. k \in Place /\ k # "rest" BY Places DEF Sweeping
<1>2. m # "rest" BY <1>1, Paths
<1>3. Now[m] = Now[k] /\ Path[Then[m]] = Path[Then[k]] /\ Then[m] \in Place /\ Then[k] \in Place
  BY <1>1, <1>2, Paths
<1>4. ASSUME NEW j \in Place, Path[j] = Path["sweep4"] PROVE j = "sweep4"
  <2>1. "sweep4" \in Place /\ j # "rest" BY <1>4, Paths, Places
  <2>2. Now[j] = Now["sweep4"] BY <1>4, <2>1, Paths
  <2>. QED BY <2>1, <2>2, Operations
<1>5. CASE k = "sweep4" BY <1>4, <1>5
<1>6. CASE k = "sweep3"
  <2>1. m \in {"close3", "sweep3"} /\ Then["sweep3"] = "sweep4" /\ Then["close3"] = "close4"
    BY <1>1, <1>2, <1>3, <1>6, Operations DEF Shutting, Then
  <2>2. Then[m] = "sweep4" BY <1>3, <1>4, <1>6, <2>1
  <2>. QED BY <1>6, <2>1, <2>2
<1>7. CASE k = "sweep1"
  <2>1. m \in {"close1", "sweep1"} /\ Then["sweep1"] = "sweep4" /\ Then["close1"] = "close4"
    BY <1>1, <1>2, <1>3, <1>7, Operations DEF Ending, Then
  <2>2. Then[m] = "sweep4" BY <1>3, <1>4, <1>7, <2>1
  <2>. QED BY <1>7, <2>1, <2>2
<1>8. CASE k = "sweep2"
  <2>1. Then["sweep2"] = "sweep3" /\ Now["sweep2"] = set_closed BY DEF Then, Now
  <2>2. Then[m] = "sweep3"
    <3>1. Path[Then[m]] = Path["sweep3"] /\ "sweep3" \in Place BY <1>3, <1>8, <2>1, Places
    <3>2. Then[m] # "rest" BY <3>1, Paths
    <3>3. Now[Then[m]] = Now["sweep3"] /\ Path[Then[Then[m]]] = Path[Then["sweep3"]]
          /\ Then[Then[m]] \in Place
      BY <1>3, <3>1, <3>2, Paths
    <3>4. Then[m] \in {"close3", "sweep3"} /\ Then["sweep3"] = "sweep4" /\ Then["close3"] = "close4"
      BY <1>3, <3>1, <3>2, <3>3, Operations DEF Shutting, Then
    <3>5. Then[Then[m]] = "sweep4" BY <1>4, <3>3, <3>4
    <3>. QED BY <3>4, <3>5
  <2>3. m = "sweep2" BY <1>2, <2>2, Places DEF Then
  <2>. QED BY <1>8, <2>3
<1>. QED BY <1>5, <1>6, <1>7, <1>8 DEF Sweeping

\* A user moves to m: whether it sweeps.
LEMMA UserMoves ==
  ASSUME Doing, NEW u \in Users, NEW m \in Place, Does(u, Path[m])
  PROVE  /\ todo'[u] = Path[m] /\ \A v \in Users \ {u} : todo'[v] = todo[v]
         /\ todo'[Io] = todo[Io]
         /\ m \in Sweeping => Swept(u)'
         /\ m \notin Sweeping => ~Swept(u)'
         /\ \A v \in Users \ {u} : Swept(v)' <=> Swept(v)
<1>1. u \in Threads /\ Io \in Threads /\ u # Io /\ Users \subseteq Threads
  BY IoAssumption DEF Threads
<1>2. /\ todo'[u] = Path[m] /\ \A v \in Users \ {u} : todo'[v] = todo[v]
      /\ todo'[Io] = todo[Io]
  BY <1>1 DEF Doing, Does
<1>3. m \in Sweeping => Swept(u)' BY <1>2 DEF Swept
<1>4. \A v \in Users \ {u} : Swept(v)' <=> Swept(v) BY <1>2 DEF Swept
<1>5. m \notin Sweeping => ~Swept(u)' BY <1>2, Differ, PlacesOf, Places DEF Swept, Sweeping
<1>. QED BY <1>2, <1>3, <1>4, <1>5

\* A user at another place is not about to erase the peer.
LEMMA NotErasing ==
  ASSUME NEW u, NEW m \in Place, todo[u] = Path[m], m # "sweep4"
  PROVE  todo[u] # Path["sweep4"]
BY Differ DEF Sweeping

\* A user's step that changes neither the word nor the socket.
LEMMA UserSteps ==
  ASSUME Data, Doing, Shape, NEW n \in IoPlace, InvAt(n), NEW u \in Users, NEW m \in UserPlace,
         Passes(u, m), UNCHANGED <<m_state, socket, reads, writes, done, up, erased, known>>,
         met' \in BOOLEAN,
         m \in Sweeping => Swept(u) \/ n \notin Accepting \cup Sweeping,
         todo[u] # Path["sweep4"]
  PROVE  IInv'
<1>1. m \in Place /\ Does(u, Path[m]) /\ UNCHANGED role BY PlacesOf DEF Passes
<1>2. /\ todo'[u] = Path[m] /\ \A v \in Users \ {u} : todo'[v] = todo[v]
      /\ m \in Sweeping => Swept(u)'
      /\ m \notin Sweeping => ~Swept(u)'
      /\ \A v \in Users \ {u} : Swept(v)' <=> Swept(v)
  BY <1>1, UserMoves
<1>3. Data' /\ Shape' BY <1>1, Same DEF Data, Shape
<1>4. Server => OfServer(n)'
  <2> SUFFICES ASSUME Server PROVE OfServer(n)' OBVIOUS
  <2>1. OfServer(n) BY DEF InvAt
  <2>2. (\E v \in Users : todo[v] = Path["sweep4"]) => \E v \in Users : todo'[v] = Path["sweep4"]
    BY <1>2
  <2>3. n \in Accepting \cup Sweeping => \A v \in Users : ~Swept(v)'
    BY <1>2, <2>1 DEF OfServer
  <2>. QED BY <1>1, <2>1, <2>2, <2>3, Same DEF OfServer
<1>5. ~Server /\ Kept' => OfClient(n)'
  BY <1>1, Same DEF OfClient, InvAt, Kept, Broken, Made
<1>6. KeptReads' => OfReads(n)'
  BY <1>1, Same DEF OfReads, InvAt, KeptReads, There, Served, Fits, Made
<1>7. todo[Io] = Path[n] BY DEF InvAt
<1>. QED BY <1>3, <1>4, <1>5, <1>6, <1>7, UserGoes

LEMMA UserCloses ==
  ASSUME Data, Doing, Shape, NEW n \in IoPlace, InvAt(n), NEW u \in Users, close(u)
  PROVE  IInv'
<1>1. PICK m \in UserPlace : m \in Place /\ u \in Threads /\ u # Io /\ todo[u] = Path[m]
  BY UserIsAt
<1>2. m = "sweep1" /\ Tail(todo[u]) = Path["sweep4"] /\ ~Loading(u) /\ Swept(u)
  <2>1. m \in Ending /\ m # "rest" /\ ~Loading(u) BY <1>1, At DEF close, Ending, Loads, Calling
  <2>2. m = "sweep1" BY <1>1, <2>1, UserKinds DEF Ending, Sweeping
  <2>3. Then["sweep1"] = "sweep4" BY DEF Then
  <2>. QED BY <1>1, <2>1, <2>2, <2>3, At DEF Swept, Sweeping
<1>3. PICK k \in {"sweep2", "sweep4"} : Does(u, Path[k])
  <2>1. Path["sweep2"] = <<set_closed, <<"shutdown", {}>> >> \o Path["sweep4"]
    BY Joined DEF Path
  <2>2. <<>> \o Path["sweep4"] = Path["sweep4"] BY DEF Path
  <2>3. Does(u, (IF m_state = 0 THEN <<>> ELSE <<set_closed, <<"shutdown", {}>> >>)
                \o Path["sweep4"])
    BY <1>2 DEF close
  <2>. QED BY <2>1, <2>2, <2>3
<1>4. UNCHANGED <<role, m_state, load, socket, reads, writes, done, up, met, erased, known>>
  BY DEF close, ioVars
<1>5. k \in UserPlace BY <1>1, <1>2, UserKinds DEF Sweeping
<1>6. Passes(u, k) BY <1>2, <1>3, <1>4 DEF Passes
<1>7. todo[u] # Path["sweep4"] BY <1>1, <1>2, NotErasing
<1>8. met' \in BOOLEAN BY <1>4 DEF Data
<1>. QED BY <1>2, <1>4, <1>5, <1>6, <1>7, <1>8, UserSteps

\* The calls that a user makes.
LEMMA UserCalls ==
  ASSUME Data, Doing, Shape, NEW n \in IoPlace, InvAt(n), NEW u \in Users,
         async_connect(u) \/ send(u) \/ handle_message(u) \/ clean_inactive_peer(u)
  PROVE  IInv'
<1>1. PICK m \in UserPlace : m \in Place /\ u \in Threads /\ u # Io /\ todo[u] = Path[m]
  BY UserIsAt
<1>2. /\ Free(u)
      /\ UNCHANGED <<role, m_state, load, socket, reads, writes, done, up, met, erased, known>>
  BY DEF async_connect, send, handle_message, clean_inactive_peer, ioVars
<1>3. m = "rest" /\ ~Loading(u) BY <1>1, <1>2, At DEF Loads
<1>4. todo[u] # Path["sweep4"] BY <1>1, <1>3, NotErasing
<1>5. /\ Path["again"] = <<<<"connect", {}>> >> /\ Path["send1"] = async_send
      /\ Path["active"] = <<set_peer_active(TRUE)>> /\ Path["live"] = <<set_peer_live(TRUE)>>
      /\ Path["inactive"] = <<set_peer_active(FALSE)>>
      /\ Path["sweep1"] = <<<<"close", {}>>, <<"erase", {}>> >>
  <2>1. /\ Path["again"] = <<<<"connect", {}>> >> /\ Path["send1"] = async_send
        /\ Path["sweep1"] = <<<<"close", {}>>, <<"erase", {}>> >>
    BY DEF Path, async_send
  <2> DEFINE Act == set_peer_active(TRUE)
             Liv == set_peer_live(TRUE)
             Ina == set_peer_active(FALSE)
  <2>2. Path["active"] = <<Act>> /\ Path["live"] = <<Liv>> /\ Path["inactive"] = <<Ina>>
    BY DEF Path
  <2>. QED BY <2>1, <2>2
<1>6. met' \in BOOLEAN BY <1>2 DEF Data
<1>7. CASE async_connect(u)
  <2>1. role[1] = "client" /\ Does(u, Path["again"]) BY <1>5, <1>7 DEF async_connect
  <2>2. ~Server BY <2>1 DEF Server
  <2>3. "again" \in UserPlace BY <2>2, UserKinds
  <2>4. Passes(u, "again") BY <1>2, <1>3, <2>1 DEF Passes
  <2>. QED BY <1>2, <1>4, <1>6, <2>3, <2>4, UserSteps DEF Sweeping
<1>8. CASE send(u)
  <2>1. Does(u, Path["send1"]) BY <1>5, <1>8 DEF send
  <2>2. Passes(u, "send1") BY <1>2, <1>3, <2>1 DEF Passes
  <2>3. "send1" \in UserPlace BY UserKinds
  <2>. QED BY <1>2, <1>4, <1>6, <2>2, <2>3, UserSteps DEF Sweeping
<1>9. CASE handle_message(u)
  <2>1. PICK k \in {"active", "live"} : Does(u, Path[k])
    <3>1. \E change \in {set_peer_active(TRUE), set_peer_live(TRUE)} : Does(u, <<change>>)
      BY <1>9 DEF handle_message
    <3>2. Does(u, <<set_peer_active(TRUE)>>) \/ Does(u, <<set_peer_live(TRUE)>>) BY <3>1
    <3>. QED BY <1>5, <3>2
  <2>2. Passes(u, k) BY <1>2, <1>3, <2>1 DEF Passes
  <2>3. k \in UserPlace BY UserKinds
  <2>. QED BY <1>2, <1>4, <1>6, <2>2, <2>3, UserSteps DEF Sweeping
<1>10. CASE clean_inactive_peer(u)
  <2>1. role[1] = "server" /\ up BY <1>10 DEF clean_inactive_peer
  <2>2. Server BY <2>1 DEF Server
  <2>3. n \notin Accepting \cup Sweeping BY <2>1, <2>2 DEF InvAt, OfServer
  <2>4. PICK k \in {"inactive", "sweep1"} : Does(u, Path[k])
    BY <1>5, <1>10 DEF clean_inactive_peer
  <2>5. Passes(u, k) BY <1>2, <1>3, <2>4 DEF Passes
  <2>6. k \in UserPlace BY <2>2, UserKinds DEF Sweeping
  <2>. QED BY <1>2, <1>4, <1>6, <2>3, <2>5, <2>6, UserSteps
<1>. QED BY <1>7, <1>8, <1>9, <1>10

\* What a user does not call.
LEMMA UserNever ==
  ASSUME Doing, NEW u \in Users
  PROVE  ~async_read(u) /\ ~notify_connect(u) /\ ~notify_close(u) /\ ~on_read(u) /\ ~add_peer(u)
<1>1. PICK m \in UserPlace : m \in Place /\ u \in Threads /\ u # Io /\ todo[u] = Path[m]
  BY UserIsAt
<1>2. m \notin Reading \cup Adding \cup {"connect4", "close4", "empty2"}
  BY <1>1, UserKinds DEF Reading, Adding, Sweeping
<1>. QED BY <1>1, <1>2, At DEF async_read, notify_connect, notify_close, on_read, add_peer

LEMMA UserAdds ==
  ASSUME Data, Doing, Shape, NEW n \in IoPlace, InvAt(n), NEW u \in Users, load_add(u)
  PROVE  IInv'
<1>1. PICK m \in UserPlace : m \in Place /\ u \in Threads /\ u # Io /\ todo[u] = Path[m]
  BY UserIsAt
<1> DEFINE k == Then[m]
<1>2. /\ m \in Loads /\ m_state' \in Word /\ Does(u, Path[k]) /\ k \in Place
      /\ load' = [load EXCEPT ![u] = Nil]
      /\ UNCHANGED <<role, socket, reads, writes, done, up, met, erased>>
      /\ known \subseteq known' /\ known' \subseteq known \cup {"update lost"}
      /\ "update lost" \notin known' =>
           /\ m_state' \in 0..127
           /\ m \in SetsClosed => \A b \in Marked : ~Is(b)'
           /\ m \in SetsOther => \A b \in Marked : Is(b)' <=> Is(b)
  BY <1>1, Adds
<1>3. \/ m = "sweep2" /\ k = "sweep3" /\ m \in SetsClosed
      \/ m \in {"send1", "active", "live", "inactive"} /\ k \notin Sweeping /\ m \in SetsOther
  <2>1. m \in {"sweep2", "send1", "active", "live", "inactive"}
    BY <1>1, <1>2, UserKinds DEF Sweeping, Loads, Calling, Writing, Ending, Shutting
  <2>2. /\ Then["sweep2"] = "sweep3" /\ Then["send1"] = "send2" /\ Then["active"] = "rest"
        /\ Then["live"] = "rest" /\ Then["inactive"] = "rest"
    BY DEF Then
  <2>3. m # "sweep2" => m \in SetsOther
    BY <1>2, <2>1 DEF SetsOther, SetsConnected, SetsServer, SetsReady, SetsWebsocket, SetsClosed
  <2>. QED BY <2>1, <2>2, <2>3 DEF Sweeping, SetsClosed
<1>4. k \in UserPlace
  <2>1. m # "rest" BY <1>2 DEF Loads
  <2>. QED BY <1>1, <2>1, UserKinds
<1>5. m \in Sweeping => Swept(u) BY <1>1 DEF Swept
<1>6. todo[u] # Path["sweep4"] BY <1>1, <1>3, NotErasing
<1> HIDE DEF k
<1>7. /\ todo'[Io] = Path[n] /\ Doing' /\ IoPlace' = IoPlace /\ (Server' <=> Server)
  <2>1. load \in [Threads -> {Nil} \cup [v : Int, diff : {Nil} \cup Int]] BY DEF Doing
  <2>2. /\ load' \in [Threads -> {Nil} \cup [v : Int, diff : {Nil} \cup Int]]
        /\ load'[u] = Nil /\ \A t \in Threads \ {u} : load'[t] = load[t]
    BY <1>1, <1>2, <2>1
  <2>3. Io \in Threads \ {u} /\ todo[Io] = Path[n] BY <1>1 DEF Threads, InvAt
  <2>. QED BY <1>1, <1>2, <1>4, <2>2, <2>3, Goes DEF Does
<1>8. /\ todo'[u] = Path[k] /\ \A v \in Users \ {u} : todo'[v] = todo[v]
      /\ k \in Sweeping => Swept(u)'
      /\ k \notin Sweeping => ~Swept(u)'
      /\ \A v \in Users \ {u} : Swept(v)' <=> Swept(v)
  BY <1>2, UserMoves
<1>9. Data' /\ Shape' BY <1>2, SameSocket DEF Data, Shape, Faults
<1>10. Server => OfServer(n)'
  <2> SUFFICES ASSUME Server PROVE OfServer(n)' OBVIOUS
  <2>1. OfServer(n) BY DEF InvAt
  <2>2. (\E v \in Users : todo[v] = Path["sweep4"]) => \E v \in Users : todo'[v] = Path["sweep4"]
    BY <1>6, <1>8
  <2>3. n \in Accepting \cup Sweeping => \A v \in Users : ~Swept(v)'
    BY <1>3, <1>5, <1>8, <2>1 DEF OfServer, Sweeping
  <2>. QED BY <1>2, <2>1, <2>2, <2>3, SameSocket DEF OfServer
<1>11. ~Server /\ Kept' => OfClient(n)'
  <2> SUFFICES ASSUME ~Server, Kept' PROVE OfClient(n)' OBVIOUS
  <2>1. OfClient(n) /\ "update lost" \notin known' BY <1>2 DEF Kept, InvAt
  <2>2. m # "sweep2" BY <1>1, UserKinds DEF Sweeping
  <2>. QED BY <1>2, <1>3, <2>1, <2>2, SameSocket DEF OfClient, Marked, Broken, Made
<1>12. KeptReads' => OfReads(n)'
  <2> SUFFICES ASSUME KeptReads' PROVE OfReads(n)' OBVIOUS
  <2>1. OfReads(n) /\ "update lost" \notin known' BY <1>2 DEF KeptReads, InvAt
  <2>2. CASE m = "sweep2"
    <3>1. ~There' BY <1>2, <1>3, <2>1, <2>2 DEF There, Served, Marked
    <3>. QED BY <1>2, <2>1, <3>1, SameSocket DEF OfReads, Made
  <2>3. CASE m # "sweep2"
    BY <1>2, <1>3, <2>1, <2>3, SameSocket DEF OfReads, Marked, There, Served, Fits, Made
  <2>. QED BY <2>2, <2>3
<1>13. InvAt(n)' BY <1>7, <1>10, <1>11, <1>12 DEF InvAt
<1>. QED BY <1>7, <1>9, <1>13 DEF IInv

LEMMA UserWrites ==
  ASSUME Data, Doing, Shape, NEW n \in IoPlace, InvAt(n), NEW u \in Users, async_write(u)
  PROVE  IInv'
<1>1. PICK m \in UserPlace : m \in Place /\ u \in Threads /\ u # Io /\ todo[u] = Path[m]
  BY UserIsAt
<1>2. m = "send2" /\ Tail(todo[u]) = Path["rest"] /\ ~Loading(u)
  <2>1. m \in Writing /\ m # "rest" /\ ~Loading(u) BY <1>1, At DEF async_write, Writing, Loads, Calling
  <2>2. m = "send2" BY <1>1, <2>1, UserKinds DEF Writing, Sweeping
  <2>3. Then["send2"] = "rest" BY DEF Then
  <2>. QED BY <1>1, <2>1, <2>2, <2>3, At
<1>3. UNCHANGED <<role, m_state, load, socket, reads, up, met, erased, counts, known>>
  BY DEF async_write
<1>4. Does(u, Path["rest"]) BY <1>2 DEF async_write, Rest, Does
<1>5. Passes(u, "rest") BY <1>2, <1>3, <1>4 DEF Passes
<1>6. "rest" \in UserPlace /\ "rest" \in Place BY UserKinds, PlacesOf
<1>7. WriteBegins BY DEF WriteBegins, async_write, Open
<1>8. /\ done' \in Seq(Completion) /\ writes' \in Nat
      /\ Ended' = Ended /\ (Open' <=> Open) /\ (NoRead' <=> NoRead)
      /\ \A i \in DOMAIN done : i \in DOMAIN done' /\ done'[i] = done[i]
      /\ \A i \in DOMAIN done' : i \in DOMAIN done \/ (done'[i] # Made /\ done'[i].of = "write")
      /\ Ended \subseteq DOMAIN done
  BY <1>3, <1>7, WriteEffect
<1>9. Data' BY <1>3, <1>8 DEF Data
<1>10. Shape' BY <1>3, <1>8, SameWord DEF Shape
<1>11. /\ todo'[u] = Path["rest"] /\ \A v \in Users \ {u} : todo'[v] = todo[v]
       /\ ~Swept(u)' /\ \A v \in Users \ {u} : Swept(v)' <=> Swept(v)
  BY <1>4, <1>6, UserMoves DEF Sweeping
<1>12. todo[u] # Path["sweep4"] BY <1>1, <1>2, NotErasing
<1>13. Server => OfServer(n)'
  <2>1. (\E v \in Users : todo[v] = Path["sweep4"]) => \E v \in Users : todo'[v] = Path["sweep4"]
    BY <1>11, <1>12
  <2>. QED BY <1>3, <1>8, <1>11, <2>1 DEF OfServer, InvAt
<1>14. ~Server /\ Kept' => OfClient(n)'
  BY <1>3, <1>8, SameWord DEF OfClient, InvAt, Kept, Broken
<1>15. KeptReads' => OfReads(n)'
  <2>1. OneRead => OneRead' BY <1>3, <1>8 DEF OneRead
  <2>. QED BY <1>3, <1>8, <2>1, SameWord DEF OfReads, InvAt, KeptReads, There, Served, Fits
<1>16. todo[Io] = Path[n] BY DEF InvAt
<1>. QED BY <1>5, <1>6, <1>9, <1>10, <1>13, <1>14, <1>15, <1>16, UserGoes

LEMMA UserShutsDown ==
  ASSUME Data, Doing, Shape, NEW n \in IoPlace, InvAt(n), NEW u \in Users, shutdown(u)
  PROVE  IInv'
<1>1. PICK m \in UserPlace : m \in Place /\ u \in Threads /\ u # Io /\ todo[u] = Path[m]
  BY UserIsAt
<1>2. m = "sweep3" /\ Tail(todo[u]) = Path["sweep4"] /\ ~Loading(u) /\ Swept(u) /\ Server
  <2>1. m \in Shutting /\ m # "rest" /\ ~Loading(u) BY <1>1, At DEF shutdown, Shutting, Loads, Calling
  <2>2. m = "sweep3" BY <1>1, <2>1, UserKinds DEF Shutting, Sweeping
  <2>3. Then["sweep3"] = "sweep4" BY DEF Then
  <2>. QED BY <1>1, <2>1, <2>2, <2>3, At, UserKinds DEF Swept, Sweeping
<1>3. UNCHANGED <<role, m_state, load, up, met, erased, counts, known>> /\ close_socket("none")
  BY DEF shutdown
<1>4. Does(u, Path["sweep4"]) BY <1>2 DEF shutdown, Rest, Does
<1>5. Passes(u, "sweep4") BY <1>2, <1>3, <1>4 DEF Passes
<1>6. "sweep4" \in UserPlace /\ "sweep4" \in Place BY <1>2, UserKinds, PlacesOf DEF Sweeping
<1>7. /\ done' \in Seq(Completion) /\ reads' = <<>> /\ writes' = 0 /\ socket' = "none"
      /\ \A i \in DOMAIN done' : \/ i \in DOMAIN done /\ done'[i] = done[i]
                                 \/ socket # "connecting" => done'[i].of # "connect"
  BY <1>3, Aborts
<1>8. ~Open' /\ reads' \in Seq(ReadKinds) BY <1>7 DEF Open
<1>9. Data' BY <1>3, <1>7, <1>8 DEF Data
<1>10. Shape' BY <1>2, <1>3, <1>7, <1>8, SameWord DEF Shape
<1>11. todo'[u] = Path["sweep4"] BY <1>4, <1>6, UserMoves
<1>12. n \notin Accepting \cup Sweeping BY <1>2 DEF InvAt, OfServer
<1>13. Server => OfServer(n)'
  BY <1>3, <1>11, <1>12 DEF OfServer, InvAt
<1>14. ~Server /\ Kept' => OfClient(n)' BY <1>2
<1>15. KeptReads' => OfReads(n)'
  <2>1. n \notin Beginning BY <1>2, IoKinds DEF Beginning
  <2>. QED BY <1>8, <1>12, <2>1 DEF OfReads, There
<1>16. todo[Io] = Path[n] BY DEF InvAt
<1>. QED BY <1>5, <1>6, <1>9, <1>10, <1>13, <1>14, <1>15, <1>16, UserGoes

\* Where on_close() is still to be called.
LEMMA ToTell ==
  ASSUME NEW n \in IoPlace, todo[Io] = Path[n], "on_close" \in Left(Io)
  PROVE  n \in Closing
<1>1. \A x \in Silent : x[1] # "on_close"
  <2>1. /\ set_connected[1] # "on_close" /\ set_server[1] # "on_close"
        /\ set_ready[1] # "on_close" /\ set_websocket[1] # "on_close" /\ set_closed[1] # "on_close"
    BY DEF set_connected, set_server, set_ready, set_websocket, set_closed
  <2> DEFINE Liv == set_peer_live(TRUE)
             Slf == set_self_live(TRUE)
             Act == set_peer_active(TRUE)
             Ina == set_peer_active(FALSE)
  <2>2. /\ set_self_live(TRUE)[1] # "on_close" /\ set_peer_live(TRUE)[1] # "on_close"
        /\ set_peer_active(TRUE)[1] # "on_close" /\ set_peer_active(FALSE)[1] # "on_close"
    BY DEF set_self_live, set_peer_live, set_peer_active
  <2>3. \A x \in Silent : \/ x \in {set_connected, set_server, set_ready, set_websocket, set_closed}
                         \/ x \in {Liv, Slf, Act, Ina}
                         \/ x \in {<<"add_peer", {}>>, <<"async_read", "head">>,
                                  <<"async_read", "until">>, <<"async_read", "data">>}
                         \/ x \in {<<"on_connect", {}>>, <<"async_write", {}>>, <<"on_read", {}>>,
                                  <<"close", {}>>, <<"shutdown", {}>>, <<"erase", {}>>,
                                  <<"connect", {}>>}
    BY DEF Silent
  <2>4. Liv[1] # "on_close" /\ Slf[1] # "on_close" /\ Act[1] # "on_close" /\ Ina[1] # "on_close"
    BY <2>2
  <2> HIDE DEF Liv, Slf, Act, Ina
  <2>. QED BY <2>1, <2>3, <2>4
<1>2. n \notin Closing => todo[Io] \in Seq(Silent) BY PlacesOf, Paths
<1>. QED BY <1>1, <1>2 DEF Left

LEMMA UserErases ==
  ASSUME Data, Doing, Shape, NEW n \in IoPlace, InvAt(n), NEW u \in Users, erase(u)
  PROVE  IInv'
<1>1. PICK m \in UserPlace : m \in Place /\ u \in Threads /\ u # Io /\ todo[u] = Path[m]
  BY UserIsAt
<1>2. m = "sweep4" /\ Tail(todo[u]) = Path["rest"] /\ ~Loading(u) /\ Swept(u) /\ Server
  <2>1. m = "sweep4" /\ ~Loading(u) BY <1>1, At DEF erase, Loads, Calling
  <2>2. Then["sweep4"] = "rest" BY DEF Then
  <2>. QED BY <1>1, <2>1, <2>2, At, UserKinds DEF Swept, Sweeping
<1>3. /\ UNCHANGED <<role, m_state, load, socket, reads, writes, done, up, met, counts>>
      /\ erased' = TRUE
      /\ known' = known \cup IF up /\ ~erased /\ "on_close" \notin Left(Io) THEN {"swept"} ELSE {}
  BY DEF erase, ioVars, Record
<1>4. Does(u, Path["rest"]) BY <1>2 DEF erase, Rest, Does
<1>5. Passes(u, "rest") BY <1>2, <1>3, <1>4 DEF Passes
<1>6. "rest" \in UserPlace /\ "rest" \in Place BY UserKinds, PlacesOf
<1>7. Data' BY <1>3 DEF Data, Faults
<1>8. Shape' BY <1>2, <1>3, Same DEF Shape
<1>9. n \notin Accepting \cup Sweeping BY <1>2 DEF InvAt, OfServer
<1>10. Server => OfServer(n)'
  <2>1. OfServer(n) BY <1>2 DEF InvAt
  <2>2. "swept" \notin known' => n \in Closing \/ (~up /\ n \notin {"connect3", "connect4"})
    <3> SUFFICES ASSUME "swept" \notin known', n \notin Closing
                 PROVE  ~up /\ n \notin {"connect3", "connect4"}
      OBVIOUS
    <3>1. "on_close" \notin Left(Io) BY ToTell DEF InvAt
    <3>2. "swept" \notin known /\ (erased \/ ~up) BY <1>3, <3>1
    <3>3. CASE erased BY <2>1, <3>2, <3>3 DEF OfServer
    <3>4. CASE ~erased BY <1>9, <2>1, <3>2, <3>4 DEF OfServer
    <3>. QED BY <3>3, <3>4
  <2>. QED BY <1>3, <1>9, <2>2 DEF OfServer
<1>11. ~Server /\ Kept' => OfClient(n)' BY <1>2
<1>12. KeptReads' => OfReads(n)'
  <2>1. KeptReads' => OfReads(n) BY <1>3 DEF KeptReads, InvAt
  <2>2. ~There' BY <1>3 DEF There
  <2>. QED BY <1>3, <2>1, <2>2, Same DEF OfReads, Made
<1>13. todo[Io] = Path[n] BY DEF InvAt
<1>. QED BY <1>5, <1>6, <1>7, <1>8, <1>10, <1>11, <1>12, <1>13, UserGoes

LEMMA UserConnects ==
  ASSUME Data, Doing, Shape, NEW n \in IoPlace, InvAt(n), NEW u \in Users, connect(u)
  PROVE  IInv'
<1>1. PICK m \in UserPlace : m \in Place /\ u \in Threads /\ u # Io /\ todo[u] = Path[m]
  BY UserIsAt
<1>2. m = "again" /\ Tail(todo[u]) = Path["rest"] /\ ~Loading(u) /\ ~Server
  <2>1. m = "again" /\ ~Loading(u) BY <1>1, At DEF connect, Loads, Calling
  <2>2. Then["again"] = "rest" BY DEF Then
  <2>. QED BY <1>1, <2>1, <2>2, At, UserKinds
<1>3. /\ UNCHANGED <<role, m_state, load, up, met, erased, counts>>
      /\ known \subseteq known' /\ known' \subseteq Faults
      /\ "cut" \notin known' => /\ ~Is("connected") /\ Made \notin Range(done)
                                /\ set_connected \notin Range(todo[Io])
  BY DEF connect, Record, Faults, Data, Made
<1>4. Does(u, Path["rest"]) BY <1>2 DEF connect, Rest, Does
<1>5. Passes(u, "rest") BY <1>2, <1>3, <1>4 DEF Passes
<1>6. "rest" \in UserPlace /\ "rest" \in Place BY UserKinds, PlacesOf
<1>7. PICK next \in {"connecting", "none"} : close_socket(next) BY DEF connect
<1>8. /\ done' \in Seq(Completion) /\ reads' = <<>> /\ writes' = 0 /\ socket' = next
      /\ \A i \in DOMAIN done : i \in DOMAIN done' /\ done'[i] = done[i]
      /\ \A i \in DOMAIN done' : i \in DOMAIN done \/ done'[i].what = "error"
  BY <1>7, Aborts
<1>9. ~Open' /\ reads' \in Seq(ReadKinds) BY <1>7, <1>8 DEF Open
<1>10. Data' BY <1>3, <1>7, <1>8, <1>9 DEF Data
<1>11. "update lost" \in known' => "update lost" \in known
  BY DEF connect, Record
<1>12. Shape' BY <1>2, <1>3, <1>8, <1>9, <1>11, SameWord DEF Shape
<1>13. ~Server /\ Kept' => OfClient(n)'
  <2> SUFFICES ASSUME Kept' PROVE OfClient(n)' OBVIOUS
  <2>1. Kept /\ "cut" \notin known' /\ OfClient(n) BY <1>2, <1>3 DEF Kept, InvAt
  <2>2. ~Is("connected") BY <1>3, <2>1
  <2>3. n \notin Beginning
    <3>1. todo[Io] = Path[n] BY DEF InvAt
    <3>2. ASSUME n \in Beginning PROVE set_connected \in Range(todo[Io])
      <4>1. Path[n] # <<>> /\ Head(Path[n]) = set_connected /\ Path[n][1] = set_connected
            /\ 1 \in DOMAIN Path[n]
        BY <3>2 DEF Beginning, Path
      <4>. QED BY <3>1, <4>1 DEF Range
    <3>. QED BY <1>3, <2>1, <3>2
  <2>4. \A i \in DOMAIN done : done[i] # Made BY <1>3, <2>1 DEF Range
  <2>5. \A i \in DOMAIN done' : done'[i] # Made BY <1>8, <2>4, Kinds
  <2>. QED BY <1>3, <1>8, <2>1, <2>2, <2>3, <2>5, SameWord
       DEF OfClient, Closing, Messages, Connected, Beginning
<1>14. KeptReads' => OfReads(n)'
  <2>1. n \notin Accepting BY <1>2, IoKinds
  <2>. QED BY <1>9, <2>1 DEF OfReads, There
<1>15. todo[Io] = Path[n] BY DEF InvAt
<1>. QED BY <1>2, <1>5, <1>6, <1>10, <1>12, <1>13, <1>14, <1>15, UserGoes

-----------------------------------------------------------------------------
(* Timers, the connector and the remote end *)

\* The timer of a client connects, in the io thread.
LEMMA IoCalls ==
  ASSUME Data, Doing, Shape, NEW n \in IoPlace, InvAt(n), async_connect(Io)
  PROVE  IInv'
<1>1. /\ n = "rest" /\ ~Loading(Io) /\ todo[Io] = Path[n]
  BY PlacesOf, At DEF async_connect, Threads, InvAt, Loads
<1>2. UNCHANGED <<role, m_state, load, socket, reads, writes, done, up, met, erased, known>>
  BY DEF async_connect, ioVars
<1>3. role[1] = "client" /\ Does(Io, Path["again"])
  <2>1. Path["again"] = <<<<"connect", {}>> >> BY DEF Path
  <2>. QED BY <2>1 DEF async_connect
<1>4. ~Server BY <1>3 DEF Server
<1>5. "again" \in IoPlace /\ "again" \in Place BY <1>4, IoKinds, PlacesOf
<1>6. Passes(Io, "again") BY <1>1, <1>2, <1>3 DEF Passes
<1>7. ~Server /\ Kept' => OfClient("again")'
  BY <1>1, <1>2, Same DEF OfClient, InvAt, Kept, ToRead, Accepting, Beginning, Connected,
     Messages, Closing, Broken, Made
<1>8. KeptReads' => OfReads("again")'
  BY <1>1, <1>2, Same DEF OfReads, InvAt, KeptReads, There, Served, Fits, ToRead, Accepting,
     Beginning, Connected, Messages, Made
<1>9. Data' /\ Shape' BY <1>2, Same DEF Data, Shape
<1>. QED BY <1>4, <1>5, <1>6, <1>7, <1>8, <1>9, IoGoes

\* What happens to the connection while the threads stay where they are.
LEMMA Outside ==
  ASSUME Doing, NEW n \in IoPlace, InvAt(n), UNCHANGED <<role, todo, load>>, Data', Shape',
         Server => OfServer(n)', ~Server /\ Kept' => OfClient(n)', KeptReads' => OfReads(n)'
  PROVE  IInv'
<1>1. UserPlace' = UserPlace /\ IoPlace' = IoPlace /\ (Server' <=> Server)
  BY DEF UserPlace, IoPlace, Server
<1>2. \A t \in Threads : Loading(t)' <=> Loading(t) BY DEF Loading, Free
<1>3. Doing' BY <1>1, <1>2 DEF Doing
<1>4. InvAt(n)' BY <1>1 DEF InvAt
<1>. QED BY <1>1, <1>3, <1>4 DEF IInv

LEMMA Establishes ==
  ASSUME Data, Doing, Shape, NEW n \in IoPlace, InvAt(n), Establish
  PROVE  IInv'
<1>1. /\ socket = "connecting" /\ ~Open /\ reads = <<>> /\ ~Server
      /\ UNCHANGED <<role, m_state, todo, load, reads, writes, up, met, erased, known>>
  BY DEF Establish, Shape, Open
<1>2. PICK c \in Completion :
        /\ done' = Append(done, c) /\ c.of = "connect" /\ c.of \notin ReadKinds
        /\ (socket' = "open" /\ c = Made) \/ (socket' = "none" /\ c # Made)
  <2>1. Made \in Completion /\ Failed("connect") \in Completion /\ Made # Failed("connect")
        /\ Made.of = "connect" /\ Failed("connect").of = "connect" /\ "connect" \notin ReadKinds
    BY DEF Made, Failed, Completion, ReadKinds
  <2>. QED BY <2>1 DEF Establish, Made
<1>3. /\ done' \in Seq(Completion)
      /\ DOMAIN done' = DOMAIN done \cup {Len(done) + 1}
      /\ done'[Len(done) + 1] = c /\ Len(done) + 1 \notin DOMAIN done
      /\ \A i \in DOMAIN done : done'[i] = done[i] /\ i < Len(done) + 1
      /\ Ended \subseteq DOMAIN done /\ Ended' = Ended
  BY <1>2, Joins
<1>4. Data' BY <1>1, <1>2, <1>3 DEF Data
<1>5. Shape' BY <1>1, SameWord DEF Shape
<1>6. n \notin Accepting BY <1>1, IoKinds
<1>7. ~Server /\ Kept' => OfClient(n)'
  BY <1>1, <1>2, <1>3, SameWord DEF OfClient, InvAt, Kept, Broken
<1>8. KeptReads' => OfReads(n)'
  <2> SUFFICES ASSUME KeptReads' PROVE OfReads(n)' OBVIOUS
  <2>1. OfClient(n) BY <1>1 DEF KeptReads, Kept, InvAt
  <2>2. ~Is("connected") /\ ~Is("server") /\ n \notin Beginning /\ \A i \in DOMAIN done : done[i] # Made
    BY <1>1, <2>1 DEF OfClient
  <2>3. ~There' BY <1>1, <2>2, SameWord DEF There, Served
  <2>. QED BY <1>1, <1>2, <1>3, <1>6, <2>2, <2>3 DEF OfReads
<1>. QED BY <1>1, <1>4, <1>5, <1>7, <1>8, Outside

\* A read comes to its end, with a frame or with an error.
LEMMA ReadEnds ==
  ASSUME Data, Doing, Shape, NEW n \in IoPlace, InvAt(n), Open, reads # <<>>,
         NEW c \in Completion, c.of = Head(reads), done' = Append(done, c), reads' = Tail(reads),
         UNCHANGED <<role, m_state, todo, load, socket, writes, up, met, erased, known>>
  PROVE  IInv'
<1>1. /\ Head(reads) \in ReadKinds /\ reads' \in Seq(ReadKinds) /\ Head(reads) = reads[1]
      /\ 1 \in DOMAIN reads
      /\ \A i \in DOMAIN reads' : i + 1 \in DOMAIN reads /\ reads'[i] = reads[i + 1]
      /\ Len(reads) = 1 => reads' = <<>>
  BY DEF Data
<1>2. /\ done' \in Seq(Completion)
      /\ DOMAIN done' = DOMAIN done \cup {Len(done) + 1}
      /\ done'[Len(done) + 1] = c /\ Len(done) + 1 \notin DOMAIN done
      /\ \A i \in DOMAIN done : done'[i] = done[i] /\ i < Len(done) + 1
      /\ Ended \subseteq DOMAIN done /\ Ended' = Ended \cup {Len(done) + 1}
  BY <1>1, Joins
<1>3. c # Made /\ c.of # "connect" BY <1>1, Kinds
<1>4. Open' BY DEF Open
<1>5. Data' BY <1>1, <1>2 DEF Data
<1>6. Shape' BY <1>2, <1>3, <1>4, SameWord DEF Shape
<1>7. Server => OfServer(n)' BY <1>4 DEF OfServer, InvAt, Swept
<1>8. ~Server /\ Kept' => OfClient(n)'
  BY <1>2, <1>3, <1>4, SameWord DEF OfClient, InvAt, Kept
<1>9. KeptReads' => OfReads(n)'
  <2> SUFFICES ASSUME KeptReads' PROVE OfReads(n)' OBVIOUS
  <2>1. OfReads(n) BY DEF KeptReads, InvAt
  <2>2. ~NoRead BY DEF NoRead
  <2>3. n \notin Accepting \cup Beginning /\ (There => n \notin ToRead)
    BY <2>1, <2>2 DEF OfReads
  <2>4. \A i \in DOMAIN done : done[i] # Made BY <2>1 DEF OfReads
  <2>5. There' <=> There BY <1>4, SameWord DEF There, Served
  <2>6. There /\ n \in {"rest", "again"} => OneRead'
    <3> SUFFICES ASSUME There, n \in {"rest", "again"} PROVE OneRead' OBVIOUS
    <3>1. Ended = {} /\ Len(reads) = 1 BY <2>1 DEF OfReads, OneRead
    <3>. QED BY <1>1, <1>2, <3>1 DEF OneRead
  <2>7. There => \A i \in DOMAIN reads' : Is("ready") \/ (reads'[i] = "until" /\ Is("websocket"))
    BY <1>1, <2>1 DEF OfReads, Fits
  <2>8. There => \A i \in Ended' : Is("ready") \/ (done'[i].of = "until" /\ Is("websocket"))
    BY <1>1, <1>2, <2>1 DEF OfReads, Fits
  <2>. QED BY <1>2, <1>3, <2>1, <2>3, <2>4, <2>5, <2>6, <2>7, <2>8, SameWord DEF OfReads, Fits
<1>. QED BY <1>5, <1>6, <1>7, <1>8, <1>9, Outside

LEMMA Arrives ==
  ASSUME Data, Doing, Shape, NEW n \in IoPlace, InvAt(n), Arrive \/ ReadFails
  PROVE  IInv'
<1>1. Head(reads) \in ReadKinds /\ Open /\ reads # <<>> /\ reads' = Tail(reads)
      /\ UNCHANGED <<role, m_state, todo, load, socket, writes, up, met, erased, known>>
  BY DEF Arrive, ReadFails, Data, Open
<1>2. PICK c \in Completion : c.of = Head(reads) /\ done' = Append(done, c)
  <2>1. CASE Arrive
    <3>1. PICK f \in Frames(Head(reads)) : done' = Append(done, [of |-> Head(reads), what |-> f])
      BY <2>1 DEF Arrive
    <3>2. [of |-> Head(reads), what |-> f] \in Completion
      BY <1>1, <3>1 DEF Frames, Completion, ReadKinds
    <3>. QED BY <3>1, <3>2
  <2>2. CASE ReadFails
    <3>1. Failed(Head(reads)) \in Completion /\ Failed(Head(reads)).of = Head(reads)
      BY <1>1 DEF Failed, Completion, ReadKinds
    <3>. QED BY <2>2, <3>1 DEF ReadFails
  <2>. QED BY <2>1, <2>2
<1>. QED BY <1>1, <1>2, ReadEnds

\* A write comes to its end.
LEMMA WriteEnds ==
  ASSUME Data, Doing, Shape, NEW n \in IoPlace, InvAt(n), Written
  PROVE  IInv'
<1>1. /\ Open /\ writes' \in Nat
      /\ UNCHANGED <<role, m_state, todo, load, socket, reads, up, met, erased, known>>
  BY DEF Written, Data, Open
<1>2. PICK c \in Completion : c.of = "write" /\ done' = Append(done, c)
  BY DEF Written, Completion
<1>3. /\ done' \in Seq(Completion)
      /\ DOMAIN done' = DOMAIN done \cup {Len(done) + 1}
      /\ done'[Len(done) + 1] = c /\ Len(done) + 1 \notin DOMAIN done
      /\ \A i \in DOMAIN done : done'[i] = done[i] /\ i < Len(done) + 1
      /\ Ended \subseteq DOMAIN done /\ Ended' = Ended
  BY <1>2, Kinds, Joins
<1>4. c # Made /\ c.of # "connect" BY <1>2, Kinds
<1>5. Open' BY <1>1 DEF Open
<1>6. Data' BY <1>1, <1>3 DEF Data
<1>7. Shape' BY <1>1, <1>3, <1>4, <1>5, SameWord DEF Shape
<1>8. Server => OfServer(n)' BY <1>1, <1>5 DEF OfServer, InvAt, Swept
<1>9. ~Server /\ Kept' => OfClient(n)'
  BY <1>1, <1>3, <1>4, <1>5, SameWord DEF OfClient, InvAt, Kept
<1>10. KeptReads' => OfReads(n)'
  <2>1. NoRead' <=> NoRead BY <1>1, <1>3 DEF NoRead
  <2>2. OneRead => OneRead' BY <1>1, <1>3 DEF OneRead
  <2>. QED BY <1>1, <1>3, <1>4, <1>5, <2>1, <2>2, SameWord
       DEF OfReads, InvAt, KeptReads, There, Served, Fits
<1>. QED BY <1>1, <1>6, <1>7, <1>8, <1>9, <1>10, Outside

LEMMA Breaks ==
  ASSUME Data, Doing, Shape, NEW n \in IoPlace, InvAt(n), Break
  PROVE  IInv'
<1>1. /\ Open /\ Open' /\ socket' = "broken"
      /\ UNCHANGED <<role, m_state, todo, load, reads, writes, done, up, met, erased, known>>
  BY DEF Break, Open
<1>2. Ended' = Ended /\ (NoRead' <=> NoRead) /\ (OneRead' <=> OneRead)
  <2>1. Ended' = Ended BY <1>1 DEF Ended
  <2>. QED BY <1>1, <2>1 DEF NoRead, OneRead
<1>3. Data' /\ Shape' BY <1>1, SameWord DEF Data, Shape
<1>4. Server => OfServer(n)' BY <1>1 DEF OfServer, InvAt, Swept
<1>5. ~Server /\ Kept' => OfClient(n)'
  BY <1>1, <1>2, SameWord DEF OfClient, InvAt, Kept, Broken, Made
<1>6. KeptReads' => OfReads(n)'
  BY <1>1, <1>2, SameWord DEF OfReads, InvAt, KeptReads, There, Served, Fits, Made
<1>. QED BY <1>1, <1>3, <1>4, <1>5, <1>6, Outside

-----------------------------------------------------------------------------
(* The handlers *)

\* Lists of one and two,
LEMMA OneTwo ==
  ASSUME NEW a, NEW b, NEW c
  PROVE  <<a>> \o <<b, c>> = <<a, b, c>>
<1> DEFINE s == <<a>>
           r == <<b, c>>
           z == <<a, b, c>>
           T == {a, b, c}
<1>1. s \in Seq(T) /\ Len(s) = 1 OBVIOUS
<1>2. s[1] = a OBVIOUS
<1>3. r \in Seq(T) /\ Len(r) = 2 OBVIOUS
<1>4. r[1] = b /\ r[2] = c OBVIOUS
<1>5. z \in Seq(T) /\ Len(z) = 3 OBVIOUS
<1>6. z[1] = a /\ z[2] = b /\ z[3] = c OBVIOUS
<1> HIDE DEF s, r, z, T
<1>7. s \in Seq(T) /\ r \in Seq(T) BY <1>1, <1>3
<1>8. /\ s \o r \in Seq(T) /\ Len(s \o r) = Len(s) + Len(r)
      /\ \A i \in 1..Len(s) : (s \o r)[i] = s[i]
      /\ \A i \in 1..Len(r) : (s \o r)[Len(s) + i] = r[i]
  BY <1>7, Concat
<1>9. s \o r \in Seq(T) /\ Len(s \o r) = 3 BY <1>1, <1>3, <1>8
<1>10. (s \o r)[1] = a BY <1>1, <1>2, <1>8
<1>11. (s \o r)[2] = b
  <2>1. (s \o r)[Len(s) + 1] = b BY <1>3, <1>4, <1>8
  <2>2. Len(s) + 1 = 2 BY <1>1
  <2>. QED BY <2>1, <2>2
<1>12. (s \o r)[3] = c
  <2>1. (s \o r)[Len(s) + 2] = c BY <1>3, <1>4, <1>8
  <2>2. Len(s) + 2 = 3 BY <1>1
  <2>. QED BY <2>1, <2>2
<1>13. \A i \in 1..3 : i = 1 \/ i = 2 \/ i = 3 OBVIOUS
<1>14. \A i \in 1..3 : (s \o r)[i] = z[i] BY <1>6, <1>10, <1>11, <1>12, <1>13
<1>15. s \o r = z BY <1>5, <1>9, <1>14, SeqEqual
<1>. QED BY <1>15 DEF s, r, z

\* of two and two,
LEMMA TwoTwo ==
  ASSUME NEW a, NEW b, NEW c, NEW d
  PROVE  <<a, b>> \o <<c, d>> = <<a, b, c, d>>
<1> DEFINE s == <<a, b>>
           r == <<c, d>>
           z == <<a, b, c, d>>
           T == {a, b, c, d}
<1>1. s \in Seq(T) /\ Len(s) = 2 OBVIOUS
<1>2. s[1] = a /\ s[2] = b OBVIOUS
<1>3. r \in Seq(T) /\ Len(r) = 2 OBVIOUS
<1>4. r[1] = c /\ r[2] = d OBVIOUS
<1>5. z \in Seq(T) /\ Len(z) = 4 OBVIOUS
<1>6. z[1] = a /\ z[2] = b /\ z[3] = c /\ z[4] = d OBVIOUS
<1> HIDE DEF s, r, z, T
<1>7. s \in Seq(T) /\ r \in Seq(T) BY <1>1, <1>3
<1>8. /\ s \o r \in Seq(T) /\ Len(s \o r) = Len(s) + Len(r)
      /\ \A i \in 1..Len(s) : (s \o r)[i] = s[i]
      /\ \A i \in 1..Len(r) : (s \o r)[Len(s) + i] = r[i]
  BY <1>7, Concat
<1>9. s \o r \in Seq(T) /\ Len(s \o r) = 4 BY <1>1, <1>3, <1>8
<1>10. (s \o r)[1] = a BY <1>1, <1>2, <1>8
<1>11. (s \o r)[2] = b BY <1>1, <1>2, <1>8
<1>12. (s \o r)[3] = c
  <2>1. (s \o r)[Len(s) + 1] = c BY <1>3, <1>4, <1>8
  <2>2. Len(s) + 1 = 3 BY <1>1
  <2>. QED BY <2>1, <2>2
<1>13. (s \o r)[4] = d
  <2>1. (s \o r)[Len(s) + 2] = d BY <1>3, <1>4, <1>8
  <2>2. Len(s) + 2 = 4 BY <1>1
  <2>. QED BY <2>1, <2>2
<1>14. \A i \in 1..4 : i = 1 \/ i = 2 \/ i = 3 \/ i = 4 OBVIOUS
<1>15. \A i \in 1..4 : (s \o r)[i] = z[i] BY <1>6, <1>10, <1>11, <1>12, <1>13, <1>14
<1>16. s \o r = z BY <1>5, <1>9, <1>15, SeqEqual
<1>. QED BY <1>16 DEF s, r, z

\* of three and two,
LEMMA ThreeTwo ==
  ASSUME NEW a, NEW b, NEW c, NEW d, NEW e
  PROVE  <<a, b, c>> \o <<d, e>> = <<a, b, c, d, e>>
<1> DEFINE s == <<a, b, c>>
           r == <<d, e>>
           z == <<a, b, c, d, e>>
           T == {a, b, c, d, e}
<1>1. s \in Seq(T) /\ Len(s) = 3 OBVIOUS
<1>2. s[1] = a /\ s[2] = b /\ s[3] = c OBVIOUS
<1>3. r \in Seq(T) /\ Len(r) = 2 OBVIOUS
<1>4. r[1] = d /\ r[2] = e OBVIOUS
<1>5. z \in Seq(T) /\ Len(z) = 5 OBVIOUS
<1>6. z[1] = a /\ z[2] = b /\ z[3] = c /\ z[4] = d /\ z[5] = e OBVIOUS
<1> HIDE DEF s, r, z, T
<1>7. s \in Seq(T) /\ r \in Seq(T) BY <1>1, <1>3
<1>8. /\ s \o r \in Seq(T) /\ Len(s \o r) = Len(s) + Len(r)
      /\ \A i \in 1..Len(s) : (s \o r)[i] = s[i]
      /\ \A i \in 1..Len(r) : (s \o r)[Len(s) + i] = r[i]
  BY <1>7, Concat
<1>9. s \o r \in Seq(T) /\ Len(s \o r) = 5 BY <1>1, <1>3, <1>8
<1>10. (s \o r)[1] = a BY <1>1, <1>2, <1>8
<1>11. (s \o r)[2] = b BY <1>1, <1>2, <1>8
<1>12. (s \o r)[3] = c BY <1>1, <1>2, <1>8
<1>13. (s \o r)[4] = d
  <2>1. (s \o r)[Len(s) + 1] = d BY <1>3, <1>4, <1>8
  <2>2. Len(s) + 1 = 4 BY <1>1
  <2>. QED BY <2>1, <2>2
<1>14. (s \o r)[5] = e
  <2>1. (s \o r)[Len(s) + 2] = e BY <1>3, <1>4, <1>8
  <2>2. Len(s) + 2 = 5 BY <1>1
  <2>. QED BY <2>1, <2>2
<1>15. \A i \in 1..5 : i = 1 \/ i = 2 \/ i = 3 \/ i = 4 \/ i = 5 OBVIOUS
<1>16. \A i \in 1..5 : (s \o r)[i] = z[i] BY <1>6, <1>10, <1>11, <1>12, <1>13, <1>14, <1>15
<1>17. s \o r = z BY <1>5, <1>9, <1>16, SeqEqual
<1>. QED BY <1>17 DEF s, r, z

\* of two and three,
LEMMA TwoThree ==
  ASSUME NEW a, NEW b, NEW c, NEW d, NEW e
  PROVE  <<a, b>> \o <<c, d, e>> = <<a, b, c, d, e>>
<1> DEFINE s == <<a, b>>
           r == <<c, d, e>>
           z == <<a, b, c, d, e>>
           T == {a, b, c, d, e}
<1>1. s \in Seq(T) /\ Len(s) = 2 OBVIOUS
<1>2. s[1] = a /\ s[2] = b OBVIOUS
<1>3. r \in Seq(T) /\ Len(r) = 3 OBVIOUS
<1>4. r[1] = c /\ r[2] = d /\ r[3] = e OBVIOUS
<1>5. z \in Seq(T) /\ Len(z) = 5 OBVIOUS
<1>6. z[1] = a /\ z[2] = b /\ z[3] = c /\ z[4] = d /\ z[5] = e OBVIOUS
<1> HIDE DEF s, r, z, T
<1>7. s \in Seq(T) /\ r \in Seq(T) BY <1>1, <1>3
<1>8. /\ s \o r \in Seq(T) /\ Len(s \o r) = Len(s) + Len(r)
      /\ \A i \in 1..Len(s) : (s \o r)[i] = s[i]
      /\ \A i \in 1..Len(r) : (s \o r)[Len(s) + i] = r[i]
  BY <1>7, Concat
<1>9. s \o r \in Seq(T) /\ Len(s \o r) = 5 BY <1>1, <1>3, <1>8
<1>10. (s \o r)[1] = a BY <1>1, <1>2, <1>8
<1>11. (s \o r)[2] = b BY <1>1, <1>2, <1>8
<1>12. (s \o r)[3] = c
  <2>1. (s \o r)[Len(s) + 1] = c BY <1>3, <1>4, <1>8
  <2>2. Len(s) + 1 = 3 BY <1>1
  <2>. QED BY <2>1, <2>2
<1>13. (s \o r)[4] = d
  <2>1. (s \o r)[Len(s) + 2] = d BY <1>3, <1>4, <1>8
  <2>2. Len(s) + 2 = 4 BY <1>1
  <2>. QED BY <2>1, <2>2
<1>14. (s \o r)[5] = e
  <2>1. (s \o r)[Len(s) + 3] = e BY <1>3, <1>4, <1>8
  <2>2. Len(s) + 3 = 5 BY <1>1
  <2>. QED BY <2>1, <2>2
<1>15. \A i \in 1..5 : i = 1 \/ i = 2 \/ i = 3 \/ i = 4 \/ i = 5 OBVIOUS
<1>16. \A i \in 1..5 : (s \o r)[i] = z[i] BY <1>6, <1>10, <1>11, <1>12, <1>13, <1>14, <1>15
<1>17. s \o r = z BY <1>5, <1>9, <1>16, SeqEqual
<1>. QED BY <1>17 DEF s, r, z

\* of two and five,
LEMMA TwoFive ==
  ASSUME NEW a, NEW b, NEW c, NEW d, NEW e, NEW f, NEW g
  PROVE  <<a, b>> \o <<c, d, e, f, g>> = <<a, b, c, d, e, f, g>>
<1> DEFINE s == <<a, b>>
           r == <<c, d, e, f, g>>
           z == <<a, b, c, d, e, f, g>>
           T == {a, b, c, d, e, f, g}
<1>1. s \in Seq(T) /\ Len(s) = 2 OBVIOUS
<1>2. s[1] = a /\ s[2] = b OBVIOUS
<1>3. r \in Seq(T) /\ Len(r) = 5 OBVIOUS
<1>4. r[1] = c /\ r[2] = d /\ r[3] = e /\ r[4] = f /\ r[5] = g OBVIOUS
<1>5. z \in Seq(T) /\ Len(z) = 7 OBVIOUS
<1>6. z[1] = a /\ z[2] = b /\ z[3] = c /\ z[4] = d /\ z[5] = e /\ z[6] = f /\ z[7] = g OBVIOUS
<1> HIDE DEF s, r, z, T
<1>7. s \in Seq(T) /\ r \in Seq(T) BY <1>1, <1>3
<1>8. /\ s \o r \in Seq(T) /\ Len(s \o r) = Len(s) + Len(r)
      /\ \A i \in 1..Len(s) : (s \o r)[i] = s[i]
      /\ \A i \in 1..Len(r) : (s \o r)[Len(s) + i] = r[i]
  BY <1>7, Concat
<1>9. s \o r \in Seq(T) /\ Len(s \o r) = 7 BY <1>1, <1>3, <1>8
<1>10. (s \o r)[1] = a BY <1>1, <1>2, <1>8
<1>11. (s \o r)[2] = b BY <1>1, <1>2, <1>8
<1>12. (s \o r)[3] = c
  <2>1. (s \o r)[Len(s) + 1] = c BY <1>3, <1>4, <1>8
  <2>2. Len(s) + 1 = 3 BY <1>1
  <2>. QED BY <2>1, <2>2
<1>13. (s \o r)[4] = d
  <2>1. (s \o r)[Len(s) + 2] = d BY <1>3, <1>4, <1>8
  <2>2. Len(s) + 2 = 4 BY <1>1
  <2>. QED BY <2>1, <2>2
<1>14. (s \o r)[5] = e
  <2>1. (s \o r)[Len(s) + 3] = e BY <1>3, <1>4, <1>8
  <2>2. Len(s) + 3 = 5 BY <1>1
  <2>. QED BY <2>1, <2>2
<1>15. (s \o r)[6] = f
  <2>1. (s \o r)[Len(s) + 4] = f BY <1>3, <1>4, <1>8
  <2>2. Len(s) + 4 = 6 BY <1>1
  <2>. QED BY <2>1, <2>2
<1>16. (s \o r)[7] = g
  <2>1. (s \o r)[Len(s) + 5] = g BY <1>3, <1>4, <1>8
  <2>2. Len(s) + 5 = 7 BY <1>1
  <2>. QED BY <2>1, <2>2
<1>17. \A i \in 1..7 : i = 1 \/ i = 2 \/ i = 3 \/ i = 4 \/ i = 5 \/ i = 6 \/ i = 7 OBVIOUS
<1>18. \A i \in 1..7 : (s \o r)[i] = z[i] BY <1>6, <1>10, <1>11, <1>12, <1>13, <1>14, <1>15, <1>16, <1>17
<1>19. s \o r = z BY <1>5, <1>9, <1>18, SeqEqual
<1>. QED BY <1>19 DEF s, r, z

\* and of four and two.
LEMMA FourTwo ==
  ASSUME NEW a, NEW b, NEW c, NEW d, NEW e, NEW f
  PROVE  <<a, b, c, d>> \o <<e, f>> = <<a, b, c, d, e, f>>
<1> DEFINE s == <<a, b, c, d>>
           r == <<e, f>>
           z == <<a, b, c, d, e, f>>
           T == {a, b, c, d, e, f}
<1>1. s \in Seq(T) /\ Len(s) = 4 OBVIOUS
<1>2. s[1] = a /\ s[2] = b /\ s[3] = c /\ s[4] = d OBVIOUS
<1>3. r \in Seq(T) /\ Len(r) = 2 OBVIOUS
<1>4. r[1] = e /\ r[2] = f OBVIOUS
<1>5. z \in Seq(T) /\ Len(z) = 6 OBVIOUS
<1>6. z[1] = a /\ z[2] = b /\ z[3] = c /\ z[4] = d /\ z[5] = e /\ z[6] = f OBVIOUS
<1> HIDE DEF s, r, z, T
<1>7. s \in Seq(T) /\ r \in Seq(T) BY <1>1, <1>3
<1>8. /\ s \o r \in Seq(T) /\ Len(s \o r) = Len(s) + Len(r)
      /\ \A i \in 1..Len(s) : (s \o r)[i] = s[i]
      /\ \A i \in 1..Len(r) : (s \o r)[Len(s) + i] = r[i]
  BY <1>7, Concat
<1>9. s \o r \in Seq(T) /\ Len(s \o r) = 6 BY <1>1, <1>3, <1>8
<1>10. (s \o r)[1] = a BY <1>1, <1>2, <1>8
<1>11. (s \o r)[2] = b BY <1>1, <1>2, <1>8
<1>12. (s \o r)[3] = c BY <1>1, <1>2, <1>8
<1>13. (s \o r)[4] = d BY <1>1, <1>2, <1>8
<1>14. (s \o r)[5] = e
  <2>1. (s \o r)[Len(s) + 1] = e BY <1>3, <1>4, <1>8
  <2>2. Len(s) + 1 = 5 BY <1>1
  <2>. QED BY <2>1, <2>2
<1>15. (s \o r)[6] = f
  <2>1. (s \o r)[Len(s) + 2] = f BY <1>3, <1>4, <1>8
  <2>2. Len(s) + 2 = 6 BY <1>1
  <2>. QED BY <2>1, <2>2
<1>16. \A i \in 1..6 : i = 1 \/ i = 2 \/ i = 3 \/ i = 4 \/ i = 5 \/ i = 6 OBVIOUS
<1>17. \A i \in 1..6 : (s \o r)[i] = z[i] BY <1>6, <1>10, <1>11, <1>12, <1>13, <1>14, <1>15, <1>16
<1>18. s \o r = z BY <1>5, <1>9, <1>17, SeqEqual
<1>. QED BY <1>18 DEF s, r, z

\* What the handlers leave to do is at a place.
LEMMA Answers ==
  /\ <<>> = Path["rest"] /\ close_and_notify = Path["close1"]
  /\ <<set_peer_live(TRUE), <<"on_read", {}>>, <<"async_read", "head">> >> = Path["empty1"]
  /\ <<set_peer_live(TRUE), <<"async_read", "data">> >> = Path["sized"]
  /\ <<set_peer_active(TRUE), <<"on_read", {}>>, <<"async_read", "head">> >> = Path["body"]
  /\ async_send \o async_recv_by_server = Path["shake1"]
  /\ async_recv_by_client = Path["connect3"]
  /\ <<set_connected, set_peer_live(TRUE)>> \o async_recv_by_client = Path["connect1"]
  /\ <<set_connected, set_peer_live(TRUE)>> \o
       (<<set_websocket>> \o async_send \o <<set_websocket, <<"async_read", "until">> >>) =
     Path["wconnect1"]
  /\ on_accept(FALSE) = Path["accept1"] /\ on_accept(TRUE) = Path["waccept1"]
<1> DEFINE Liv == set_peer_live(TRUE)
           Slf == set_self_live(TRUE)
           Act == set_peer_active(TRUE)
           Hd == <<"async_read", "head">>
           Dat == <<"async_read", "data">>
           Unt == <<"async_read", "until">>
           Wri == <<"async_write", {}>>
           Rea == <<"on_read", {}>>
           Con == <<"on_connect", {}>>
           Cls == <<"close", {}>>
           Ocl == <<"on_close", {}>>
           Adp == <<"add_peer", {}>>
<1>1. /\ <<>> = Path["rest"] /\ <<Cls, Ocl>> = Path["close1"]
      /\ <<Liv, Rea, Hd>> = Path["empty1"] /\ <<Liv, Dat>> = Path["sized"]
      /\ <<Act, Rea, Hd>> = Path["body"] /\ <<Slf, Wri, set_ready, Hd>> = Path["shake1"]
      /\ <<set_ready, Con, Hd>> = Path["connect3"]
      /\ <<set_connected, Liv, set_ready, Con, Hd>> = Path["connect1"]
      /\ <<set_connected, Liv, set_websocket, Slf, Wri, set_websocket, Unt>> = Path["wconnect1"]
      /\ <<set_connected, Liv, set_server, Adp, set_ready, Hd>> = Path["accept1"]
      /\ <<set_connected, Liv, set_server, Adp, set_websocket, Unt>> = Path["waccept1"]
  BY DEF Path
<1>2. /\ async_send = <<Slf, Wri>> /\ close_and_notify = <<Cls, Ocl>>
      /\ async_recv_by_server = <<set_ready, Hd>>
      /\ async_recv_by_client = <<set_ready, Con, Hd>>
      /\ on_accept(FALSE) = <<set_connected, Liv, set_server, Adp>> \o <<set_ready, Hd>>
      /\ on_accept(TRUE) = <<set_connected, Liv, set_server, Adp>> \o <<set_websocket, Unt>>
  BY DEF async_send, close_and_notify, async_recv_by_server, async_recv_by_client, on_accept
<1> HIDE DEF Liv, Slf, Act, Hd, Dat, Unt, Wri, Rea, Con, Cls, Ocl, Adp
<1>3. <<Slf, Wri>> \o <<set_ready, Hd>> = <<Slf, Wri, set_ready, Hd>> BY TwoTwo
<1>4. <<set_connected, Liv>> \o <<set_ready, Con, Hd>> = <<set_connected, Liv, set_ready, Con, Hd>>
  BY TwoThree
<1>5. /\ <<set_websocket>> \o <<Slf, Wri>> = <<set_websocket, Slf, Wri>>
      /\ <<set_websocket, Slf, Wri>> \o <<set_websocket, Unt>> =
           <<set_websocket, Slf, Wri, set_websocket, Unt>>
      /\ <<set_connected, Liv>> \o <<set_websocket, Slf, Wri, set_websocket, Unt>> =
           <<set_connected, Liv, set_websocket, Slf, Wri, set_websocket, Unt>>
  BY OneTwo, ThreeTwo, TwoFive
<1>6. /\ <<set_connected, Liv, set_server, Adp>> \o <<set_ready, Hd>> =
           <<set_connected, Liv, set_server, Adp, set_ready, Hd>>
      /\ <<set_connected, Liv, set_server, Adp>> \o <<set_websocket, Unt>> =
           <<set_connected, Liv, set_server, Adp, set_websocket, Unt>>
  BY FourTwo
<1>7. /\ async_send \o async_recv_by_server = Path["shake1"]
      /\ async_recv_by_client = Path["connect3"]
      /\ <<set_connected, Liv>> \o async_recv_by_client = Path["connect1"]
  BY <1>1, <1>2, <1>3, <1>4
<1>8. <<set_connected, Liv>> \o (<<set_websocket>> \o async_send \o <<set_websocket, Unt>>) =
      Path["wconnect1"]
  BY <1>1, <1>2, <1>5
<1>9. on_accept(FALSE) = Path["accept1"] /\ on_accept(TRUE) = Path["waccept1"]
  BY <1>1, <1>2, <1>6
<1>10. /\ <<Liv, Rea, Hd>> = Path["empty1"] /\ <<Liv, Dat>> = Path["sized"]
       /\ <<Act, Rea, Hd>> = Path["body"] /\ <<>> = Path["rest"] /\ close_and_notify = Path["close1"]
  BY <1>1, <1>2
<1>. QED BY <1>7, <1>8, <1>9, <1>10 DEF Liv, Slf, Act, Hd, Dat, Unt, Wri, Rea, Con, Cls, Ocl, Adp

\* Which place it is, for a completion c whose handler finds its peer.
Follows(c, m) ==
  \/ m = "rest" /\ c.of = "connect" /\ c.what = "error"
  \/ m = (IF role[2] THEN "wconnect1" ELSE "connect1") /\ c = Made
  \/ m = "rest" /\ c.of = "write" /\ c.what = "ok"
  \/ m = "close1" /\ c.of # "connect"
  \/ m \in {"empty1", "sized"} /\ c.of = "head" /\ c.what # "error"
  \/ m = "body" /\ c.of \in {"data", "until"} /\ c.what # "error" /\ Is("ready")
  \/ m = "shake1" /\ c.of = "until" /\ c.what = "hello" /\ Is("websocket") /\ Is("server")
  \/ m = "connect3" /\ c.of = "until" /\ c.what = "hello" /\ Is("websocket") /\ ~Is("server")
  \/ /\ m = "rest" /\ c.of \in {"data", "until"} /\ c.what # "error" /\ ~Is("ready")
     /\ Is("websocket") /\ c.of = "until" => c.what = "alien"

LEMMA FollowsIt ==
  ASSUME Data, Handle, ~erased
  PROVE  \E m \in Place : Does(Io, Path[m]) /\ Follows(Head(done), m)
<1> DEFINE c == Head(done)
           L == CASE c.of = "connect" -> on_connect(c)
                  [] c.of = "head" -> on_read_head(c)
                  [] c.of \in {"data", "until"} -> on_read_data(c)
                  [] c.of = "write" -> on_write(c)
<1>1. Does(Io, L) /\ c \in Completion
  <2>1. Does(Io, L) BY DEF Handle
  <2>2. done # <<>> /\ done \in Seq(Completion) BY DEF Handle, Data
  <2>3. c \in Completion BY <2>2
  <2>. QED BY <2>1, <2>3
<1> SUFFICES \E m \in Place : L = Path[m] /\ Follows(c, m) BY <1>1
<1>2. {"rest", "close1", "connect1", "wconnect1", "connect3", "empty1", "sized", "body", "shake1"}
        \subseteq Place
  BY DEF Place, Path
<1> HIDE DEF c
<1>3. CASE c.of = "connect"
  <2>1. L = on_connect(c) BY <1>3
  <2>2. c.what = "error" \/ c = Made BY <1>1, <1>3 DEF Completion, Made
  <2>3. CASE c.what = "error"
    <3>1. L = Path["rest"] BY <2>1, <2>3, Answers DEF on_connect
    <3>. QED BY <1>2, <1>3, <2>3, <3>1 DEF Follows
  <2>4. CASE c = Made /\ role[2]
    <3>1. on_connect(c) = <<set_connected, set_peer_live(TRUE)>> \o
            (<<set_websocket>> \o async_send \o <<set_websocket, <<"async_read", "until">> >>)
      BY <2>4 DEF on_connect, Made
    <3>2. L = Path["wconnect1"] BY <2>1, <3>1, Answers
    <3>. QED BY <1>2, <2>4, <3>2 DEF Follows
  <2>5. CASE c = Made /\ ~role[2]
    <3>1. on_connect(c) = <<set_connected, set_peer_live(TRUE)>> \o async_recv_by_client
      BY <2>5 DEF on_connect, Made
    <3>2. L = Path["connect1"] BY <2>1, <3>1, Answers
    <3>. QED BY <1>2, <2>5, <3>2 DEF Follows
  <2>. QED BY <2>2, <2>3, <2>4, <2>5
<1>4. CASE c.of = "head"
  <2>1. L = on_read_head(c) BY <1>4
  <2>2. c.what \in {"error", "malformed", "empty", "sized"} BY <1>1, <1>4 DEF Completion
  <2>3. CASE c.what \in {"error", "malformed"}
    <3>1. L = Path["close1"] BY <2>1, <2>3, Answers DEF on_read_head
    <3>. QED BY <1>2, <1>4, <3>1 DEF Follows
  <2>4. CASE c.what = "empty"
    <3>1. on_read_head(c) = <<set_peer_live(TRUE), <<"on_read", {}>>, <<"async_read", "head">> >>
      BY <2>4 DEF on_read_head
    <3>2. L = Path["empty1"] BY <2>1, <3>1, Answers
    <3>. QED BY <1>2, <1>4, <2>4, <3>2 DEF Follows
  <2>5. CASE c.what = "sized"
    <3>1. on_read_head(c) = <<set_peer_live(TRUE), <<"async_read", "data">> >>
      BY <2>5 DEF on_read_head
    <3>2. L = Path["sized"] BY <2>1, <3>1, Answers
    <3>. QED BY <1>2, <1>4, <2>5, <3>2 DEF Follows
  <2>. QED BY <2>2, <2>3, <2>4, <2>5
<1>5. CASE c.of \in {"data", "until"}
  <2>1. L = on_read_data(c) BY <1>5
  <2>2. c.of = "until" => c.what \in {"error", "unparsable", "hello", "alien"}
    BY <1>1 DEF Completion
  <2>3. c.of = "data" => c.what \in {"error", "body"} BY <1>1 DEF Completion
  <2>4. CASE c.what = "error"
    <3>1. L = Path["close1"] BY <2>1, <2>4, Answers DEF on_read_data
    <3>. QED BY <1>2, <1>5, <3>1 DEF Follows
  <2>5. CASE c.what # "error" /\ Is("ready")
    <3>1. on_read_data(c) = <<set_peer_active(TRUE), <<"on_read", {}>>, <<"async_read", "head">> >>
      BY <2>5 DEF on_read_data
    <3>2. L = Path["body"] BY <2>1, <3>1, Answers
    <3>. QED BY <1>2, <1>5, <2>5, <3>2 DEF Follows
  <2>6. CASE c.what # "error" /\ ~Is("ready") /\ ~Is("websocket")
    <3>1. L = Path["rest"] BY <2>1, <2>6, Answers DEF on_read_data
    <3>. QED BY <1>2, <1>5, <2>6, <3>1 DEF Follows
  <2>7. CASE c.what # "error" /\ ~Is("ready") /\ Is("websocket")
    <3>1. L = handle_websocket_shakehand(c) BY <2>1, <2>7 DEF on_read_data
    <3>2. CASE c.what = "unparsable"
      <4>1. L = Path["close1"] BY <3>1, <3>2, Answers DEF handle_websocket_shakehand
      <4>. QED BY <1>2, <1>5, <4>1 DEF Follows
    <3>3. CASE c.what = "hello" /\ Is("server")
      <4>1. handle_websocket_shakehand(c) = async_send \o async_recv_by_server
        BY <3>3 DEF handle_websocket_shakehand
      <4>2. L = Path["shake1"] BY <3>1, <4>1, Answers
      <4>. QED BY <1>2, <1>5, <2>3, <2>7, <3>3, <4>2 DEF Follows
    <3>4. CASE c.what = "hello" /\ ~Is("server")
      <4>1. handle_websocket_shakehand(c) = async_recv_by_client
        BY <3>4 DEF handle_websocket_shakehand
      <4>2. L = Path["connect3"] BY <3>1, <4>1, Answers
      <4>. QED BY <1>2, <1>5, <2>3, <2>7, <3>4, <4>2 DEF Follows
    <3>5. CASE c.what \notin {"unparsable", "hello"}
      <4>1. L = Path["rest"] BY <3>1, <3>5, Answers DEF handle_websocket_shakehand
      <4>. QED BY <1>2, <1>5, <2>2, <2>7, <3>5, <4>1 DEF Follows
    <3>. QED BY <3>2, <3>3, <3>4, <3>5
  <2>. QED BY <2>4, <2>5, <2>6, <2>7
<1>6. CASE c.of = "write"
  <2>1. L = on_write(c) BY <1>6
  <2>2. c.what \in {"ok", "error"} BY <1>1, <1>6 DEF Completion
  <2>3. CASE c.what = "error"
    <3>1. L = Path["close1"] BY <2>1, <2>3, Answers DEF on_write
    <3>. QED BY <1>2, <1>6, <3>1 DEF Follows
  <2>4. CASE c.what = "ok"
    <3>1. L = Path["rest"] BY <2>1, <2>4, Answers DEF on_write
    <3>. QED BY <1>2, <1>6, <2>4, <3>1 DEF Follows
  <2>. QED BY <2>2, <2>3, <2>4
<1>7. c.of \in {"connect", "head", "data", "until", "write"} BY <1>1 DEF Completion
<1>. QED BY <1>3, <1>4, <1>5, <1>6, <1>7

LEMMA Handles ==
  ASSUME Data, Doing, Shape, NEW n \in IoPlace, InvAt(n), Handle
  PROVE  IInv'
<1> PICK c : c = Head(done) OBVIOUS
<1>1. /\ n = "rest" /\ ~Loading(Io) /\ todo[Io] = Path[n]
  BY PlacesOf, At DEF Handle, Threads, InvAt, Loads
<1>2. /\ done # <<>> /\ done' = Tail(done)
      /\ UNCHANGED <<role, m_state, load, socket, reads, writes, up, met, erased, counts>>
      /\ known' = known \cup IF c.what = "alien" /\ ~erased THEN {"alien"} ELSE {}
  BY DEF Handle, Record
<1>3. /\ done' \in Seq(Completion) /\ c \in Completion
      /\ 1 \in DOMAIN done /\ done[1] = c
      /\ \A i \in DOMAIN done' : i \in Nat /\ i + 1 \in DOMAIN done /\ done'[i] = done[i + 1]
      /\ \A i \in DOMAIN done : i = 1 \/ (i - 1 \in DOMAIN done' /\ done'[i - 1] = done[i])
      /\ Ended \subseteq DOMAIN done /\ Ended \subseteq Nat \ {0}
      /\ 1 \in Ended <=> c.of \in ReadKinds
      /\ \A i : i \in Ended' <=> i \in Nat \ {0} /\ i + 1 \in Ended
  BY <1>2, Taken
<1>4. Open' <=> Open BY <1>2 DEF Open
<1>5. Data' BY <1>2, <1>3 DEF Data, Faults
<1>6. Shape' BY <1>2, <1>3, <1>4, SameWord DEF Shape
<1>8. PICK m \in Place : Does(Io, Path[m]) /\ (IF erased THEN m = "rest" ELSE Follows(c, m))
  <2>1. CASE erased
    <3>1. Does(Io, Path["rest"]) BY <2>1, Answers DEF Handle
    <3>. QED BY <2>1, <3>1, PlacesOf, IoKinds
  <2>2. CASE ~erased BY <2>2, FollowsIt
  <2>. QED BY <2>1, <2>2
<1>7. \A u \in Users : todo'[u] = todo[u] BY <1>8, UsersStay
<1>9. /\ m \in {"rest", "close1", "connect1", "wconnect1", "connect3", "empty1", "sized", "body",
                "shake1"}
      /\ m \in {"connect1", "wconnect1"} => c = Made
  BY <1>8 DEF Follows
<1>10. m \in {"connect1", "wconnect1"} => ~Server
  <2>1. c = Made => c.of = "connect" BY DEF Made
  <2>. QED BY <1>3, <1>9, <2>1 DEF Shape
<1>11. m \in IoPlace
  BY <1>9, <1>10 DEF IoPlace, Closing, ToRead, Accepting, Beginning, Connected, Messages
<1>12. Passes(Io, m) BY <1>1, <1>2, <1>8 DEF Passes
<1>13. Server => OfServer(m)'
  <2> SUFFICES ASSUME Server PROVE OfServer(m)' OBVIOUS
  <2>1. OfServer("rest") BY <1>1 DEF InvAt
  <2>2. "rest" \notin Accepting \cup Sweeping \cup Closing /\ m \notin Accepting \cup Sweeping
    BY <1>9 DEF Accepting, Sweeping, Closing
  <2>3. up \/ erased BY <2>1, <2>2 DEF OfServer
  <2>4. "swept" \in known' <=> "swept" \in known BY <1>2
  <2>5. erased => m = "rest" BY <1>8
  <2>6. (\E u \in Users : todo'[u] = Path["sweep4"]) <=> \E u \in Users : todo[u] = Path["sweep4"]
    BY <1>7
  <2>. QED BY <1>2, <1>4, <2>1, <2>2, <2>3, <2>4, <2>5, <2>6 DEF OfServer
<1>14. ~Server /\ Kept' => OfClient(m)'
  <2> SUFFICES ASSUME ~Server, Kept' PROVE OfClient(m)' OBVIOUS
  <2>1. OfClient("rest") BY <1>1, <1>2 DEF InvAt, Kept
  <2>2. Follows(c, m) BY <1>8 DEF Shape
  <2>3. "rest" \notin Beginning \cup Connected \cup Closing \cup ToRead
    BY DEF Beginning, Connected, Closing, ToRead, Accepting, Messages
  <2>4. m \in Beginning => c = Made BY <1>9 DEF Beginning
  <2>5. m \notin {"ready_read", "shake1", "shake2"} BY <1>9, <2>1, <2>2 DEF OfClient, Follows
  <2>6. socket = "connecting" =>
          ~Is("connected") /\ m \notin Beginning /\ \A i \in DOMAIN done' : done'[i] # Made
    BY <1>3, <2>1, <2>4 DEF OfClient
  <2>7. ASSUME NEW i \in DOMAIN done', done'[i] = Made
        PROVE  ~Is("connected") /\ m \notin Beginning /\ \A j \in DOMAIN done' : done'[j] = Made => j = i
    <3>1. i \in Nat /\ i + 1 \in DOMAIN done /\ done[i + 1] = Made BY <1>3, <2>7
    <3>2. ~Is("connected") /\ \A j \in DOMAIN done : done[j] = Made => j = i + 1
      BY <2>1, <3>1 DEF OfClient
    <3>3. m \notin Beginning
      <4>1. c = Made => 1 = i + 1 BY <1>3, <3>2
      <4>2. i # 0 BY <1>3, <2>7
      <4>. QED BY <2>4, <3>1, <4>1, <4>2
    <3>4. ASSUME NEW j \in DOMAIN done', done'[j] = Made PROVE j = i
      <4>1. j \in Nat /\ j + 1 = i + 1 BY <1>3, <3>2, <3>4
      <4>. QED BY <3>1, <4>1
    <3>. QED BY <3>2, <3>3, <3>4
  <2>8. m \in Beginning => ~Is("connected") /\ ~up
    BY <1>3, <2>1, <2>3, <2>4 DEF OfClient, Closing
  <2>9. m \in Connected => Is("connected") /\ m # "connect4"
    BY <1>9, <2>1, <2>2 DEF OfClient, Follows, Connected
  <2>10. Is("connected") /\ ~Open =>
           m \in ToRead \cup {"close1", "close2"} \/ \E i \in DOMAIN done' : done'[i].what = "error" /\ done'[i].of # "connect"
    <3> SUFFICES ASSUME Is("connected"), ~Open,
                        \A i \in DOMAIN done' : ~(done'[i].what = "error" /\ done'[i].of # "connect")
                 PROVE  m \in ToRead \cup {"close1", "close2"}
      OBVIOUS
    <3>1. PICK i \in DOMAIN done : done[i].what = "error" /\ done[i].of # "connect"
      BY <2>1, <2>3 DEF OfClient, Broken
    <3>2. i = 1 BY <1>3, <3>1
    <3>3. c.what = "error" /\ c.of # "connect" BY <1>3, <3>1, <3>2
    <3>4. m = "close1"
      BY <2>2, <3>3 DEF Follows, Made
    <3>. QED BY <3>4
  <2>11. up => m \in ToRead \cup Closing \/ reads # <<>> \/ Ended' # {}
    <3> SUFFICES ASSUME up, reads = <<>>, Ended' = {} PROVE m \in ToRead \cup Closing OBVIOUS
    <3>1. Is("ready") /\ Ended # {} BY <2>1, <2>3 DEF OfClient, Closing
    <3>2. PICK i \in Ended : TRUE BY <3>1
    <3>3. i = 1
      <4>1. i \in Nat \ {0} BY <1>3
      <4>2. i - 1 \in Nat \ {0} => i - 1 \in Ended' BY <1>3, <4>1
      <4>. QED BY <4>1, <4>2
    <3>4. c.of \in ReadKinds BY <1>3, <3>2, <3>3
    <3>5. m \in {"close1", "empty1", "sized", "body", "shake1", "connect3"}
      BY <2>2, <3>1, <3>4 DEF Follows, ReadKinds, Made
    <3>. QED BY <3>5 DEF ToRead, Closing, Messages, Connected
  <2>12. m \notin {"close3", "close4"} /\ "rest" \notin {"close3", "close4"} BY <1>9
  <2>13. /\ ~Is("server") /\ (~Is("connected") => ~Is("ready") /\ ~Is("websocket"))
         /\ up => Is("connected") /\ Is("ready")
    BY <2>1, <2>12 DEF OfClient
  <2>14. /\ socket' = socket /\ up' = up /\ reads' = reads
         /\ (Is("server")' <=> Is("server")) /\ (Is("connected")' <=> Is("connected"))
         /\ (Is("ready")' <=> Is("ready")) /\ (Is("websocket")' <=> Is("websocket"))
    BY <1>2, SameWord
  <2>. QED BY <1>4, <2>5, <2>6, <2>7, <2>8, <2>9, <2>10, <2>11, <2>12, <2>13, <2>14
       DEF OfClient, Broken, Made, Beginning, Connected, ToRead, Closing
<1>15. KeptReads' => OfReads(m)'
  <2> SUFFICES ASSUME KeptReads' PROVE OfReads(m)' OBVIOUS
  <2>1. OfReads("rest") BY <1>1, <1>2 DEF InvAt, KeptReads
  <2>2. ~(c.what = "alien" /\ ~erased) BY <1>2 DEF KeptReads
  <2>3. m \notin Accepting BY <1>9 DEF Accepting
  <2>4. m \in Beginning => c = Made BY <1>9 DEF Beginning
  <2>5. c = Made /\ Open => NoRead /\ NoRead'
    <3> SUFFICES ASSUME c = Made, Open PROVE NoRead /\ NoRead' OBVIOUS
    <3>1. reads = <<>> /\ \A j \in Ended : j < 1 BY <1>3, <2>1 DEF OfReads
    <3>2. Ended = {} BY <1>3, <3>1
    <3>3. Ended' = {} BY <1>3, <3>2
    <3>. QED BY <1>2, <3>1, <3>2, <3>3 DEF NoRead
  <2>6. ASSUME NEW i \in DOMAIN done', done'[i] = Made, Open
        PROVE  reads = <<>> /\ \A j \in Ended' : j < i
    <3>1. i \in Nat /\ i + 1 \in DOMAIN done /\ done[i + 1] = Made BY <1>3, <2>6
    <3>2. reads = <<>> /\ \A j \in Ended : j < i + 1 BY <2>1, <2>6, <3>1 DEF OfReads
    <3>3. ASSUME NEW j \in Ended' PROVE j < i
      <4>1. j \in Nat /\ j + 1 < i + 1 BY <1>3, <3>2
      <4>. QED BY <3>1, <4>1
    <3>. QED BY <3>2, <3>3
  <2>7. There' <=> There BY <1>2, <1>4, SameWord DEF There, Served
  <2>8. ASSUME There
        PROVE  /\ m \in ToRead => NoRead'
               /\ m = "rest" => OneRead'
               /\ \A i \in DOMAIN reads : Fits(reads[i])
               /\ \A i \in Ended' : Fits(done'[i].of)
               /\ m \in Messages \cup {"connect4"} => Is("ready")
    <3>1. /\ OneRead /\ \A i \in DOMAIN reads : Fits(reads[i])
          /\ \A i \in Ended : Fits(done[i].of)
          /\ Open /\ ~erased /\ Follows(c, m)
      BY <1>8, <2>1, <2>8 DEF OfReads, There
    <3>2. m \in ToRead => c = Made \/ c.of \in ReadKinds
      BY <1>9, <3>1 DEF Follows, ReadKinds, ToRead, Accepting, Beginning, Connected, Messages
    <3>3. c.of \in ReadKinds => NoRead'
      <4> SUFFICES ASSUME c.of \in ReadKinds PROVE NoRead' OBVIOUS
      <4>1. reads = <<>> /\ Ended = {1} BY <1>3, <3>1 DEF OneRead
      <4>2. Ended' = {} BY <1>3, <4>1
      <4>. QED BY <1>2, <4>1, <4>2 DEF NoRead
    <3>4. m \in ToRead => NoRead' BY <2>5, <3>1, <3>2, <3>3
    <3>5. c.of \in ReadKinds => Fits(c.of) BY <1>3, <3>1
    <3>6. m = "rest" => c.of \notin ReadKinds
      <4> SUFFICES ASSUME m = "rest", c.of \in ReadKinds PROVE FALSE OBVIOUS
      <4>1. c.of \in {"data", "until"} /\ ~Is("ready") /\ (Is("websocket") /\ c.of = "until" => c.what = "alien")
        BY <3>1 DEF Follows, ReadKinds
      <4>2. c.what = "alien" BY <3>5, <4>1 DEF Fits
      <4>. QED BY <2>2, <3>1, <4>2
    <3>7. c.of \notin ReadKinds => OneRead'
      <4> SUFFICES ASSUME c.of \notin ReadKinds PROVE OneRead' OBVIOUS
      <4>1. CASE Ended = {} /\ Len(reads) = 1
        <5>1. Ended' = {} BY <1>3, <4>1
        <5>. QED BY <1>2, <4>1, <5>1 DEF OneRead
      <4>2. CASE reads = <<>> /\ \E i \in Ended : Ended = {i}
        <5>1. PICK i \in Ended : Ended = {i} BY <4>2
        <5>2. i \in Nat \ {0} /\ i # 1 BY <1>3, <5>1
        <5>3. i - 1 \in Nat \ {0} /\ (i - 1) + 1 = i BY <5>2
        <5>4. i - 1 \in Ended' BY <1>3, <5>3
        <5>5. \A j \in Ended' : j = i - 1
          <6> SUFFICES ASSUME NEW j \in Ended' PROVE j = i - 1 OBVIOUS
          <6>1. j \in Nat /\ j + 1 = i BY <1>3, <5>1
          <6>. QED BY <5>2, <6>1
        <5>6. Ended' = {i - 1} BY <5>4, <5>5
        <5>. QED BY <1>2, <4>2, <5>4, <5>6 DEF OneRead
      <4>. QED BY <3>1, <4>1, <4>2 DEF OneRead
    <3>8. \A i \in Ended' : Fits(done'[i].of)
      <4> SUFFICES ASSUME NEW i \in Ended' PROVE Fits(done'[i].of) OBVIOUS
      <4>1. i + 1 \in Ended /\ i \in Nat \ {0} BY <1>3
      <4>2. i = (i + 1) - 1 /\ i + 1 # 1 BY <4>1
      <4>3. done'[i] = done[i + 1] BY <1>3, <4>1, <4>2
      <4>. QED BY <3>1, <4>1, <4>3
    <3>9. m \in Messages \cup {"connect4"} => Is("ready")
      BY <1>9, <3>1, <3>5 DEF Follows, Fits, ReadKinds, Messages
    <3>. QED BY <3>1, <3>4, <3>6, <3>7, <3>8, <3>9
  <2>9. m \notin {"again", "read_until"} BY <1>9
  <2>. QED BY <1>2, <1>4, <2>3, <2>4, <2>5, <2>6, <2>7, <2>8, <2>9, SameWord DEF OfReads, Fits
<1>. QED BY <1>5, <1>6, <1>11, <1>12, <1>13, <1>14, <1>15, IoGoes

-----------------------------------------------------------------------------
(* The theorems *)

LEMMA First == Init => IInv
<1> SUFFICES ASSUME Init PROVE IInv OBVIOUS
<1>1. /\ role \in Roles /\ m_state = 0 /\ load = [t \in Threads |-> Nil]
      /\ reads = <<>> /\ writes = 0 /\ done = <<>>
      /\ up = FALSE /\ met = FALSE /\ erased = FALSE /\ known = {}
      /\ role[1] \in {"client", "server"} /\ role[2] \in BOOLEAN
  BY PeerConstants DEF Init
<1>2. \A b \in Marked : ~Is(b)
  <2>1. Bits(0) = {} /\ 0 \in 0..127 BY NoBits
  <2>. QED BY <1>1, <2>1 DEF Bits, Marked, Bit, Is
<1>3. Ended = {} /\ DOMAIN done = {} BY <1>1 DEF Ended
<1>4. ~Is("server") /\ ~Is("connected") /\ ~Is("ready") /\ ~Is("websocket") BY <1>2 DEF Marked
<1>5. socket \in {"open", "connecting"} /\ (Server <=> socket = "open")
  BY <1>1 DEF Init, Server
<1>6. Data
  <2>1. m_state \in Word BY <1>1 DEF Word, WordSize
  <2>2. reads \in Seq(ReadKinds) /\ done \in Seq(Completion) /\ writes \in Nat BY <1>1
  <2>3. {up, met, erased} \subseteq BOOLEAN /\ known \subseteq Faults BY <1>1
  <2>. QED BY <1>1, <1>5, <2>1, <2>2, <2>3 DEF Data
<1>7. Shape BY <1>1, <1>3, <1>5 DEF Shape
<1> DEFINE n == IF Server THEN (IF role[2] THEN "waccept1" ELSE "accept1") ELSE "rest"
<1>8. /\ DOMAIN todo = Threads /\ todo[Io] = Path[n] /\ \A u \in Users : todo[u] = Path["rest"]
  <2>1. CASE Server
    <3>1. todo = [t \in Threads |-> IF t = Io THEN on_accept(role[2]) ELSE <<>>]
      BY <2>1 DEF Init, Server
    <3>2. on_accept(role[2]) = Path[n]
      <4>1. CASE role[2] = TRUE BY <2>1, <4>1, Answers
      <4>2. CASE role[2] = FALSE BY <2>1, <4>2, Answers
      <4>. QED BY <1>1, <4>1, <4>2
    <3>. QED BY <3>1, <3>2, Answers, IoAssumption DEF Threads
  <2>2. CASE ~Server
    <3>1. todo = [t \in Threads |-> <<>>] BY <1>1, <2>2 DEF Init, Server
    <3>. QED BY <2>2, <3>1, Answers DEF Threads
  <2>. QED BY <2>1, <2>2
<1>9. Doing BY <1>1, <1>8 DEF Doing, UserPlace
<1>10. n \in IoPlace /\ (Server => n \in Accepting) /\ (~Server => n = "rest")
  BY IoKinds DEF Accepting
<1> HIDE DEF n
<1>11. \A u \in Users : ~Swept(u)
  <2>1. /\ Path["sweep1"] # <<>> /\ Path["sweep2"] # <<>>
        /\ Path["sweep3"] # <<>> /\ Path["sweep4"] # <<>>
    BY DEF Path
  <2>. QED BY <1>8, <2>1, Answers DEF Swept, Sweeping
<1>12. Server => OfServer(n) BY <1>1, <1>5, <1>10, <1>11 DEF OfServer, Open
<1>13. ~Server => OfClient(n)
  BY <1>1, <1>3, <1>4, <1>10 DEF OfClient, Beginning, Connected
<1>14. OfReads(n)
  BY <1>1, <1>3, <1>4, <1>10 DEF OfReads, NoRead, Beginning, Accepting, There, Served
<1>15. InvAt(n) BY <1>8, <1>12, <1>13, <1>14 DEF InvAt
<1>. QED BY <1>6, <1>7, <1>9, <1>10, <1>15 DEF IInv

LEMMA Steps ==
  ASSUME Data, Doing, Shape, NEW n \in IoPlace, InvAt(n), NEW t \in Threads, Step(t)
  PROVE  IInv'
<1>1. CASE load_target(t) \/ load_diff(t) BY <1>1, LoadBegins
<1>2. CASE load_add(t) BY <1>2, IoAdds, UserAdds DEF Threads
<1>3. CASE async_read(t) BY <1>3, IoReads, UserNever DEF Threads
<1>4. CASE async_write(t) BY <1>4, IoWrites, UserWrites DEF Threads
<1>5. CASE close(t) BY <1>5, IoCloses, UserCloses DEF Threads
<1>6. CASE shutdown(t) BY <1>6, IoShutsDown, UserShutsDown DEF Threads
<1>7. CASE connect(t) BY <1>7, IoConnects, UserConnects DEF Threads
<1>8. CASE notify_connect(t) BY <1>8, IoNotifiesConnect, UserNever DEF Threads
<1>9. CASE notify_close(t) BY <1>9, IoNotifiesClose, UserNever DEF Threads
<1>10. CASE on_read(t) BY <1>10, IoReadsMessage, UserNever DEF Threads
<1>11. CASE add_peer(t) BY <1>11, IoAddsPeer, UserNever DEF Threads
<1>12. CASE erase(t) BY <1>12, IoErases, UserErases DEF Threads
<1>. QED BY <1>1, <1>2, <1>3, <1>4, <1>5, <1>6, <1>7, <1>8, <1>9, <1>10, <1>11, <1>12 DEF Step

\* The invariant holds of every behaviour of the connection, for any threads,
\* roles and bounds: it is what the theorems below rest on.
THEOREM Inductive == Spec => []IInv
<1>1. Init => IInv BY First
<1>2. IInv /\ [Next]_vars => IInv'
  <2> SUFFICES ASSUME IInv, [Next]_vars PROVE IInv' OBVIOUS
  <2>1. Data /\ Doing /\ Shape BY DEF IInv
  <2>2. PICK n \in IoPlace : InvAt(n) BY DEF IInv
  <2>3. ASSUME NEW t \in Threads, Step(t) PROVE IInv' BY <2>1, <2>2, <2>3, Steps
  <2>4. ASSUME NEW t \in Threads, async_connect(t) PROVE IInv'
    BY <2>1, <2>2, <2>4, IoCalls, UserCalls DEF Threads
  <2>5. ASSUME NEW t \in Users, send(t) \/ handle_message(t) \/ clean_inactive_peer(t) PROVE IInv'
    BY <2>1, <2>2, <2>5, UserCalls
  <2>6. CASE Handle BY <2>1, <2>2, <2>6, Handles
  <2>7. CASE Network BY <2>1, <2>2, <2>7, Establishes, Arrives, WriteEnds DEF Network
  <2>8. CASE Break BY <2>1, <2>2, <2>8, Breaks
  <2>9. CASE UNCHANGED vars
    <3>1. UNCHANGED <<role, m_state, todo, load, socket, reads, writes, done, up, met, erased, known>>
      BY <2>9 DEF vars, ioVars
    <3>2. Data' /\ Shape' BY <2>1, <3>1, Same DEF Data, Shape
    <3>3. Server => OfServer(n)' BY <2>2, <3>1, Same DEF OfServer, InvAt, Swept
    <3>4. ~Server /\ Kept' => OfClient(n)'
      BY <2>2, <3>1, Same DEF OfClient, InvAt, Kept, Broken, Made
    <3>5. KeptReads' => OfReads(n)'
      BY <2>2, <3>1, Same DEF OfReads, InvAt, KeptReads, There, Served, Fits, Made
    <3>. QED BY <2>1, <2>2, <3>1, <3>2, <3>3, <3>4, <3>5, Outside
  <2>. QED BY <2>3, <2>4, <2>5, <2>6, <2>7, <2>8, <2>9 DEF Next
<1>. QED BY <1>1, <1>2, PTL DEF Spec

\* No thread has anything left to do.
LEMMA Resting ==
  ASSUME IInv, Quiet
  PROVE  /\ InvAt("rest")
         /\ \A u \in Users : todo[u] # Path["sweep4"]
<1>1. PICK n \in IoPlace : InvAt(n) BY DEF IInv
<1>2. n = "rest" BY <1>1, PlacesOf, At DEF Quiet, Threads, InvAt
<1>3. Path["sweep4"] # <<>> BY DEF Path
<1>4. \A u \in Users : todo[u] # Path["sweep4"] BY <1>3 DEF Quiet, Free, Threads
<1>. QED BY <1>1, <1>2, <1>4

\* The variables have their types, and a load in progress is of a change of
\* the state word, whatever goes wrong.
THEOREM TypeCorrect == Spec => []TypeOK
<1>1. IInv => TypeOK
  <2> SUFFICES ASSUME IInv PROVE TypeOK OBVIOUS
  <2>1. Data /\ Doing BY DEF IInv
  <2>2. \A i \in DOMAIN done : done[i].of \in {"connect", "head", "data", "until", "write"}
    <3>1. \A i \in DOMAIN done : done[i] \in Completion BY <2>1 DEF Data
    <3>. QED BY <3>1 DEF Completion
  <2>. QED BY <2>1, <2>2 DEF Data, Doing, TypeOK, ReadKinds
<1>. QED BY <1>1, Inductive, PTL

\* A connection that is there is read, by one read and not by two, with other
\* threads changing the state at any step, until one of the four faults that
\* ReadArmed names has happened.
THEOREM OneReadArmed == Spec => []ReadArmed
<1>1. IInv => ReadArmed
  <2> SUFFICES ASSUME IInv, Quiet, ~erased, Open, Served, KeptReads
               PROVE  Len(reads) + Cardinality(ReadsDone) = 1
    BY DEF ReadArmed, KeptReads
  <2>1. OneRead BY Resting DEF InvAt, OfReads, There
  <2>2. ReadsDone = Ended BY DEF ReadsDone, Ended, ReadKinds
  <2>3. Cardinality({}) = 0 /\ \A i : Cardinality({i}) = 1 BY FS_EmptySet, FS_Singleton
  <2>4. CASE Ended = {} /\ Len(reads) = 1 BY <2>2, <2>3, <2>4
  <2>5. CASE reads = <<>> /\ \E i \in Ended : Ended = {i}
    <3>1. Len(reads) = 0 BY <2>5
    <3>2. Cardinality(Ended) = 1 BY <2>3, <2>5
    <3>. QED BY <2>2, <3>1, <3>2
  <2>. QED BY <2>1, <2>4, <2>5 DEF OneRead
<1>. QED BY <1>1, Inductive, PTL

\* A peer at rest without a connection has none of the bits of one, until a
\* change of the word is lost or a client closes a connection just made.
THEOREM DownWhenClosed == Spec => []ClosedIsDown
<1>1. IInv => ClosedIsDown
  <2> SUFFICES ASSUME IInv, Quiet, ~Open, done = <<>>, ~erased, Kept
               PROVE  ~Served /\ ~Is("ready") /\ ~Is("websocket")
    BY DEF ClosedIsDown, Kept
  <2>1. InvAt("rest") /\ \A u \in Users : todo[u] # Path["sweep4"] BY Resting
  <2>2. ~Server BY <2>1 DEF InvAt, OfServer
  <2>3. OfClient("rest") BY <2>1, <2>2 DEF InvAt
  <2>4. DOMAIN done = {} BY DEF Data
  <2>5. ~Is("connected")
    BY <2>3, <2>4 DEF OfClient, ToRead, Accepting, Beginning, Connected, Messages
  <2>. QED BY <2>3, <2>5 DEF OfClient, Served
<1>. QED BY <1>1, Inductive, PTL

LEMMA NoneEnded == done = <<>> => Ended = {}
BY DEF Ended

\* A connection the handler was told of does not go without on_close(), for a
\* server in every case that CloseIsTold speaks of, for a client until it has
\* closed a connection just made.
THEOREM ClosesAreTold == Spec => [](role[1] = "server" \/ "cut" \notin known => CloseIsTold)
<1>1. IInv => (role[1] = "server" \/ "cut" \notin known => CloseIsTold)
  <2> SUFFICES ASSUME IInv, Server \/ "cut" \notin known, up, Quiet,
                      "update lost" \notin known, "swept" \notin known, ~Open
               PROVE  done # <<>>
    BY DEF CloseIsTold, Server
  <2>1. InvAt("rest") /\ \A u \in Users : todo[u] # Path["sweep4"] BY Resting
  <2>2. ~Server BY <2>1 DEF InvAt, OfServer, Closing
  <2>3. OfClient("rest") BY <2>1, <2>2 DEF InvAt, Kept
  <2>4. reads = <<>> BY DEF IInv, Shape
  <2>5. Ended # {}
    BY <2>3, <2>4 DEF OfClient, ToRead, Accepting, Beginning, Connected, Messages, Closing
  <2>. QED BY <2>5, NoneEnded
<1>. QED BY <1>1, Inductive, PTL

=============================================================================
