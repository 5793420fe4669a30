-------------------------- MODULE TcpClientProofs --------------------------
(***************************************************************************)
(* Theorems about the TCP client's connection and sessions, for any users,  *)
(* session ids, addresses and number of connects, in four layers: types,    *)
(* logins, sessions, and the loads of the addresses.                        *)
(***************************************************************************)
EXTENDS TcpClient, SequenceTheorems, FiniteSetTheorems, TLAPS

\* on_connect() belongs to a connection that is up.
Phases ==
  /\ link = "connected" => io \in {"on_connect", "idle"}
  /\ io = "on_connect" => link = "connected"
\* Without a connection the server has no session.
ServerForgets == link # "connected" => \A s \in Sids : srv[s] = Nil
TInv == TypeOK /\ Phases /\ ServerForgets

-----------------------------------------------------------------------------
(* Induction, and the least of a set of numbers *)

\* Mathematical induction, stated with a set: a number left out would make `down'
\* an injection of a finite set into itself that misses one element.
LEMMA Induction ==
  ASSUME NEW S, 0 \in S, \A n \in Nat : n \in S => n + 1 \in S
  PROVE  \A n \in Nat : n \in S
<1> SUFFICES ASSUME NEW x \in Nat, x \notin S PROVE FALSE
  OBVIOUS
<1> DEFINE T == {y \in 0..x : y \notin S}
           down == [y \in T |-> y - 1]
<1>1. \A y \in T : y - 1 \in T
  <2> SUFFICES ASSUME NEW y \in 0..x, y \notin S PROVE y - 1 \in 0..x /\ y - 1 \notin S
    OBVIOUS
  <2>1. y # 0 /\ y - 1 \in Nat /\ (y - 1) + 1 = y
    OBVIOUS
  <2> QED BY <2>1
<1>2. IsFiniteSet(T)
  BY FS_Interval, FS_Subset, 0 \in Int, x \in Int
<1>3. down \in Injection(T, T)
  <2>1. down \in [T -> T]
    BY <1>1
  <2>2. \A a, b \in T : down[a] = down[b] => a = b
    OBVIOUS
  <2> HIDE DEF down, T
  <2> QED BY <2>1, <2>2 DEF Injection, IsInjective
<1>4. down \in Surjection(T, T)
  <2> HIDE DEF down, T
  <2> QED BY <1>2, <1>3, FS_Injection
<1>5. x \in T /\ x + 1 \notin T
  OBVIOUS
<1>6. PICK y \in T : down[y] = x
  <2> HIDE DEF down, T
  <2> QED BY <1>4, <1>5 DEF Surjection
<1> QED BY <1>5, <1>6

\* A set of numbers has a least element.
LEMMA Smallest ==
  ASSUME NEW T, T \subseteq Nat, T # {}
  PROVE  \E x \in T : \A y \in T : x <= y
<1> DEFINE S == {n \in Nat : \A x \in T : n <= x}
<1> SUFFICES ASSUME ~\E x \in T : \A y \in T : x <= y PROVE FALSE
  OBVIOUS
<1>1. 0 \in S
  OBVIOUS
<1>2. ASSUME NEW n \in Nat, n \in S PROVE n + 1 \in S
  <2>1. \A x \in T : n <= x
    BY <1>2
  <2>2. n \notin T
    BY <2>1
  <2>3. \A x \in T : x \in Nat /\ n <= x /\ x # n
    BY <2>1, <2>2
  <2>4. \A x \in T : n + 1 <= x
    BY <2>3
  <2> QED BY <2>4
<1> HIDE DEF S
<1>3. \A n \in Nat : n \in S
  BY <1>1, <1>2, Induction
<1>4. PICK x \in T : x \in Nat
  OBVIOUS
<1>5. x + 1 \in S
  BY <1>3, <1>4
<1> QED BY <1>4, <1>5 DEF S

-----------------------------------------------------------------------------
(* The load balancer *)

\* One step of the search, and the search up to the n-th element.
AmongStep(s, S, g, n) ==
  IF n = 0 THEN <<>> ELSE IF s[n] \in S THEN Append(g[n - 1], s[n]) ELSE g[n - 1]
Searches(s, S, n, g) == g = [i \in 0..n |-> AmongStep(s, S, g, i)]

\* A search function exists up to every length.
LEMMA SearchExists == \A s, S : \A n \in Nat : \E g : Searches(s, S, n, g)
<1> SUFFICES ASSUME NEW s, NEW S PROVE \A n \in Nat : \E g : Searches(s, S, n, g)
  OBVIOUS
<1> DEFINE N == {n \in Nat : \E g : Searches(s, S, n, g)}
<1>1. 0 \in N
  <2> DEFINE g == [i \in 0..0 |-> <<>>]
  <2>1. g = [i \in 0..0 |-> AmongStep(s, S, g, i)]
    BY DEF AmongStep
  <2> HIDE DEF g
  <2> QED BY <2>1 DEF Searches
<1>2. ASSUME NEW n \in Nat, n \in N PROVE n + 1 \in N
  <2>1. PICK g : Searches(s, S, n, g)
    BY <1>2
  <2> DEFINE h == [i \in 0..(n + 1) |-> AmongStep(s, S, g, i)]
  <2>2. \A i \in 0..n : h[i] = g[i]
    <3>1. \A i \in 0..n : g[i] = AmongStep(s, S, g, i)
      BY <2>1 DEF Searches
    <3>2. \A i \in 0..n : i \in 0..(n + 1)
      OBVIOUS
    <3> QED BY <3>1, <3>2
  <2>3. \A i \in 0..(n + 1) : AmongStep(s, S, h, i) = AmongStep(s, S, g, i)
    <3> HIDE DEF h
    <3>1. \A i \in 0..(n + 1) : i # 0 => h[i - 1] = g[i - 1]
      BY <2>2
    <3> QED BY <3>1 DEF AmongStep
  <2>4. h = [i \in 0..(n + 1) |-> AmongStep(s, S, h, i)]
    BY <2>3
  <2> HIDE DEF h
  <2> QED BY <2>4 DEF Searches
<1> HIDE DEF N
<1>3. \A n \in Nat : n \in N
  BY <1>1, <1>2, Induction
<1> QED BY <1>3 DEF N

\* What is kept of a sequence is a sequence of its elements.
LEMMA AmongType ==
  ASSUME NEW T, NEW s \in Seq(T), NEW S
  PROVE  Among(s, S) \in Seq(T) /\ (s = <<>> => Among(s, S) = <<>>)
<1> DEFINE g == CHOOSE f : Searches(s, S, Len(s), f)
<1>1. Len(s) \in Nat /\ Searches(s, S, Len(s), g)
  BY SearchExists, LenProperties
<1>2. Among(s, S) = g[Len(s)]
  BY DEF Among, Searches, AmongStep
<1> HIDE DEF g
<1>3. \A n \in 0..Len(s) : g[n] = AmongStep(s, S, g, n)
  BY <1>1 DEF Searches
<1> DEFINE N == {n \in Nat : n <= Len(s) => g[n] \in Seq(T)}
<1>4. 0 \in N
  <2>1. 0 \in 0..Len(s)
    BY <1>1
  <2>2. g[0] = <<>>
    BY <1>3, <2>1 DEF AmongStep
  <2> QED BY <2>2, EmptySeq
<1>5. ASSUME NEW n \in Nat, n \in N PROVE n + 1 \in N
  <2> SUFFICES ASSUME n + 1 <= Len(s) PROVE g[n + 1] \in Seq(T)
    OBVIOUS
  <2>1. /\ g[n] \in Seq(T) /\ n + 1 \in 0..Len(s) /\ n + 1 \in 1..Len(s)
        /\ n + 1 # 0 /\ (n + 1) - 1 = n
    BY <1>1, <1>5
  <2>2. s[n + 1] \in T
    BY <2>1, ElementOfSeq
  <2>3. g[n + 1] = IF s[n + 1] \in S THEN Append(g[n], s[n + 1]) ELSE g[n]
    BY <1>3, <2>1 DEF AmongStep
  <2> QED BY <2>1, <2>2, <2>3, AppendProperties
<1> HIDE DEF N
<1>6. Len(s) \in N
  BY <1>1, <1>4, <1>5, Induction
<1>7. Among(s, S) \in Seq(T)
  BY <1>1, <1>2, <1>6 DEF N
<1>8. s = <<>> => Among(s, S) = <<>>
  BY <1>2, <1>3, EmptySeq DEF AmongStep
<1> QED BY <1>7, <1>8


Entry == [addr : Addresses, load : 0..(LoadSize - 1)]

\* Of addresses there is one with the fewest connects, the first of them.
LEMMA LeastLoaded ==
  ASSUME m_address_set \in Seq(Entry), m_address_set # <<>>
  PROVE  /\ min_workload \in 1..Len(m_address_set)
         /\ \A j \in 1..Len(m_address_set) : m_address_set[min_workload].load <= m_address_set[j].load
<1> DEFINE D == 1..Len(m_address_set)
           Load(i) == m_address_set[i].load
<1>1. DOMAIN m_address_set = D /\ D \subseteq Nat /\ 1 \in D /\ Len(m_address_set) \in Nat
  BY EmptySeq, LenProperties
<1>2. \A i \in D : Load(i) \in Nat
  <2>1. \A i \in D : m_address_set[i] \in Entry
    BY ElementOfSeq
  <2> QED BY <2>1, ClientAssumption DEF Entry
<1> HIDE DEF D
<1>3. PICK a \in D : \A j \in D : Load(a) <= Load(j)
  <2> DEFINE T == {Load(i) : i \in D}
  <2>1. T \subseteq Nat /\ T # {}
    BY <1>1, <1>2
  <2>2. PICK x \in T : \A y \in T : x <= y
    BY <2>1, Smallest
  <2> QED BY <2>2
<1>4. PICK b \in D : /\ \A j \in D : Load(b) <= Load(j)
                     /\ \A c \in D : (\A j \in D : Load(c) <= Load(j)) => b <= c
  <2> DEFINE T == {i \in D : \A j \in D : Load(i) <= Load(j)}
  <2>1. T \subseteq Nat /\ T # {}
    BY <1>1, <1>3
  <2>2. PICK x \in T : \A y \in T : x <= y
    BY <2>1, Smallest
  <2> QED BY <2>2
<1>5. \A j \in 1..(b - 1) : Load(b) < Load(j)
  <2> SUFFICES ASSUME NEW j \in 1..(b - 1) PROVE Load(b) < Load(j)
    OBVIOUS
  <2>1. j \in D /\ j \in Nat /\ b \in Nat /\ j < b
    BY <1>1 DEF D
  <2>2. Load(b) <= Load(j) /\ Load(b) \in Nat /\ Load(j) \in Nat
    BY <1>2, <1>4, <2>1
  <2>3. PICK k \in D : ~(Load(j) <= Load(k))
    BY <1>4, <2>1
  <2>4. Load(b) <= Load(k) /\ Load(k) \in Nat
    BY <1>2, <1>4
  <2> HIDE DEF Load
  <2> QED BY <2>2, <2>3, <2>4
<1> DEFINE IsMin(i) == /\ \A j \in D : Load(i) <= Load(j)
                       /\ \A j \in 1..(i - 1) : Load(i) < Load(j)
<1>6. min_workload = CHOOSE i \in D : IsMin(i)
  BY <1>1 DEF min_workload
<1>7. IsMin(b) /\ b \in D
  BY <1>4, <1>5
<1>8. min_workload \in D /\ IsMin(min_workload)
  <2> HIDE DEF IsMin
  <2> QED BY <1>6, <1>7
<1> QED BY <1>8 DEF D

\* update_address() leaves a list of addresses with their loads, and one of
\* fresh addresses when there was none.
LEMMA UpdatedType ==
  ASSUME m_address_set \in Seq(Entry), NEW addrs \in AddressSets
  PROVE  /\ Updated(addrs) \in Seq(Entry)
         /\ m_address_set = <<>> =>
              \A i \in 1..Len(Updated(addrs)) : Updated(addrs)[i].load = 0
<1> DEFINE kept == Among(m_address_set, {a \in ToSet(m_address_set) : a.addr \in ToSet(addrs)})
           n == NewAmong(addrs)
           fresh == [i \in DOMAIN n |-> [addr |-> n[i], load |-> 0]]
<1>1. kept \in Seq(Entry) /\ (m_address_set = <<>> => kept = <<>>)
  BY AmongType
<1>2. n \in Seq(Addresses)
  BY AmongType, ClientAssumption DEF NewAmong
<1>3. Updated(addrs) = kept \o fresh
  BY DEF Updated
<1> HIDE DEF kept, n
<1>4. Len(n) \in Nat /\ DOMAIN n = 1..Len(n) /\ \A i \in 1..Len(n) : n[i] \in Addresses
  BY <1>2, ElementOfSeq, LenProperties
<1>5. fresh \in Seq(Entry) /\ \A i \in 1..Len(fresh) : fresh[i].load = 0
  <2>1. \A i \in 1..Len(n) : [addr |-> n[i], load |-> 0] \in Entry
    BY <1>4, ClientAssumption DEF Entry
  <2>2. fresh = [i \in 1..Len(n) |-> [addr |-> n[i], load |-> 0]]
    BY <1>4
  <2>3. fresh \in Seq(Entry)
    BY <1>4, <2>1, <2>2, IsASeq
  <2>4. Len(fresh) = Len(n)
    BY <1>4, <2>2
  <2> QED BY <2>2, <2>3, <2>4
<1> HIDE DEF fresh
<1>6. kept \o fresh \in Seq(Entry)
  BY <1>1, <1>5, ConcatProperties
<1>7. m_address_set = <<>> => kept \o fresh = fresh
  BY <1>1, <1>5, ConcatEmptySeq
<1> QED BY <1>3, <1>5, <1>6, <1>7


-----------------------------------------------------------------------------
(* Types *)

Answer == [key : Keys, sid : Sids]
CountNames == {"mishaps", "updates", "auths"}

\* A bound counts up and the others stay.
LEMMA CountKeeps ==
  ASSUME counts \in [CountNames -> Nat], NEW x \in CountNames, Count(x)
  PROVE  /\ counts' \in [CountNames -> Nat] /\ counts'[x] = counts[x] + 1
         /\ \A y \in CountNames \ {x} : counts'[y] = counts[y]
BY DEF Count

\* A count of connects stays below its width, and goes up by one or wraps.
LEMMA UsedOnceMore ==
  ASSUME NEW n \in Nat \ {0}, NEW x \in 0..(n - 1)
  PROVE  (x + 1) % n \in 0..(n - 1) /\ (x + 1 # n => (x + 1) % n = x + 1)
<1>1. CASE x + 1 = n
  <2>1. n % n = 0 OBVIOUS
  <2>. QED BY <1>1, <2>1
<1>2. CASE x + 1 # n
  <2>1. x + 1 \in 0..(n - 1) BY <1>2
  <2>2. \A y \in 0..(n - 1) : y % n = y OBVIOUS
  <2>. QED BY <2>1, <2>2
<1>. QED BY <1>1, <1>2

\* A connect ends a connection's absence; the io thread may end in it.
LEMMA ConnectLink ==
  ASSUME TypeOK, NEW caller, connect(caller)
  PROVE  /\ link # "connected" /\ link' \in {"down", "connecting"}
         /\ io' = io \/ (caller = "io" /\ io' = "ended")
         /\ known \subseteq known' /\ known' \subseteq Faults
BY DEF connect, TypeOK, Faults

\* The addresses, the loads and the counters after a connect.
LEMMA ConnectKeeps ==
  ASSUME TypeOK, NEW caller, connect(caller)
  PROVE  /\ m_address_set' \in Seq(Entry) /\ m_address_set' # <<>>
         /\ Len(m_address_set') = Len(m_address_set)
         /\ "wrap" \notin known' => \A j \in 1..Len(m_address_set) :
              m_address_set'[j].load = m_address_set[j].load + (IF j = min_workload THEN 1 ELSE 0)
         /\ counts' \in [CountNames -> Nat] /\ counts'["updates"] = counts["updates"]
<1>1. m_address_set \in Seq(Entry) /\ m_address_set # <<>> /\ counts \in [CountNames -> Nat]
  BY DEF TypeOK, connect, Entry, CountNames
<1>2. min_workload \in 1..Len(m_address_set)
  BY <1>1, LeastLoaded
<1>. DEFINE m == min_workload
            x == m_address_set[m].load
            e == [m_address_set[m] EXCEPT !.load = (x + 1) % LoadSize]
<1>3. m_address_set' = [m_address_set EXCEPT ![m] = e]
  BY DEF connect
<1>4. m_address_set[m] \in Entry
  BY <1>1, <1>2, ElementOfSeq
<1>5. x \in 0..(LoadSize - 1) /\ LoadSize \in Nat \ {0}
  BY <1>4, ClientAssumption DEF Entry
<1>6. (x + 1) % LoadSize \in 0..(LoadSize - 1) /\ (x + 1 # LoadSize => (x + 1) % LoadSize = x + 1)
  <2>. HIDE DEF x
  <2>. QED BY <1>5, UsedOnceMore
<1>7. e \in Entry /\ e.load = (x + 1) % LoadSize
  <2>. HIDE DEF x
  <2>. QED BY <1>4, <1>6 DEF Entry
<1>8. "wrap" \notin known' => e.load = x + 1
  <2>1. x + 1 = LoadSize => "wrap" \in known' BY DEF connect
  <2>. HIDE DEF e, x
  <2>. QED BY <1>6, <1>7, <2>1
<1>9. counts' \in [CountNames -> Nat] /\ counts'["updates"] = counts["updates"]
  BY <1>1, CountKeeps DEF connect, CountNames
<1>. HIDE DEF m, e, x
<1>10. /\ m_address_set' \in Seq(Entry) /\ Len(m_address_set') = Len(m_address_set)
       /\ \A j \in 1..Len(m_address_set) : m_address_set'[j] = IF j = m THEN e ELSE m_address_set[j]
  BY <1>1, <1>2, <1>3, <1>7, ExceptSeq DEF m
<1>11. ASSUME "wrap" \notin known', NEW j \in 1..Len(m_address_set)
       PROVE  m_address_set'[j].load = m_address_set[j].load + (IF j = m THEN 1 ELSE 0)
  <2>1. m_address_set[j].load \in Nat
    <3>1. m_address_set[j] \in Entry BY <1>1, ElementOfSeq
    <3>. QED BY <3>1, ClientAssumption DEF Entry
  <2>2. CASE j = m BY <1>8, <1>10, <1>11, <2>2 DEF x
  <2>3. CASE j # m BY <1>10, <2>1, <2>3
  <2>. QED BY <2>2, <2>3
<1>12. m_address_set' # <<>>
  BY <1>1, <1>10, EmptySeq
<1>. QED BY <1>9, <1>10, <1>11, <1>12 DEF m

\* The steps by what they leave alone.
OfSessions(k) == open_session(k) \/ encode(k) \/ encoded(k) \/ async_send(k)
                 \/ close_session(k) \/ drop_session(k)
LEMMA AddressesApart ==
  ASSUME Established \/ on_connect \/ on_close \/ on_read \/ handle_client_context
         \/ UNCHANGED vars \/ \E k \in Keys : OfSessions(k)
  PROVE  UNCHANGED <<balanceVars, counts>>
BY DEF Established, on_connect, on_close, on_read, handle_client_context, vars, OfSessions,
       open_session, encode, encoded, async_send, close_session, drop_session

\* The addresses stay a list of loads.
LEMMA AddressStep ==
  ASSUME TypeOK, [Next]_vars
  PROVE  m_address_set' \in Seq(Entry) /\ counts' \in [CountNames -> Nat]
<1>. USE DEF CountNames
<1>1. m_address_set \in Seq(Entry) /\ counts \in [CountNames -> Nat]
  BY DEF TypeOK, Entry
<1>2. ASSUME NEW addrs \in AddressSets, update_address(addrs)
      PROVE  m_address_set' \in Seq(Entry) /\ counts' \in [CountNames -> Nat]
  BY <1>1, <1>2, UpdatedType, CountKeeps DEF update_address
<1>3. CASE async_connect \/ on_timer
  BY <1>3, ConnectKeeps DEF async_connect, on_timer
<1>4. CASE Refused \/ Lost
  BY <1>1, <1>4, CountKeeps DEF Refused, Lost, balanceVars
<1>5. ASSUME NEW k \in Keys, find_authority(k)
      PROVE  m_address_set' \in Seq(Entry) /\ counts' \in [CountNames -> Nat]
  BY <1>1, <1>5, CountKeeps DEF find_authority, balanceVars
<1>6. CASE UNCHANGED <<balanceVars, counts>>
  BY <1>1, <1>6 DEF balanceVars
<1>. QED BY <1>2, <1>3, <1>4, <1>5, <1>6, AddressesApart DEF Next, InIo, InUser, OfSessions

\* What is known stays known.
LEMMA KnownGrows ==
  ASSUME TypeOK, [Next]_vars PROVE known \subseteq known' /\ known' \subseteq Faults
<1>. USE DEF TypeOK, Faults
<1>1. CASE async_connect \/ on_timer
  BY <1>1, ConnectLink DEF async_connect, on_timer
<1>2. CASE handle_client_context \/ \E k \in Keys : close_session(k)
  BY <1>2 DEF handle_client_context, close_session, Record
<1>3. ASSUME \/ \E addrs \in AddressSets : update_address(addrs)
             \/ Established \/ Refused \/ Lost \/ on_connect \/ on_close \/ on_read \/ UNCHANGED vars
             \/ \E k \in Keys : open_session(k) \/ find_authority(k) \/ encode(k) \/ encoded(k)
                                \/ async_send(k) \/ drop_session(k)
      PROVE  known' = known
  BY <1>3 DEF update_address, Established, Refused, Lost, on_connect, on_close, on_read, vars,
       open_session, find_authority, encode, encoded, async_send, drop_session
<1>. QED BY <1>1, <1>2, <1>3 DEF Next, InIo, InUser

\* A sequence of a set's elements, each once, has all of them.
LEMMA LoginsAll ==
  ASSUME NEW S \in SUBSET Keys, NEW logins \in SetToSeqs(S)
  PROVE  logins \in Seq(S) /\ \A k \in S : \E i \in 1..Len(logins) : logins[i] = k
<1> DEFINE D == 1..Cardinality(S)
<1>1. IsFiniteSet(S) /\ Cardinality(S) \in Nat
  BY KeysFinite, FS_Subset, FS_CardinalityType
<1>2. logins \in [D -> S] /\ \A i, j \in D : i # j => logins[i] # logins[j]
  BY DEF SetToSeqs
<1>3. IsFiniteSet(D) /\ Cardinality(D) = Cardinality(S)
  <2>1. Cardinality(S) \in Int /\ 1 \in Int
    BY <1>1
  <2>2. IsFiniteSet(D) /\ Cardinality(D) = IF 1 > Cardinality(S) THEN 0 ELSE Cardinality(S) - 1 + 1
    BY <2>1, FS_Interval
  <2> DEFINE c == Cardinality(S)
  <2>3. c \in Nat /\ Cardinality(D) = IF 1 > c THEN 0 ELSE c - 1 + 1
    BY <1>1, <2>2
  <2>4. (IF 1 > c THEN 0 ELSE c - 1 + 1) = c
    <3> HIDE DEF c
    <3> QED BY <2>3
  <2> QED BY <2>2, <2>3, <2>4
<1>4. logins \in Seq(S) /\ Len(logins) = Cardinality(S)
  BY <1>1, <1>2
<1> HIDE DEF D
<1>5. logins \in Injection(D, S)
  BY <1>2 DEF Injection, IsInjective
<1>6. logins \in Surjection(D, S)
  BY <1>1, <1>3, <1>5, FS_Injection
<1> QED BY <1>4, <1>6 DEF Surjection, D


\* What stands in two lists put together.
LEMMA AppendedSet ==
  ASSUME NEW T, NEW s \in Seq(T), NEW r \in Seq(T)
  PROVE  ToSet(s) \cup ToSet(r) = ToSet(s \o r)
<1>1. /\ Len(s) \in Nat /\ Len(r) \in Nat /\ Len(s \o r) = Len(s) + Len(r)
      /\ DOMAIN s = 1..Len(s) /\ DOMAIN r = 1..Len(r) /\ s \o r \in Seq(T)
      /\ \A i \in 1..(Len(s) + Len(r)) : (s \o r)[i] = IF i <= Len(s) THEN s[i] ELSE r[i - Len(s)]
  BY ConcatProperties, LenProperties
<1>2. DOMAIN (s \o r) = 1..(Len(s) + Len(r))
  BY <1>1, LenProperties
<1>3. ASSUME NEW i \in 1..Len(s) PROVE s[i] \in ToSet(s \o r)
  <2>1. i \in 1..(Len(s) + Len(r)) /\ (s \o r)[i] = s[i]
    BY <1>1
  <2> QED BY <1>2, <2>1 DEF ToSet
<1>4. ASSUME NEW i \in 1..Len(r) PROVE r[i] \in ToSet(s \o r)
  <2>1. Len(s) + i \in 1..(Len(s) + Len(r)) /\ ~(Len(s) + i <= Len(s)) /\ (Len(s) + i) - Len(s) = i
    BY <1>1
  <2>2. (s \o r)[Len(s) + i] = r[i]
    BY <1>1, <2>1
  <2> QED BY <1>2, <2>1, <2>2 DEF ToSet
<1>5. ASSUME NEW i \in 1..(Len(s) + Len(r)) PROVE (s \o r)[i] \in ToSet(s) \cup ToSet(r)
  <2>1. CASE i <= Len(s)
    BY <1>1, <2>1 DEF ToSet
  <2>2. CASE ~(i <= Len(s))
    <3>1. i - Len(s) \in 1..Len(r) /\ (s \o r)[i] = r[i - Len(s)]
      BY <1>1, <2>2
    <3> QED BY <1>1, <3>1 DEF ToSet
  <2> QED BY <2>1, <2>2
<1>6. ToSet(s) = {s[i] : i \in 1..Len(s)} /\ ToSet(r) = {r[i] : i \in 1..Len(r)}
      /\ ToSet(s \o r) = {(s \o r)[i] : i \in 1..(Len(s) + Len(r))}
  BY <1>1, <1>2 DEF ToSet
<1> QED BY <1>3, <1>4, <1>5, <1>6

\* on_connect() sends every login that is not being encoded, and some torn ones.
LEMMA ConnectSends ==
  ASSUME TypeOK, on_connect
  PROVE  /\ wire' \in Seq(Keys \cup {Nil}) /\ ToSet(wire) \subseteq ToSet(wire')
         /\ \A k \in Whole : m_authority_map[k] = "requested" => k \in ToSet(wire')
<1>0. PICK torn \in SUBSET {k \in Keys : at[k] = "encoding"} :
        \E logins \in SetToSeqs(torn \cup {k \in Whole : m_authority_map[k] = "requested"}) :
          wire' = wire \o [i \in DOMAIN logins |-> IF logins[i] \in torn THEN Nil ELSE logins[i]]
  BY DEF on_connect
<1>1. PICK logins \in SetToSeqs(torn \cup {k \in Whole : m_authority_map[k] = "requested"}) :
        wire' = wire \o [i \in DOMAIN logins |-> IF logins[i] \in torn THEN Nil ELSE logins[i]]
  BY <1>0
<1>. DEFINE S == torn \cup {k \in Whole : m_authority_map[k] = "requested"}
            sent == [i \in DOMAIN logins |-> IF logins[i] \in torn THEN Nil ELSE logins[i]]
<1>2. S \in SUBSET Keys /\ \A k \in Whole : k \notin torn BY DEF Whole
<1>3. logins \in Seq(S) /\ \A k \in S : \E i \in 1..Len(logins) : logins[i] = k
  <2>. HIDE DEF S
  <2>. QED BY <1>1, <1>2, LoginsAll DEF S
<1>4. Len(logins) \in Nat /\ DOMAIN logins = 1..Len(logins) BY <1>3, LenProperties
<1>5. sent \in Seq(Keys \cup {Nil}) /\ Len(sent) = Len(logins) /\ DOMAIN sent = 1..Len(logins)
  <2>1. \A i \in 1..Len(logins) : logins[i] \in Keys BY <1>2, <1>3, ElementOfSeq
  <2>2. sent = [i \in 1..Len(logins) |-> IF logins[i] \in torn THEN Nil ELSE logins[i]] BY <1>4
  <2>. QED BY <1>4, <2>1, <2>2
<1>6. ASSUME NEW k \in Whole, m_authority_map[k] = "requested" PROVE k \in ToSet(sent)
  <2>1. PICK i \in 1..Len(logins) : logins[i] = k BY <1>3, <1>6
  <2>2. sent[i] = k BY <1>2, <1>4, <2>1
  <2>. QED BY <1>5, <2>2 DEF ToSet
<1>7. wire \in Seq(Keys \cup {Nil}) BY DEF TypeOK
<1>. HIDE DEF sent
<1>8. wire' = wire \o sent BY <1>1 DEF sent
<1>9. ToSet(wire) \cup ToSet(sent) = ToSet(wire \o sent) BY <1>5, <1>7, AppendedSet
<1>. QED BY <1>5, <1>6, <1>7, <1>8, <1>9, ConcatProperties

\* on_read() drops a torn login, or opens a session for one.
LEMMA ReadAnswers ==
  ASSUME TypeOK, on_read
  PROVE  /\ wire' \in Seq(Keys \cup {Nil}) /\ dispatch' \in Seq(Answer)
         /\ \A x \in ToSet(wire) : x = Head(wire) \/ x \in ToSet(wire')
         /\ \/ Head(wire) = Nil /\ UNCHANGED <<srv, dispatch>>
            \/ \E s \in Sids, k \in Keys :
                 /\ srv[s] = Nil /\ k = Head(wire) /\ srv' = [srv EXCEPT ![s] = k]
                 /\ dispatch' = Append(dispatch, [key |-> k, sid |-> s])
<1>1. wire # <<>> /\ wire \in Seq(Keys \cup {Nil}) /\ dispatch \in Seq(Answer) /\ wire' = Tail(wire)
  BY DEF TypeOK, on_read, Answer
<1>2. /\ Head(wire) \in Keys \cup {Nil} /\ Tail(wire) \in Seq(Keys \cup {Nil})
      /\ Len(Tail(wire)) = Len(wire) - 1
      /\ Len(wire) \in Nat \ {0} /\ Head(wire) = wire[1]
      /\ \A i \in 1..Len(Tail(wire)) : Tail(wire)[i] = wire[i + 1]
  BY <1>1, HeadTailProperties, EmptySeq
<1>3. \A x \in ToSet(wire) : x = Head(wire) \/ x \in ToSet(wire')
  <2>. SUFFICES ASSUME NEW i \in 1..Len(wire), wire[i] # wire[1] PROVE wire[i] \in ToSet(wire')
    BY <1>1, <1>2, LenProperties DEF ToSet
  <2>1. i - 1 \in 1..Len(Tail(wire)) /\ (i - 1) + 1 = i
    BY <1>2
  <2>2. Tail(wire)[i - 1] = wire[i] /\ DOMAIN Tail(wire) = 1..Len(Tail(wire))
    BY <1>2, <2>1, LenProperties
  <2>. QED BY <1>1, <2>1, <2>2 DEF ToSet
<1>4. CASE Head(wire) = Nil /\ UNCHANGED <<srv, dispatch>> BY <1>1, <1>2, <1>3, <1>4
<1>5. ASSUME Head(wire) # Nil, NEW s \in Sids, srv[s] = Nil, srv' = [srv EXCEPT ![s] = Head(wire)],
             dispatch' = Append(dispatch, [key |-> Head(wire), sid |-> s])
      PROVE  /\ dispatch' \in Seq(Answer)
             /\ \E x \in Sids, k \in Keys :
                 /\ srv[x] = Nil /\ k = Head(wire) /\ srv' = [srv EXCEPT ![x] = k]
                 /\ dispatch' = Append(dispatch, [key |-> k, sid |-> x])
  <2>1. Head(wire) \in Keys BY <1>2, <1>5
  <2>2. [key |-> Head(wire), sid |-> s] \in Answer BY <2>1 DEF Answer
  <2>3. dispatch' \in Seq(Answer) BY <1>1, <1>5, <2>2, AppendProperties
  <2>. QED BY <1>5, <2>1, <2>3
<1>. QED BY <1>1, <1>2, <1>3, <1>4, <1>5 DEF on_read

\* handle_client_context() takes the first answer.
LEMMA HandleTakes ==
  ASSUME TypeOK, handle_client_context
  PROVE  /\ Len(dispatch) \in Nat \ {0} /\ Len(dispatch') = Len(dispatch) - 1
         /\ dispatch' \in Seq(Answer)
         /\ \A i \in 1..Len(dispatch') : dispatch'[i] = dispatch[i + 1]
         /\ dispatch[1].key \in Keys /\ dispatch[1].sid \in Sids
         /\ Head(dispatch) = dispatch[1]
<1>1. dispatch \in Seq(Answer) /\ dispatch # <<>> /\ dispatch' = Tail(dispatch)
  BY DEF TypeOK, handle_client_context, Answer
<1>2. /\ Head(dispatch) \in Answer /\ Len(dispatch) \in Nat \ {0} /\ Head(dispatch) = dispatch[1]
      /\ Tail(dispatch) \in Seq(Answer) /\ Len(Tail(dispatch)) = Len(dispatch) - 1
      /\ \A i \in 1..Len(Tail(dispatch)) : Tail(dispatch)[i] = dispatch[i + 1]
  BY <1>1, HeadTailProperties, EmptySeq
<1>. QED BY <1>1, <1>2 DEF Answer

\* The types of the sessions' side.
SessionTypes ==
  /\ link \in {"down", "connecting", "connected"}
  /\ io \in {"idle", "on_connect", "on_close", "ended"}
  /\ Phases /\ ServerForgets
  /\ m_authority_map \in [Keys -> {"none", "opened", "requested"}]
  /\ at \in [Keys -> {"idle", "found", "encoding", "encoded"}]
  /\ user \in [Keys -> {"none", "open", "closed", "gone"}]
  /\ {m_session_map, srv} \subseteq [Sids -> Keys \cup {Nil}]
  /\ held \in [Keys -> Sids \cup {Nil}]
  /\ wire \in Seq(Keys \cup {Nil}) /\ dispatch \in Seq(Answer)

LEMMA SessionTypesKept == ASSUME TInv, [Next]_vars PROVE SessionTypes'
<1>0. SessionTypes /\ TypeOK BY DEF TInv, SessionTypes, TypeOK, Answer
<1>. USE DEF SessionTypes, Phases, ServerForgets, balanceVars, sessVars, netVars
<1>1. ASSUME NEW addrs \in AddressSets, update_address(addrs) PROVE SessionTypes'
  BY <1>0, <1>1 DEF update_address
<1>2. CASE async_connect
  BY <1>0, <1>2, ConnectLink DEF async_connect
<1>3. CASE on_timer
  BY <1>0, <1>3, ConnectLink DEF on_timer
<1>4. CASE Established \/ Refused
  BY <1>0, <1>4 DEF Established, Refused
<1>5. CASE Lost
  BY <1>0, <1>5, EmptySeq DEF Lost
<1>6. CASE on_connect
  BY <1>0, <1>6, ConnectSends DEF on_connect
<1>7. CASE on_close
  BY <1>0, <1>7 DEF on_close
<1>8. CASE on_read
  <2>1. wire' \in Seq(Keys \cup {Nil}) /\ dispatch' \in Seq(Answer) BY <1>0, <1>8, ReadAnswers
  <2>2. srv' \in [Sids -> Keys \cup {Nil}] BY <1>0, <1>8, ReadAnswers
  <2>3. UNCHANGED <<link, io, m_authority_map, at, user, m_session_map, held>> /\ link = "connected"
    BY <1>8 DEF on_read
  <2>. QED BY <1>0, <2>1, <2>2, <2>3
<1>9. CASE handle_client_context
  <2>1. dispatch' \in Seq(Answer) BY <1>0, <1>9, HandleTakes
  <2>2. m_session_map' \in [Sids -> Keys \cup {Nil}] /\ held' \in [Keys -> Sids \cup {Nil}]
    BY <1>0, <1>9, HandleTakes DEF handle_client_context
  <2>3. UNCHANGED <<link, io, m_authority_map, at, user, wire, srv>>
    BY <1>9 DEF handle_client_context
  <2>. QED BY <1>0, <2>1, <2>2, <2>3
<1>10. ASSUME NEW k \in Keys,
              open_session(k) \/ find_authority(k) \/ encode(k) \/ encoded(k) \/ drop_session(k)
       PROVE  SessionTypes'
  BY <1>0, <1>10 DEF open_session, find_authority, encode, encoded, drop_session
<1>11. ASSUME NEW k \in Keys, async_send(k) PROVE SessionTypes'
  <2>1. wire' \in Seq(Keys \cup {Nil}) BY <1>0, <1>11, AppendProperties DEF async_send
  <2>. QED BY <1>0, <1>11, <2>1 DEF async_send
<1>12. ASSUME NEW k \in Keys, close_session(k) PROVE SessionTypes'
  BY <1>0, <1>12 DEF close_session
<1>13. CASE UNCHANGED vars
  BY <1>0, <1>13 DEF vars
<1>. QED BY <1>1, <1>2, <1>3, <1>4, <1>5, <1>6, <1>7, <1>8, <1>9, <1>10, <1>11, <1>12, <1>13
        DEF Next, InIo, InUser

LEMMA TypesKept == ASSUME TInv, [Next]_vars PROVE TInv'
<1>1. SessionTypes' /\ m_address_set' \in Seq(Entry) /\ counts' \in [CountNames -> Nat]
      /\ known' \subseteq Faults
  BY SessionTypesKept, AddressStep, KnownGrows DEF TInv
<1>2. (link = "connecting" => io # "on_connect")'
  BY <1>1 DEF SessionTypes, Phases
<1>. QED BY <1>1, <1>2 DEF TInv, TypeOK, SessionTypes, Entry, Answer, CountNames

LEMMA TypesStart == Init => TInv
BY EmptySeq DEF Init, TInv, TypeOK, Phases, ServerForgets, Faults

THEOREM TypesAlways == Spec => []TInv
BY TypesStart, TypesKept, PTL DEF Spec

\* The types hold whatever the environment brings about.
THEOREM TypeCorrect == Spec => []TypeOK
<1>1. TInv => TypeOK BY DEF TInv
<1>. QED BY <1>1, TypesAlways, PTL

-----------------------------------------------------------------------------
(* Logins *)

\* A login that is to be found on the connection, once its user has sent it.
Due(k) == m_authority_map[k] = "requested" /\ at[k] = "idle" /\ user[k] = "open"
Found(k) == k \in ToSet(wire) \/ \E s \in Sids : srv[s] = k

\* What is found on a connection stays there as long as the connection.
LEMMA FoundStays ==
  ASSUME TInv, [Next]_vars, link = "connected", io = "idle", Up', NEW k \in Keys, Found(k)
  PROVE  Found(k)'
<1>0. TypeOK /\ wire \in Seq(Keys \cup {Nil}) /\ srv \in [Sids -> Keys \cup {Nil}]
  BY DEF TInv, TypeOK
<1>. USE DEF Found
<1>1. CASE on_read
  <2>1. \A x \in ToSet(wire) : x = Head(wire) \/ x \in ToSet(wire') BY <1>0, <1>1, ReadAnswers
  <2>2. CASE Head(wire) = Nil /\ UNCHANGED <<srv, dispatch>> BY <2>1, <2>2, NilAssumption
  <2>3. ASSUME NEW s \in Sids, srv[s] = Nil, srv' = [srv EXCEPT ![s] = Head(wire)]
        PROVE  Found(k)'
    <3>1. CASE k \in ToSet(wire) /\ k = Head(wire)
      <4>1. srv'[s] = k BY <1>0, <2>3, <3>1
      <4>. QED BY <4>1
    <3>2. CASE k \in ToSet(wire) /\ k # Head(wire) BY <2>1, <3>2
    <3>3. ASSUME NEW x \in Sids, srv[x] = k PROVE Found(k)'
      <4>1. x # s BY <2>3, <3>3, NilAssumption
      <4>2. srv'[x] = k BY <1>0, <2>3, <3>3, <4>1
      <4>. QED BY <4>2
    <3>. QED BY <3>1, <3>2, <3>3
  <2>. QED BY <1>0, <1>1, <2>2, <2>3, ReadAnswers
<1>2. ASSUME NEW j \in Keys, async_send(j) PROVE Found(k)'
  <2>1. wire' = Append(wire, j) /\ srv' = srv BY <1>2 DEF async_send
  <2>2. <<j>> \in Seq(Keys \cup {Nil}) /\ wire' = wire \o <<j>> BY <1>0, <2>1, AppendIsConcat
  <2>3. ToSet(wire) \subseteq ToSet(wire') BY <1>0, <2>2, AppendedSet
  <2>. QED BY <2>1, <2>3
<1>3. CASE UNCHANGED <<wire, srv>>
  BY <1>3
<1>4. ASSUME \/ \E addrs \in AddressSets : update_address(addrs)
             \/ handle_client_context \/ UNCHANGED vars
             \/ \E j \in Keys : open_session(j) \/ find_authority(j) \/ encode(j) \/ encoded(j)
                                \/ close_session(j) \/ drop_session(j)
      PROVE  UNCHANGED <<wire, srv>>
  BY <1>4 DEF update_address, handle_client_context, open_session, find_authority, encode, encoded,
              close_session, drop_session, vars, netVars
<1>5. CASE async_connect \/ on_timer
  BY <1>0, <1>5, ConnectLink DEF async_connect, on_timer
<1>6. CASE Established \/ Refused \/ Lost \/ on_connect \/ on_close
  BY <1>6 DEF Established, Refused, Lost, on_connect, on_close, Up
<1>. QED BY <1>1, <1>2, <1>3, <1>4, <1>5, <1>6 DEF Next, InIo, InUser

\* A connection that is up was up before, or has sent its logins just now.
LEMMA UpBefore ==
  ASSUME TInv, [Next]_vars, Up'
  PROVE  Up \/ on_connect
<1>. USE DEF Up, TInv, Phases, TypeOK, sessVars, netVars
<1>1. CASE Established \/ Refused \/ Lost
  BY <1>1 DEF Established, Refused, Lost
<1>2. CASE on_connect \/ on_close \/ on_read \/ handle_client_context
  BY <1>2 DEF on_connect, on_close, on_read, handle_client_context
<1>3. CASE async_connect \/ on_timer
  BY <1>3, ConnectLink DEF async_connect, on_timer
<1>4. ASSUME \/ \E addrs \in AddressSets : update_address(addrs)
             \/ UNCHANGED vars
             \/ \E j \in Keys : open_session(j) \/ find_authority(j) \/ encode(j) \/ encoded(j)
                                \/ async_send(j) \/ close_session(j) \/ drop_session(j)
      PROVE  UNCHANGED <<link, io>>
  BY <1>4 DEF update_address, open_session, find_authority, encode, encoded, async_send,
              close_session, drop_session, vars
<1>. QED BY <1>1, <1>2, <1>3, <1>4 DEF Next, InIo, InUser

\* A login becomes due by being sent.
LEMMA DueBefore ==
  ASSUME TInv, [Next]_vars, NEW k \in Keys, Due(k)'
  PROVE  Due(k) \/ async_send(k)
<1>0. TypeOK BY DEF TInv
<1>. USE DEF Due, sessVars, TypeOK
<1>1. CASE UNCHANGED <<m_authority_map, at, user>>
  BY <1>1
<1>2. ASSUME NEW c \in Keys, open_session(c) PROVE Due(k)
  BY <1>0, <1>2 DEF open_session
<1>3. ASSUME NEW c \in Keys, find_authority(c) PROVE Due(k)
  BY <1>0, <1>3 DEF find_authority
<1>4. ASSUME NEW c \in Keys, encode(c) \/ encoded(c) PROVE Due(k)
  BY <1>0, <1>4 DEF encode, encoded
<1>5. ASSUME NEW c \in Keys, async_send(c) PROVE Due(k) \/ c = k
  BY <1>0, <1>5 DEF async_send
<1>6. ASSUME NEW c \in Keys, close_session(c) \/ drop_session(c) PROVE Due(k)
  BY <1>0, <1>6 DEF close_session, drop_session
<1>7. (\E addrs \in AddressSets : update_address(addrs)) \/ async_connect \/ on_timer
       \/ Established \/ Refused \/ Lost \/ on_connect \/ on_close \/ on_read
       \/ handle_client_context \/ UNCHANGED vars
         => UNCHANGED <<m_authority_map, at, user>>
  BY DEF update_address, async_connect, on_timer, Established, Refused, Lost, on_connect, on_close,
         on_read, handle_client_context, vars
<1>. QED BY <1>1, <1>2, <1>3, <1>4, <1>5, <1>6, <1>7 DEF Next, InIo, InUser

\* Every login is stored and made, in every step.
LEMMA LoggedInKept == ASSUME TInv, LoggedIn, [Next]_vars PROVE LoggedIn'
<1>. SUFFICES ASSUME Up', NEW k \in Keys, Due(k)' PROVE Found(k)'
  BY DEF LoggedIn, Due, Found
<1>0. TypeOK BY DEF TInv
<1>1. CASE on_connect
  <2>1. m_authority_map[k] = "requested" /\ k \in Whole
    BY <1>1 DEF on_connect, Due, sessVars, Whole
  <2>. QED BY <1>0, <1>1, <2>1, ConnectSends DEF Found
<1>2. CASE Up
  <2>1. link = "connected" /\ io = "idle" BY <1>2 DEF Up
  <2>2. CASE Due(k)
    <3>1. Found(k) BY <1>2, <2>2 DEF LoggedIn, Due, Found
    <3>. QED BY <2>1, <3>1, FoundStays
  <2>3. CASE async_send(k)
    <3>1. wire' = wire \o <<k>> /\ wire \in Seq(Keys \cup {Nil}) /\ <<k>> \in Seq(Keys \cup {Nil})
      BY <1>0, <2>1, <2>3, AppendIsConcat DEF async_send, TypeOK
    <3>2. k \in ToSet(<<k>>) BY DEF ToSet
    <3>. QED BY <3>1, <3>2, AppendedSet DEF Found
  <2>. QED BY <2>2, <2>3, DueBefore
<1>. QED BY <1>1, <1>2, UpBefore

\* On a connection that is up, no login of a user is forgotten, wherever
\* async_auth() was when on_connect() sent what there was.
THEOREM LoginsAreMade == Spec => []LoggedIn
<1>1. Init => LoggedIn BY DEF Init, LoggedIn, Up
<1>. QED BY <1>1, LoggedInKept, TypesAlways, PTL DEF Spec

-----------------------------------------------------------------------------
(* Sessions *)

HandledWell == known \cap {"late", "stale close"} = {}
Left(k) == user[k] \in {"closed", "gone"}
\* The client and the server agree on session s, but while on_close() is to come.
Agreed(s) ==
  /\ io # "on_close" => m_session_map[s] \in {Nil, srv[s]}
  /\ \A k \in Keys : srv[s] = k /\ ~Left(k) => m_session_map[s] = k \/ Unhandled(s)
SessionInv == HandledWell => \A s \in Sids : Agreed(s)

\* Steps that leave sessions and answers as they are.
LEMMA AgreedStays ==
  ASSUME NEW s \in Sids, Agreed(s), UNCHANGED <<m_session_map, srv, dispatch>>,
         \A k \in Keys : Left(k) => Left(k)', io' # "on_close" => io # "on_close"
  PROVE  Agreed(s)'
<1>1. Unhandled(s) => Unhandled(s)' BY DEF Unhandled
<1>. QED BY <1>1 DEF Agreed

LEMMA SessionKept == ASSUME TInv, SessionInv, [Next]_vars PROVE SessionInv'
<1>. SUFFICES ASSUME HandledWell', NEW s \in Sids PROVE Agreed(s)'
  BY DEF SessionInv
<1>0. TypeOK /\ Phases /\ ServerForgets BY DEF TInv
<1>1. Agreed(s) BY <1>0, KnownGrows DEF SessionInv, HandledWell
<1>2. /\ srv \in [Sids -> Keys \cup {Nil}] /\ m_session_map \in [Sids -> Keys \cup {Nil}]
      /\ dispatch \in Seq(Answer) /\ Len(dispatch) \in Nat /\ DOMAIN dispatch = 1..Len(dispatch)
      /\ user \in [Keys -> {"none", "open", "closed", "gone"}]
  <2>1. dispatch \in Seq(Answer) BY <1>0 DEF TypeOK, Answer
  <2>. QED BY <1>0, <2>1, LenProperties DEF TypeOK
<1>3. ASSUME \/ \E addrs \in AddressSets : update_address(addrs)
             \/ async_connect \/ on_timer \/ Established \/ Refused \/ on_connect \/ UNCHANGED vars
             \/ \E j \in Keys : find_authority(j) \/ encode(j) \/ encoded(j) \/ async_send(j)
      PROVE  Agreed(s)'
  <2>1. UNCHANGED <<m_session_map, srv, dispatch, user>>
    BY <1>3 DEF update_address, async_connect, on_timer, Established, Refused, on_connect, vars,
         find_authority, encode, encoded, async_send, sessVars, netVars
  <2>2. io' # "on_close" => io # "on_close"
    <3>1. CASE async_connect \/ on_timer
      BY <1>0, <3>1, ConnectLink DEF async_connect, on_timer
    <3>2. CASE ~(async_connect \/ on_timer)
      BY <1>3, <3>2 DEF update_address, Established, Refused, on_connect, vars,
           find_authority, encode, encoded, async_send
    <3>. QED BY <3>1, <3>2
  <2>. QED BY <1>1, <2>1, <2>2, AgreedStays DEF Left
<1>4. ASSUME NEW j \in Keys, open_session(j) \/ drop_session(j) PROVE Agreed(s)'
  <2>1. UNCHANGED <<m_session_map, srv, dispatch, io>>
    BY <1>4 DEF open_session, drop_session, netVars
  <2>2. \A k \in Keys : Left(k) => Left(k)'
    BY <1>2, <1>4 DEF open_session, drop_session, Left
  <2>. QED BY <1>1, <2>1, <2>2, AgreedStays
<1>5. CASE Lost
  <2>1. io' = "on_close" /\ srv'[s] = Nil BY <1>5 DEF Lost
  <2>. QED BY <2>1, NilAssumption DEF Agreed
<1>6. CASE on_close
  <2>1. m_session_map'[s] = Nil /\ srv'[s] = Nil
    BY <1>0, <1>6 DEF on_close, netVars, Phases, ServerForgets
  <2>. QED BY <2>1, NilAssumption DEF Agreed
<1>7. CASE on_read
  <2>1. UNCHANGED <<m_session_map, user, io>> BY <1>7 DEF on_read, sessVars
  <2>2. CASE UNCHANGED <<srv, dispatch>> BY <1>1, <2>1, <2>2, AgreedStays DEF Left
  <2>3. ASSUME NEW x \in Sids, NEW j \in Keys, srv[x] = Nil, srv' = [srv EXCEPT ![x] = j],
               dispatch' = Append(dispatch, [key |-> j, sid |-> x])
        PROVE  Agreed(s)'
    <3>1. [key |-> j, sid |-> x] \in Answer BY DEF Answer
    <3>2. /\ DOMAIN dispatch' = 1..(Len(dispatch) + 1)
          /\ dispatch'[Len(dispatch) + 1] = [key |-> j, sid |-> x]
          /\ \A i \in 1..Len(dispatch) : dispatch'[i] = dispatch[i]
      BY <1>2, <2>3, <3>1, AppendProperties, LenProperties
    <3>3. CASE s = x
      <4>1. srv'[s] = j BY <1>2, <2>3, <3>3
      <4>2. Len(dispatch) + 1 \in DOMAIN dispatch' BY <1>2, <3>2
      <4>3. Unhandled(s)' BY <3>2, <3>3, <4>1, <4>2 DEF Unhandled
      <4>4. io # "on_close" => m_session_map[s] = Nil BY <1>1, <2>3, <3>3 DEF Agreed
      <4>. QED BY <2>1, <4>1, <4>3, <4>4 DEF Agreed
    <3>4. CASE s # x
      <4>1. srv'[s] = srv[s] BY <1>2, <2>3, <3>4
      <4>2. Unhandled(s) => Unhandled(s)'
        <5>. SUFFICES ASSUME NEW i \in 1..Len(dispatch), dispatch[i] = [key |-> srv[s], sid |-> s]
                      PROVE  Unhandled(s)'
          BY <1>2 DEF Unhandled
        <5>1. i \in DOMAIN dispatch' BY <1>2, <3>2
        <5>. QED BY <3>2, <4>1, <5>1 DEF Unhandled
      <4>. QED BY <1>1, <2>1, <4>1, <4>2 DEF Agreed, Left
    <3>. QED BY <3>3, <3>4
  <2>. QED BY <1>0, <1>7, <2>2, <2>3, ReadAnswers
<1>8. CASE handle_client_context
  <2>. DEFINE j == dispatch[1].key
              x == dispatch[1].sid
  <2>1. /\ Len(dispatch') = Len(dispatch) - 1 /\ Len(dispatch) \in Nat \ {0}
        /\ \A i \in 1..Len(dispatch') : dispatch'[i] = dispatch[i + 1]
        /\ j \in Keys /\ x \in Sids /\ Head(dispatch) = dispatch[1]
        /\ DOMAIN dispatch' = 1..Len(dispatch')
    BY <1>0, <1>8, HandleTakes, LenProperties
  <2>2. UNCHANGED <<srv, user, io>> BY <1>8 DEF handle_client_context
  <2>3. \/ user[j] = "gone" /\ m_session_map' = m_session_map
        \/ /\ m_session_map' = [m_session_map EXCEPT ![x] = j]
           /\ srv[x] = j \/ io = "on_close"
    BY <1>8, <2>1 DEF handle_client_context, Record, HandledWell
  <2>4. io # "on_close" => m_session_map'[s] \in {Nil, srv[s]}
    BY <1>1, <1>2, <2>1, <2>3 DEF Agreed
  <2>5. ASSUME NEW k \in Keys, srv[s] = k, ~Left(k) PROVE m_session_map'[s] = k \/ Unhandled(s)'
    <3>0. io # "on_close" BY <1>0, <2>5, NilAssumption DEF Phases, ServerForgets
    <3>1. CASE m_session_map[s] = k BY <1>2, <2>1, <2>3, <2>5, <3>0, <3>1
    <3>2. ASSUME NEW i \in 1..Len(dispatch), dispatch[i] = [key |-> srv[s], sid |-> s]
          PROVE  m_session_map'[s] = k \/ Unhandled(s)'
      <4>1. CASE i = 1
        <5>1. j = k /\ x = s BY <2>5, <3>2, <4>1
        <5>. QED BY <1>2, <2>3, <2>5, <5>1 DEF Left
      <4>2. CASE i # 1
        <5>1. i - 1 \in DOMAIN dispatch' /\ (i - 1) + 1 = i /\ i - 1 \in 1..Len(dispatch')
          BY <1>2, <2>1, <4>2
        <5>2. dispatch'[i - 1] = [key |-> srv'[s], sid |-> s] BY <2>1, <2>2, <3>2, <5>1
        <5>. QED BY <5>1, <5>2 DEF Unhandled
      <4>. QED BY <4>1, <4>2
    <3>. QED BY <1>1, <1>2, <2>5, <3>1, <3>2 DEF Agreed, Unhandled
  <2>. QED BY <2>2, <2>4, <2>5 DEF Agreed, Left
<1>9. ASSUME NEW c \in Keys, close_session(c) PROVE Agreed(s)'
  <2>1. /\ m_session_map' = [m_session_map EXCEPT ![held[c]] = Nil]
        /\ m_session_map[held[c]] \in {c, Nil}
        /\ UNCHANGED <<srv, dispatch, io>> /\ user' = [user EXCEPT ![c] = "closed"]
    BY <1>9 DEF close_session, Record, HandledWell, netVars
  <2>2. Unhandled(s) => Unhandled(s)' BY <2>1 DEF Unhandled
  <2>3. m_session_map'[s] \in {Nil, m_session_map[s]}
        /\ (m_session_map'[s] # m_session_map[s] => m_session_map[s] = c)
    BY <1>2, <2>1
  <2>4. \A k \in Keys : ~Left(k)' => ~Left(k) /\ k # c BY <1>2, <2>1 DEF Left
  <2>. QED BY <1>1, <2>1, <2>2, <2>3, <2>4 DEF Agreed
<1>. QED BY <1>3, <1>4, <1>5, <1>6, <1>7, <1>8, <1>9 DEF Next, InIo, InUser

\* The client and the server agree on the sessions of a connection that is up,
\* through any number of connections, until a late answer or a close of an old
\* session, which are known, has said otherwise.
THEOREM SessionsAreOfThisConnection == Spec => []SessionsCurrent
<1>1. Init => SessionInv BY NilAssumption DEF Init, SessionInv, Agreed
<1>2. TInv /\ SessionInv => SessionsCurrent
  BY DEF TInv, TypeOK, SessionInv, SessionsCurrent, HandledWell, Agreed, Left, Up
<1>. QED BY <1>1, <1>2, SessionKept, TypesAlways, PTL DEF Spec

-----------------------------------------------------------------------------
(* The loads of the addresses *)

\* Until the owner has given addresses there are none.
AddressesGiven == counts.updates = 0 => m_address_set = <<>>

\* The loads stay even when an address is chosen, given or taken away.
LEMMA BalancedStep ==
  TypeOK /\ AddressesGiven /\ Balanced /\ [Next]_vars => AddressesGiven' /\ Balanced'
<1> SUFFICES ASSUME TypeOK, AddressesGiven, Balanced, [Next]_vars
             PROVE  AddressesGiven' /\ Balanced'
  OBVIOUS
<1> DEFINE Goal == AddressesGiven' /\ Balanced'
<1> SUFFICES Goal
  OBVIOUS
<1>1. /\ m_address_set \in Seq(Entry) /\ counts \in [CountNames -> Nat]
      /\ counts["updates"] \in Nat
      /\ DOMAIN m_address_set = 1..Len(m_address_set)
      /\ m_address_set' \in Seq(Entry) /\ DOMAIN m_address_set' = 1..Len(m_address_set')
  <2>1. m_address_set \in Seq(Entry) /\ counts \in [CountNames -> Nat]
    BY DEF TypeOK, Entry, CountNames
  <2>2. m_address_set' \in Seq(Entry)
    BY AddressStep
  <2> QED BY <2>1, <2>2, LenProperties DEF CountNames
<1>0. known \subseteq known'
  BY KnownGrows
<1>2. CASE UNCHANGED m_address_set /\ counts'["updates"] = counts["updates"]
  BY <1>0, <1>2 DEF AddressesGiven, Balanced
<1>3. ASSUME NEW addrs \in AddressSets, update_address(addrs) PROVE Goal
  <2>1. m_address_set' = Updated(addrs) /\ counts'["updates"] = counts["updates"] + 1
    BY <1>1, <1>3, CountKeeps DEF update_address, CountNames
  <2>2. counts'["updates"] # 0
    BY <1>1, <2>1
  <2>3. CASE counts["updates"] = 0
    <3>1. \A i \in 1..Len(m_address_set') : m_address_set'[i].load = 0
      BY <1>1, <2>1, <2>3, UpdatedType DEF AddressesGiven
    <3> QED BY <1>1, <2>2, <3>1 DEF AddressesGiven, Balanced
  <2>4. CASE counts["updates"] # 0
    <3>1. ~(counts'["updates"] <= 1)
      BY <1>1, <2>1, <2>4
    <3> QED BY <2>2, <3>1 DEF AddressesGiven, Balanced
  <2> QED BY <2>3, <2>4
<1>4. ASSUME NEW caller, connect(caller) PROVE Goal
  <2> DEFINE Load(i) == m_address_set[i].load
             m == min_workload
  <2>1. /\ Len(m_address_set') = Len(m_address_set)
        /\ "wrap" \notin known' => \A j \in 1..Len(m_address_set) :
             m_address_set'[j].load = Load(j) + (IF j = m THEN 1 ELSE 0)
        /\ counts'["updates"] = counts["updates"] /\ m_address_set # <<>>
    BY <1>4, ConnectKeeps DEF connect
  <2>2. \A j \in 1..Len(m_address_set) : Load(m) <= Load(j)
    BY <1>1, <2>1, LeastLoaded
  <2>3. \A j \in 1..Len(m_address_set) : Load(j) \in Nat
    <3>1. \A j \in 1..Len(m_address_set) : m_address_set[j] \in Entry
      BY <1>1, ElementOfSeq
    <3> QED BY <3>1, ClientAssumption DEF Entry
  <2>4. m \in 1..Len(m_address_set)
    BY <1>1, <2>1, LeastLoaded
  <2>5. AddressesGiven'
    BY <1>1, <2>1 DEF AddressesGiven
  <2>6. ASSUME counts'["updates"] <= 1, "wrap" \notin known',
               NEW i \in 1..Len(m_address_set), NEW j \in 1..Len(m_address_set)
        PROVE  m_address_set'[i].load <= m_address_set'[j].load + 1
    <3>1. Load(i) <= Load(j) + 1
      BY <1>0, <1>1, <2>1, <2>6 DEF Balanced
    <3>2. Load(m) <= Load(j) /\ Load(i) \in Nat /\ Load(j) \in Nat /\ Load(m) \in Nat
      BY <2>2, <2>3, <2>4
    <3>3. /\ m_address_set'[i].load = Load(i) + (IF i = m THEN 1 ELSE 0)
          /\ m_address_set'[j].load = Load(j) + (IF j = m THEN 1 ELSE 0)
      BY <2>1, <2>6
    <3> HIDE DEF Load
    <3>4. CASE i = m
      <4>1. m_address_set'[i].load = Load(m) + 1
        BY <3>3, <3>4
      <4>2. m_address_set'[j].load = Load(j) + 1 \/ m_address_set'[j].load = Load(j)
        BY <3>2, <3>3
      <4> QED BY <3>2, <4>1, <4>2
    <3>5. CASE i # m
      <4>1. m_address_set'[i].load = Load(i)
        BY <3>2, <3>3, <3>5
      <4>2. m_address_set'[j].load = Load(j) + 1 \/ m_address_set'[j].load = Load(j)
        BY <3>2, <3>3
      <4> QED BY <3>1, <3>2, <4>1, <4>2
    <3> QED BY <3>4, <3>5
  <2>7. Balanced'
    <3>1. DOMAIN m_address_set' = 1..Len(m_address_set)
      BY <1>1, <2>1
    <3> QED BY <2>6, <3>1 DEF Balanced
  <2> QED BY <2>5, <2>7
<1>5. CASE Refused \/ Lost \/ \E k \in Keys : find_authority(k)
  <2>1. counts'["updates"] = counts["updates"]
    BY <1>1, <1>5, CountKeeps DEF Refused, Lost, find_authority, CountNames
  <2>2. UNCHANGED m_address_set
    BY <1>5 DEF Refused, Lost, find_authority, balanceVars
  <2> QED BY <1>2, <2>1, <2>2
<1>7. UNCHANGED <<balanceVars, counts>> => Goal
  BY <1>2 DEF balanceVars
<1>8. async_connect \/ on_timer => \E caller : connect(caller)
  BY DEF async_connect, on_timer
<1> HIDE DEF Goal
<1> QED BY <1>3, <1>4, <1>5, <1>7, <1>8, AddressesApart DEF Next, InIo, InUser, OfSessions

\* Addresses that were given once are used evenly: no two differ by more than
\* one connect, however often the connection is lost or refused, until a count
\* of 16 bits wraps.
THEOREM AddressesUsedEvenly == Spec => []Balanced
<1>. DEFINE B == AddressesGiven /\ Balanced
<1>1. Init => B BY DEF Init, AddressesGiven, Balanced
<1>2. TInv /\ B /\ [Next]_vars => B' BY BalancedStep DEF TInv
<1>. QED BY <1>1, <1>2, TypesAlways, PTL DEF Spec

=============================================================================
