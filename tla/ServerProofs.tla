---------------------------- MODULE ServerProofs ----------------------------
(***************************************************************************)
(* Proofs about Server for every mode, batch size, ring and pool that its  *)
(* assumptions allow.  The inductive invariant is built in layers, each    *)
(* proved with the help of those before it:                                *)
(*   Shape      types, what each reply holds, which packets a batch has at *)
(*              each point of the loop, no receive buffer in two places;   *)
(*   FlushInv   no packet is left in the batch when the loop polls;        *)
(*   RxAll      every receive buffer is somewhere;                         *)
(*   ReplyInv   who owns each control mbuf and data buffer;                *)
(*   CountInv   what the reference counts count.                           *)
(***************************************************************************)
EXTENDS Server, CounterArith, FiniteSetTheorems, SequenceTheorems

---------------------------------------------------------------------------
\* Hypotheses of some of the theorems.

\* Bursts that leave nothing in the batch: the last packet is valid, or the
\* valid ones fill whole batches.
Flushed(burst) ==
    \/ burst[Len(burst)] = "valid"
    \/ Cardinality({i \in DOMAIN burst : burst[i] = "valid"}) % BATCH_SIZE = 0
AllFlushed == \A burst \in Bursts : Flushed(burst)

\* Replies that fit in the send ring, and those that can be unfinished.
RingReplies == Capacity \div ReplyBlocks
MaxReplies == BATCH_SIZE + RingReplies

\* The pools cover what can be in flight.
Sized ==
    /\ EchoFits
    /\ \A burst \in Bursts : Cardinality(RxBufs) >= RxWqeCnt + RingReplies + Len(burst)
    /\ Cardinality(Mbufs) >= MaxReplies * num_segments
    /\ Cardinality(TxBufs) >= MaxReplies

\* A reference count has room for every unfinished reply.
CountsFit == RefcntMod > 1 + MaxReplies * num_segments

---------------------------------------------------------------------------
\* The inductive invariant.

ReplySet ==
    {r \in [rx : SUBSET RxBufs, chain : SUBSET Mbufs, buf : SUBSET TxBufs, segs : Seq(Segments)] :
        /\ Cardinality(r.rx) <= 1 /\ Cardinality(r.buf) <= 1
        /\ Cardinality(r.chain) <= num_segments /\ Len(r.segs) <= num_segments}

\* Only an echoed reply holds a packet, and it holds nothing else.
OfMode(r) == IF mode = "echo" THEN r.chain = {} /\ r.buf = {} /\ r.segs = <<>> ELSE r.rx = {}

RepliesInv ==
    /\ sends \in Seq(ReplySet) /\ queue \in Seq(ReplySet)
    /\ \A i \in DOMAIN sends : OfMode(sends[i])
    /\ \A i \in DOMAIN queue : OfMode(queue[i])
    /\ mode = "echo" => \A i \in DOMAIN sends : sends[i].rx = {batch[i]}

\* A failed batch, whose packets have been freed.
Forgotten == NULL \in Range(batch)

PhaseInv ==
    /\ Len(sends) <= Len(batch)
    /\ pc = "poll" => recv = <<>>
    /\ pc \in {"poll", "scan"} => sends = <<>> /\ Len(batch) < BATCH_SIZE
    /\ pc \in {"poll", "scan", "build", "failed"} => sent = 0
    /\ pc \in {"build", "failed"} => batch # <<>>
    /\ pc \in {"post", "clean"} => Len(sends) = Len(batch)
    /\ pc = "free" => mode # "echo"
    /\ pc = "free" /\ ~Forgotten => sent = Len(batch)
    /\ Forgotten => pc \in {"free", "crash"} /\ mode # "echo"
    /\ mode = "echo" /\ ~EchoFits => sends = <<>>
    /\ mode = "echo" /\ EchoFits => pc # "failed"

\* Packets of the batch that no posted reply holds.
Held == {batch[i] : i \in {k \in DOMAIN batch : batch[k] # NULL /\ (mode = "echo" => k > sent)}}

\* No element is in two of them.
Disjoint5(a, b, c, d, e) ==
    /\ a \cap b = {} /\ a \cap c = {} /\ a \cap d = {} /\ a \cap e = {}
    /\ b \cap c = {} /\ b \cap d = {} /\ b \cap e = {}
    /\ c \cap d = {} /\ c \cap e = {}
    /\ d \cap e = {}

\* No receive buffer is in two places, and the ring is full.
RxApart ==
    /\ Cardinality(rx_ring) = RxWqeCnt
    /\ Disjoint5(rx_ring, rx_pool, Waiting, Held, Echoed(queue))
    /\ \A i, j \in DOMAIN recv : i # j => recv[i].b # recv[j].b
    /\ \A i, j \in DOMAIN batch : i # j /\ batch[i] # NULL => batch[i] # batch[j]
    /\ \A i, j \in DOMAIN queue : i # j => queue[i].rx \cap queue[j].rx = {}

Shape == TypeOK /\ RepliesInv /\ PhaseInv /\ RxApart

\* The rest of the burst completes a batch that has n packets.
ValidAt(pkts) == {i \in DOMAIN pkts : pkts[i].status = "valid"}
Completes(n) ==
    \/ recv # <<>> /\ recv[Len(recv)].status = "valid"
    \/ (n + Cardinality(ValidAt(recv))) % BATCH_SIZE = 0

FlushInv ==
    /\ pc = "poll" => batch = <<>>
    /\ Completes(IF pc = "scan" THEN Len(batch) ELSE 0)

\* No receive buffer is lost.
RxAll == rx_ring \cup rx_pool \cup Waiting \cup Held \cup Echoed(queue) = RxBufs

ThreeParts(S, a, b, c) ==
    /\ a \cup b \cup c = S
    /\ a \cap b = {} /\ a \cap c = {} /\ b \cap c = {}

\* Mbufs were lost by a batch that failed half way.
Broken == pc = "crash" \/ Forgotten \/ (pc = "failed" /\ mode # "echo")

\* No two replies share an mbuf or a buffer.
Apart(replies) ==
    \A i, j \in DOMAIN replies : i # j =>
        replies[i].chain \cap replies[j].chain = {} /\ replies[i].buf \cap replies[j].buf = {}

ReplyInv ==
    ~Broken =>
        /\ ThreeParts(Mbufs, mbuf_pool, Chains(Pending), Chains(queue))
        /\ ThreeParts(TxBufs, tx_pool, DataBufs(Pending), DataBufs(queue))
        /\ Apart(Pending) /\ Apart(queue)

CountInv ==
    ~Broken =>
        \A s \in Segments : refcnt[s] = (1 + RefsOf(Pending, s) + RefsOf(queue, s)) % RefcntMod

---------------------------------------------------------------------------
\* Finite sets.

\* mempool_alloc finds n items when there are as many.
LEMMA TakeFinds ==
  ASSUME NEW S, IsFiniteSet(S), NEW n \in Nat, n <= Cardinality(S)
  PROVE  /\ Take(S, n) \subseteq S
         /\ IsFiniteSet(Take(S, n)) /\ Cardinality(Take(S, n)) = n
<1>1. PICK f : f \in Bijection(1 .. Cardinality(S), S)
  BY FS_CardinalityType DEF ExistsBijection
<1>2. Cardinality(S) \in Nat
  BY FS_CardinalityType
<1> DEFINE T == {f[i] : i \in 1 .. n}
           g == [i \in 1 .. n |-> f[i]]
<1>3. \A i \in 1 .. n : i \in 1 .. Cardinality(S)
  BY <1>2
<1>4. T \subseteq S
  BY <1>1, <1>3 DEF Bijection, Injection
<1>5. g \in Bijection(1 .. n, T)
  BY <1>1, <1>3 DEF Bijection, Injection, Surjection, IsInjective
<1>6. Cardinality(T) = n
  BY <1>5, FS_CountingElements DEF ExistsBijection
<1> HIDE DEF T, g
<1>7. Take(S, n) \in SUBSET S /\ Cardinality(Take(S, n)) = n
  BY <1>4, <1>6 DEF Take
<1> QED
  BY <1>7, FS_Subset

\* SetToSeq lists every element once.
LEMMA ListsAll ==
  ASSUME NEW S, IsFiniteSet(S)
  PROVE  /\ SetToSeq(S) \in [1 .. Cardinality(S) -> S]
         /\ \A i, j \in 1 .. Cardinality(S) : SetToSeq(S)[i] = SetToSeq(S)[j] => i = j
         /\ \A x \in S : \E i \in 1 .. Cardinality(S) : SetToSeq(S)[i] = x
<1> DEFINE n == Cardinality(S)
<1>1. n \in Nat
  BY FS_CardinalityType
<1>2. PICK f : f \in Bijection(1 .. n, S)
  BY FS_CardinalityType DEF ExistsBijection
<1>3. f \in [1 .. n -> S] /\ IsInjective(f)
  BY <1>2 DEF Bijection, Injection
<1> DEFINE g == SetToSeq(S)
<1>4. g \in [1 .. n -> S] /\ IsInjective(g)
  BY <1>3 DEF SetToSeq
<1> HIDE DEF g
<1>5. g \in Injection(1 .. n, S)
  BY <1>4 DEF Injection
<1>6. Cardinality(1 .. n) = n
  BY <1>1, FS_Interval
<1>7. g \in Surjection(1 .. n, S)
  BY <1>5, <1>6, FS_Injection
<1>8. \A x \in S : \E i \in 1 .. n : g[i] = x
  BY <1>7 DEF Surjection
<1>9. \A i, j \in 1 .. n : g[i] = g[j] => i = j
  BY <1>4 DEF IsInjective
<1> QED
  BY <1>4, <1>8, <1>9 DEF g

\* A grid of L by n.
LEMMA GridSize ==
  ASSUME NEW L \in Nat, NEW n \in Nat
  PROVE  IsFiniteSet((1 .. L) \X (1 .. n)) /\ Cardinality((1 .. L) \X (1 .. n)) = L * n
<1>1. /\ IsFiniteSet(1 .. L) /\ Cardinality(1 .. L) = L
      /\ IsFiniteSet(1 .. n) /\ Cardinality(1 .. n) = n
  BY FS_Interval
<1>2. PICK A, B : A = 1 .. L /\ B = 1 .. n
  OBVIOUS
<1>3. IsFiniteSet(A \X B) /\ Cardinality(A \X B) = Cardinality(A) * Cardinality(B)
  BY <1>1, <1>2, FS_Product
<1> QED
  BY <1>1, <1>2, <1>3

\* Disjoint sets add up.
LEMMA DisjointSize ==
  ASSUME NEW A, NEW B, IsFiniteSet(A), IsFiniteSet(B), A \cap B = {}
  PROVE  /\ IsFiniteSet(A \cup B) /\ Cardinality(A \cup B) = Cardinality(A) + Cardinality(B)
         /\ Cardinality(A) \in Nat /\ Cardinality(B) \in Nat
<1>1. Cardinality(A) \in Nat /\ Cardinality(B) \in Nat
  BY FS_CardinalityType
<1>2. /\ IsFiniteSet(A \cup B)
      /\ Cardinality(A \cup B) = Cardinality(A) + Cardinality(B) - Cardinality(A \cap B)
  BY FS_Union
<1>3. Cardinality(A \cap B) = 0
  BY FS_EmptySet
<1> QED
  BY <1>1, <1>2, <1>3

\* L sets of at most n elements have at most L * n together.
LEMMA UnionBound ==
  ASSUME NEW L \in Nat, NEW n \in Nat, NEW X, IsFiniteSet(X),
         NEW F \in [1 .. L -> SUBSET X],
         \A i \in 1 .. L : Cardinality(F[i]) <= n
  PROVE  LET U == UNION {F[i] : i \in 1 .. L}
         IN  IsFiniteSet(U) /\ Cardinality(U) <= L * n
<1> DEFINE U == UNION {F[i] : i \in 1 .. L}
           P == (1 .. L) \X (1 .. n)
<1>1. \A i \in 1 .. L : \E h : h \in Injection(F[i], 1 .. n)
  <2> TAKE i \in 1 .. L
  <2>1. F[i] \in SUBSET X /\ IsFiniteSet(F[i])
    BY FS_Subset
  <2> DEFINE c == Cardinality(F[i])
  <2>2. c \in Nat /\ c <= n
    BY <2>1, FS_CardinalityType
  <2>3. PICK b : b \in Bijection(1 .. c, F[i])
    BY <2>1, FS_CardinalityType DEF ExistsBijection
  <2>4. /\ b \in [1 .. c -> F[i]]
        /\ \A x \in F[i] : \E k \in 1 .. c : b[k] = x
    BY <2>3 DEF Bijection, Surjection, Injection
  <2> DEFINE h == [x \in F[i] |-> CHOOSE k \in 1 .. c : b[k] = x]
  <2>5. \A x \in F[i] : h[x] \in 1 .. c /\ b[h[x]] = x
    BY <2>4
  <2>6. 1 .. c \subseteq 1 .. n
    BY <2>2
  <2>7. h \in [F[i] -> 1 .. n]
    BY <2>5, <2>6
  <2> HIDE DEF h
  <2>8. IsInjective(h)
    BY <2>5, <2>7 DEF IsInjective
  <2> QED
    BY <2>7, <2>8 DEF Injection
<1> DEFINE H == [i \in 1 .. L |-> CHOOSE h : h \in Injection(F[i], 1 .. n)]
           Home == [x \in U |-> CHOOSE i \in 1 .. L : x \in F[i]]
           g == [x \in U |-> <<Home[x], H[Home[x]][x]>>]
<1>2. \A i \in 1 .. L : H[i] \in Injection(F[i], 1 .. n)
  BY <1>1
<1>3. \A x \in U : Home[x] \in 1 .. L /\ x \in F[Home[x]]
  OBVIOUS
<1> HIDE DEF H, Home
<1>4. \A i \in 1 .. L : /\ H[i] \in [F[i] -> 1 .. n]
                        /\ \A x, y \in F[i] : H[i][x] = H[i][y] => x = y
  BY <1>2 DEF Injection, IsInjective
<1>5. g \in [U -> P]
  <2> SUFFICES ASSUME NEW x \in U PROVE <<Home[x], H[Home[x]][x]>> \in P
    OBVIOUS
  <2>1. H[Home[x]][x] \in 1 .. n
    BY <1>3, <1>4
  <2> QED
    BY <1>3, <2>1
<1>6. ASSUME NEW x \in U, NEW y \in U, g[x] = g[y] PROVE x = y
  <2>1. Home[x] = Home[y] /\ H[Home[x]][x] = H[Home[y]][y]
    BY <1>6
  <2> QED
    BY <1>3, <1>4, <2>1
<1> HIDE DEF g
<1>7. g \in Injection(U, P)
  BY <1>5, <1>6 DEF Injection, IsInjective
<1>9. IsFiniteSet(P) /\ Cardinality(P) = L * n
  BY GridSize
<1> HIDE DEF U, P
<1>10. IsFiniteSet(U) /\ Cardinality(U) <= Cardinality(P)
  BY <1>7, <1>9, FS_Injection
<1> QED
  BY <1>9, <1>10 DEF U

---------------------------------------------------------------------------
\* Sequences of replies.

\* The fields of a reply.
LEMMA ReplyFields ==
  ASSUME NEW r \in ReplySet
  PROVE  /\ r.rx \subseteq RxBufs /\ r.chain \subseteq Mbufs /\ r.buf \subseteq TxBufs
         /\ r.segs \in Seq(Segments) /\ Len(r.segs) \in 0 .. num_segments
         /\ Cardinality(r.rx) <= 1 /\ Cardinality(r.buf) <= 1
         /\ Cardinality(r.chain) <= num_segments
<1>1. r.segs \in Seq(Segments) /\ Len(r.segs) <= num_segments
  BY DEF ReplySet
<1>2. Len(r.segs) \in Nat
  BY <1>1
<1> QED
  BY <1>1, <1>2, ServerAssumption DEF ReplySet

\* Who holds an item.
LEMMA Holder ==
  ASSUME NEW q, NEW x
  PROVE  /\ x \in Chains(q) <=> \E i \in DOMAIN q : x \in q[i].chain
         /\ x \in DataBufs(q) <=> \E i \in DOMAIN q : x \in q[i].buf
         /\ x \in Echoed(q) <=> \E i \in DOMAIN q : x \in q[i].rx
  BY DEF Chains, DataBufs, Echoed

\* What two sequences hold together.
LEMMA ConcatHolds ==
  ASSUME NEW s \in Seq(ReplySet), NEW t \in Seq(ReplySet)
  PROVE  /\ Chains(s \o t) = Chains(s) \cup Chains(t)
         /\ DataBufs(s \o t) = DataBufs(s) \cup DataBufs(t)
         /\ Echoed(s \o t) = Echoed(s) \cup Echoed(t)
<1>1. /\ \A i \in DOMAIN s : i \in DOMAIN (s \o t) /\ (s \o t)[i] = s[i]
      /\ \A i \in DOMAIN t : i + Len(s) \in DOMAIN (s \o t) /\ (s \o t)[i + Len(s)] = t[i]
  OBVIOUS
<1>2. \A i \in DOMAIN (s \o t) : \/ i \in DOMAIN s /\ (s \o t)[i] = s[i]
                                 \/ i - Len(s) \in DOMAIN t /\ (s \o t)[i] = t[i - Len(s)]
  OBVIOUS
<1>3. PICK u : u = s \o t
  OBVIOUS
<1>4. /\ \A i \in DOMAIN s : \E k \in DOMAIN u : u[k] = s[i]
      /\ \A i \in DOMAIN t : \E k \in DOMAIN u : u[k] = t[i]
      /\ \A k \in DOMAIN u : (\E i \in DOMAIN s : u[k] = s[i]) \/ (\E i \in DOMAIN t : u[k] = t[i])
  BY <1>1, <1>2, <1>3
<1>5. Chains(u) = Chains(s) \cup Chains(t)
  <2>1. \A x : x \in Chains(u) <=> x \in Chains(s) \/ x \in Chains(t)
    BY <1>4, Holder
  <2> QED
    BY <2>1
<1>6. DataBufs(u) = DataBufs(s) \cup DataBufs(t)
  <2>1. \A x : x \in DataBufs(u) <=> x \in DataBufs(s) \/ x \in DataBufs(t)
    BY <1>4, Holder
  <2> QED
    BY <2>1
<1>7. Echoed(u) = Echoed(s) \cup Echoed(t)
  <2>1. \A x : x \in Echoed(u) <=> x \in Echoed(s) \/ x \in Echoed(t)
    BY <1>4, Holder
  <2> QED
    BY <2>1
<1> QED
  BY <1>3, <1>5, <1>6, <1>7

\* Two sequences are apart together when each is and they share nothing.
LEMMA ConcatApart ==
  ASSUME NEW s \in Seq(ReplySet), NEW t \in Seq(ReplySet)
  PROVE  Apart(s \o t) <=> /\ Apart(s) /\ Apart(t)
                           /\ Chains(s) \cap Chains(t) = {} /\ DataBufs(s) \cap DataBufs(t) = {}
<1> DEFINE u == s \o t
<1>1. /\ \A i \in DOMAIN s : i \in DOMAIN u /\ u[i] = s[i]
      /\ \A i \in DOMAIN t : i + Len(s) \in DOMAIN u /\ u[i + Len(s)] = t[i]
      /\ \A i \in DOMAIN s, j \in DOMAIN t : i # j + Len(s)
      /\ \A i, j \in DOMAIN t : i # j => i + Len(s) # j + Len(s)
  OBVIOUS
<1>2. \A i \in DOMAIN u : \/ i \in DOMAIN s /\ u[i] = s[i]
                          \/ i - Len(s) \in DOMAIN t /\ u[i] = t[i - Len(s)]
  OBVIOUS
<1>3. \A i, j \in DOMAIN u : i # j => i - Len(s) # j - Len(s)
  OBVIOUS
<1> HIDE DEF u
<1>4. ASSUME Apart(u)
      PROVE  /\ Apart(s) /\ Apart(t)
             /\ Chains(s) \cap Chains(t) = {} /\ DataBufs(s) \cap DataBufs(t) = {}
  <2>1. Apart(s)
    BY <1>1, <1>4 DEF Apart
  <2>2. Apart(t)
    BY <1>1, <1>4 DEF Apart
  <2>3. \A i \in DOMAIN s, j \in DOMAIN t : s[i].chain \cap t[j].chain = {} /\ s[i].buf \cap t[j].buf = {}
    BY <1>1, <1>4 DEF Apart
  <2> QED
    BY <2>1, <2>2, <2>3 DEF Chains, DataBufs
<1>5. ASSUME Apart(s), Apart(t), Chains(s) \cap Chains(t) = {}, DataBufs(s) \cap DataBufs(t) = {}
      PROVE  Apart(u)
  <2>1. \A i \in DOMAIN s, j \in DOMAIN t : s[i].chain \cap t[j].chain = {} /\ s[i].buf \cap t[j].buf = {}
    BY <1>5 DEF Chains, DataBufs
  <2>2. \A i \in DOMAIN s, j \in DOMAIN t : t[j].chain \cap s[i].chain = {} /\ t[j].buf \cap s[i].buf = {}
    BY <2>1
  <2>3. SUFFICES ASSUME NEW i \in DOMAIN u, NEW j \in DOMAIN u, i # j
                 PROVE  u[i].chain \cap u[j].chain = {} /\ u[i].buf \cap u[j].buf = {}
    BY DEF Apart
  <2>4. CASE i \in DOMAIN s /\ u[i] = s[i] /\ j \in DOMAIN s /\ u[j] = s[j]
    BY <1>5, <2>3, <2>4 DEF Apart
  <2>5. CASE i \in DOMAIN s /\ u[i] = s[i] /\ j - Len(s) \in DOMAIN t /\ u[j] = t[j - Len(s)]
    BY <2>1, <2>5
  <2>6. CASE j \in DOMAIN s /\ u[j] = s[j] /\ i - Len(s) \in DOMAIN t /\ u[i] = t[i - Len(s)]
    BY <2>2, <2>6
  <2>7. CASE /\ i - Len(s) \in DOMAIN t /\ u[i] = t[i - Len(s)]
             /\ j - Len(s) \in DOMAIN t /\ u[j] = t[j - Len(s)]
    BY <1>3, <1>5, <2>3, <2>7 DEF Apart
  <2> QED
    BY <1>2, <2>4, <2>5, <2>6, <2>7
<1> QED
  BY <1>4, <1>5 DEF u

\* A sequence of one reply.
LEMMA SingleHolds ==
  ASSUME NEW r \in ReplySet
  PROVE  /\ <<r>> \in Seq(ReplySet)
         /\ Chains(<<r>>) = r.chain /\ DataBufs(<<r>>) = r.buf /\ Echoed(<<r>>) = r.rx
         /\ Apart(<<r>>)
  BY DEF Chains, DataBufs, Echoed, Apart

\* Membership in the places of a sequence of replies.
LEMMA PlaceIn ==
  ASSUME NEW q, NEW x, NEW p
  PROVE  p \in PlacesOf(q, x) <=>
           \E i \in DOMAIN q : \E j \in DOMAIN q[i].segs : q[i].segs[j] = x /\ p = <<i, j>>
  BY DEF PlacesOf, Places

\* The segments of a reply are named at most num_segments times.
LEMMA PlacesBound ==
  ASSUME NEW q \in Seq(ReplySet), NEW x
  PROVE  /\ IsFiniteSet(PlacesOf(q, x)) /\ Cardinality(PlacesOf(q, x)) \in Nat
         /\ Cardinality(PlacesOf(q, x)) <= Len(q) * num_segments
<1> DEFINE P == (1 .. Len(q)) \X (1 .. num_segments)
<1>1. Len(q) \in Nat /\ num_segments \in Nat /\ DOMAIN q = 1 .. Len(q)
  BY ServerAssumption
<1>2. PlacesOf(q, x) \subseteq P
  <2> SUFFICES ASSUME NEW p \in PlacesOf(q, x) PROVE p \in P
    OBVIOUS
  <2>1. PICK i \in DOMAIN q : \E j \in DOMAIN q[i].segs : q[i].segs[j] = x /\ p = <<i, j>>
    BY PlaceIn
  <2>2. PICK j \in DOMAIN q[i].segs : p = <<i, j>>
    BY <2>1
  <2>3. q[i] \in ReplySet
    BY <1>1
  <2>4. q[i].segs \in Seq(Segments) /\ Len(q[i].segs) \in 0 .. num_segments
    BY <2>3, ReplyFields
  <2>5. j \in 1 .. num_segments
    BY <1>1, <2>4
  <2> QED
    BY <1>1, <2>2, <2>5
<1>3. IsFiniteSet(P) /\ Cardinality(P) = Len(q) * num_segments
  BY <1>1, GridSize
<1> HIDE DEF P
<1>4. IsFiniteSet(PlacesOf(q, x)) /\ Cardinality(PlacesOf(q, x)) <= Cardinality(P)
  BY <1>2, <1>3, FS_Subset
<1> QED
  BY <1>3, <1>4, FS_CardinalityType

\* Counts of references are natural numbers.
LEMMA RefsType ==
  /\ \A x : \A segs \in Seq(Segments) : Refs(segs, x) \in Nat
  /\ \A x : \A q \in Seq(ReplySet) : RefsOf(q, x) \in Nat /\ RefsOf(q, x) <= Len(q) * num_segments
<1>1. ASSUME NEW segs \in Seq(Segments), NEW x PROVE Refs(segs, x) \in Nat
  <2>1. Len(segs) \in Nat /\ DOMAIN segs = 1 .. Len(segs)
    OBVIOUS
  <2>2. IsFiniteSet(1 .. Len(segs))
    BY <2>1, FS_Interval
  <2>3. Places(segs, x) \in SUBSET (1 .. Len(segs))
    BY <2>1 DEF Places
  <2>4. Cardinality(Places(segs, x)) \in Nat
    BY <2>2, <2>3, FS_Subset, FS_CardinalityType
  <2> QED
    BY <2>4 DEF Refs
<1>2. ASSUME NEW q \in Seq(ReplySet), NEW x
      PROVE  RefsOf(q, x) \in Nat /\ RefsOf(q, x) <= Len(q) * num_segments
  <2>1. CASE using_ref_counting
    BY <2>1, PlacesBound DEF RefsOf
  <2>2. CASE ~using_ref_counting
    <3>1. 0 <= Len(q) * num_segments
      <4>1. PICK a \in Nat, b \in Nat : a = Len(q) /\ b = num_segments
        BY ServerAssumption
      <4>2. 0 <= a * b
        OBVIOUS
      <4> QED
        BY <4>1, <4>2
    <3> QED
      BY <2>2, <3>1 DEF RefsOf
  <2> QED
    BY <2>1, <2>2
<1> QED
  BY <1>1, <1>2

\* References of two sequences add up.
LEMMA RefsConcat ==
  ASSUME NEW s \in Seq(ReplySet), NEW t \in Seq(ReplySet), NEW x
  PROVE  RefsOf(s \o t, x) = RefsOf(s, x) + RefsOf(t, x)
<1> DEFINE u == s \o t
           A == PlacesOf(s, x)
           B == PlacesOf(t, x)
           C == {<<p[1] + Len(s), p[2]>> : p \in B}
           g == [p \in B |-> <<p[1] + Len(s), p[2]>>]
<1>1. /\ \A i \in DOMAIN s : i \in DOMAIN u /\ u[i] = s[i] /\ i \in 1 .. Len(s)
      /\ \A i \in DOMAIN t : i + Len(s) \in DOMAIN u /\ u[i + Len(s)] = t[i] /\ i \in Nat \ {0}
      /\ Len(s) \in Nat
  OBVIOUS
<1>2. \A i \in DOMAIN u : \/ i \in DOMAIN s /\ u[i] = s[i]
                          \/ /\ i - Len(s) \in DOMAIN t /\ u[i] = t[i - Len(s)]
                             /\ i = (i - Len(s)) + Len(s)
  OBVIOUS
<1> HIDE DEF u
<1>3. \A p \in B : p = <<p[1], p[2]>> /\ p[1] \in DOMAIN t
  BY PlaceIn
<1>4. PlacesOf(u, x) = A \cup C
  <2>1. ASSUME NEW p \in PlacesOf(u, x) PROVE p \in A \cup C
    <3>1. PICK i \in DOMAIN u : \E j \in DOMAIN u[i].segs : u[i].segs[j] = x /\ p = <<i, j>>
      BY PlaceIn
    <3>2. PICK j \in DOMAIN u[i].segs : u[i].segs[j] = x /\ p = <<i, j>>
      BY <3>1
    <3>3. CASE i \in DOMAIN s /\ u[i] = s[i]
      BY <3>2, <3>3, PlaceIn
    <3>4. CASE i - Len(s) \in DOMAIN t /\ u[i] = t[i - Len(s)] /\ i = (i - Len(s)) + Len(s)
      <4>1. PICK k \in DOMAIN t : u[i] = t[k] /\ i = k + Len(s)
        BY <3>4
      <4>2. <<k, j>> \in B
        BY <3>2, <4>1, PlaceIn
      <4>3. <<k, j>>[1] = k /\ <<k, j>>[2] = j
        OBVIOUS
      <4>4. p = <<<<k, j>>[1] + Len(s), <<k, j>>[2]>>
        BY <3>2, <4>1, <4>3
      <4> QED
        BY <4>2, <4>4
    <3> QED
      BY <1>2, <3>3, <3>4
  <2>2. ASSUME NEW p \in A PROVE p \in PlacesOf(u, x)
    <3>1. PICK i \in DOMAIN s : \E j \in DOMAIN s[i].segs : s[i].segs[j] = x /\ p = <<i, j>>
      BY PlaceIn
    <3>2. i \in DOMAIN u /\ u[i] = s[i]
      BY <1>1
    <3> QED
      BY <3>1, <3>2, PlaceIn
  <2>3. ASSUME NEW p \in C PROVE p \in PlacesOf(u, x)
    <3>1. PICK r \in B : p = <<r[1] + Len(s), r[2]>>
      OBVIOUS
    <3>2. PICK i \in DOMAIN t : \E j \in DOMAIN t[i].segs : t[i].segs[j] = x /\ r = <<i, j>>
      BY PlaceIn
    <3>3. PICK j \in DOMAIN t[i].segs : t[i].segs[j] = x /\ r = <<i, j>>
      BY <3>2
    <3>4. PICK k : k = i + Len(s)
      OBVIOUS
    <3>5. k \in DOMAIN u /\ u[k] = t[i] /\ p = <<k, j>>
      BY <1>1, <3>1, <3>3, <3>4
    <3> QED
      BY <3>3, <3>5, PlaceIn
  <2> QED
    BY <2>1, <2>2, <2>3
<1>5. A \cap C = {}
  <2> SUFFICES ASSUME NEW p \in A, NEW r \in B, p = <<r[1] + Len(s), r[2]>> PROVE FALSE
    OBVIOUS
  <2>1. PICK i \in DOMAIN s : \E j : p = <<i, j>>
    BY PlaceIn
  <2>2. i = r[1] + Len(s)
    BY <2>1
  <2> QED
    BY <1>1, <1>3, <2>2
<1>6. g \in Bijection(B, C)
  <2>1. g \in [B -> C]
    OBVIOUS
  <2>2. \A y \in C : \E p \in B : g[p] = y
    OBVIOUS
  <2>3. ASSUME NEW p \in B, NEW r \in B, g[p] = g[r] PROVE p = r
    <3>1. p[1] + Len(s) = r[1] + Len(s) /\ p[2] = r[2]
      BY <2>3
    <3>2. p[1] \in Nat /\ r[1] \in Nat /\ Len(s) \in Nat
      BY <1>1, <1>3
    <3>3. p[1] = r[1]
      BY <3>1, <3>2
    <3> QED
      BY <1>3, <3>1, <3>3
  <2> QED
    BY <2>1, <2>2, <2>3 DEF Bijection, Injection, Surjection, IsInjective
<1> HIDE DEF A, B, C, g
<1>7. /\ IsFiniteSet(A) /\ Cardinality(A) \in Nat
      /\ IsFiniteSet(B) /\ Cardinality(B) \in Nat
  BY PlacesBound DEF A, B
<1>8. IsFiniteSet(C) /\ Cardinality(C) = Cardinality(B)
  BY <1>6, <1>7, FS_Bijection DEF ExistsBijection
<1>9. Cardinality(A \cup C) = Cardinality(A) + Cardinality(B)
  BY <1>5, <1>7, <1>8, DisjointSize
<1> QED
  BY <1>4, <1>9 DEF RefsOf, A, B, u

\* One reply, and none.
LEMMA RefsSingle ==
  ASSUME NEW r \in ReplySet, NEW x
  PROVE  RefsOf(<<r>>, x) = Refs(r.segs, x) /\ RefsOf(<<>>, x) = 0
<1> DEFINE A == Places(r.segs, x)
           B == PlacesOf(<<r>>, x)
           g == [j \in A |-> <<1, j>>]
<1>1. B = {<<1, j>> : j \in A}
  <2>1. DOMAIN <<r>> = {1} /\ <<r>>[1] = r
    OBVIOUS
  <2>2. \A p : p \in B <=> \E j \in DOMAIN r.segs : r.segs[j] = x /\ p = <<1, j>>
    BY <2>1, PlaceIn
  <2> QED
    BY <2>2 DEF Places
<1>2. g \in Bijection(A, B)
  BY <1>1 DEF Bijection, Injection, Surjection, IsInjective
<1>3. IsFiniteSet(A)
  <2>1. Len(r.segs) \in Nat /\ DOMAIN r.segs = 1 .. Len(r.segs)
    BY ReplyFields
  <2>2. A \in SUBSET (1 .. Len(r.segs)) /\ IsFiniteSet(1 .. Len(r.segs))
    BY <2>1, FS_Interval DEF Places
  <2> QED
    BY <2>2, FS_Subset
<1> HIDE DEF A, B, g
<1>4. Cardinality(B) = Cardinality(A)
  BY <1>2, <1>3, FS_Bijection DEF ExistsBijection
<1>5. PlacesOf(<<>>, x) = {}
  <2>1. \A p : p \notin PlacesOf(<<>>, x)
    BY PlaceIn
  <2> QED
    BY <2>1
<1> QED
  BY <1>4, <1>5, FS_EmptySet DEF RefsOf, Refs, A, B

\* One reply more at the end.
LEMMA AppendHolds ==
  ASSUME NEW q \in Seq(ReplySet), NEW r \in ReplySet
  PROVE  /\ Chains(Append(q, r)) = Chains(q) \cup r.chain
         /\ DataBufs(Append(q, r)) = DataBufs(q) \cup r.buf
         /\ Echoed(Append(q, r)) = Echoed(q) \cup r.rx
         /\ Apart(Append(q, r)) <=> /\ Apart(q)
                                    /\ Chains(q) \cap r.chain = {} /\ DataBufs(q) \cap r.buf = {}
         /\ \A x : RefsOf(Append(q, r), x) = RefsOf(q, x) + Refs(r.segs, x)
<1>1. PICK t : t = <<r>>
  OBVIOUS
<1>2. Append(q, r) = q \o t
  BY <1>1, AppendIsConcat
<1>3. /\ t \in Seq(ReplySet) /\ Apart(t)
      /\ Chains(t) = r.chain /\ DataBufs(t) = r.buf /\ Echoed(t) = r.rx
  BY <1>1, SingleHolds
<1>4. \A x : RefsOf(t, x) = Refs(r.segs, x)
  BY <1>1, RefsSingle
<1>5. /\ Chains(q \o t) = Chains(q) \cup Chains(t)
      /\ DataBufs(q \o t) = DataBufs(q) \cup DataBufs(t)
      /\ Echoed(q \o t) = Echoed(q) \cup Echoed(t)
  BY <1>3, ConcatHolds
<1>6. Apart(q \o t) <=> /\ Apart(q) /\ Apart(t)
                        /\ Chains(q) \cap Chains(t) = {} /\ DataBufs(q) \cap DataBufs(t) = {}
  BY <1>3, ConcatApart
<1>7. \A x : RefsOf(q \o t, x) = RefsOf(q, x) + RefsOf(t, x)
  BY <1>3, RefsConcat
<1> QED
  BY <1>2, <1>3, <1>4, <1>5, <1>6, <1>7

---------------------------------------------------------------------------
\* Types, replies and phases.

\* The constants as the steps below need them.
LEMMA Consts ==
  /\ Modes \subseteq {"echo", "copy", "zero_copy"}
  /\ BATCH_SIZE \in Nat \ {0} /\ RxWqeCnt \in Nat \ {0} /\ num_segments \in Nat \ {0}
  /\ Capacity \in Nat /\ ReplyBlocks \in Nat \ {0} /\ ReplyBlocks <= Capacity
  /\ SQ_CLEAN_MAX \in Nat \ {0} /\ RefcntMod \in Nat /\ RefcntMod > 1
  /\ EchoFits \in BOOLEAN /\ NULL \notin RxBufs
  BY ServerAssumption

\* A function on an interval is a sequence.
LEMMA ListIsSeq ==
  ASSUME NEW S, NEW k \in Nat, NEW f \in [1 .. k -> S]
  PROVE  f \in Seq(S) /\ Len(f) = k
<1>1. f \in Seq(S)
  BY SeqDef
<1>2. Len(f) \in Nat /\ DOMAIN f = 1 .. Len(f) /\ DOMAIN f = 1 .. k
  BY <1>1, LenProperties
<1> QED
  BY <1>1, <1>2

\* A sequence cut in two.
LEMMA Cut ==
  ASSUME NEW S, NEW q \in Seq(S), NEW n \in 0 .. Len(q)
  PROVE  /\ SubSeq(q, 1, n) \in Seq(S) /\ Len(SubSeq(q, 1, n)) = n
         /\ SubSeq(q, n + 1, Len(q)) \in Seq(S) /\ Len(SubSeq(q, n + 1, Len(q))) = Len(q) - n
         /\ q = SubSeq(q, 1, n) \o SubSeq(q, n + 1, Len(q))
         /\ \A i \in 1 .. n : SubSeq(q, 1, n)[i] = q[i]
         /\ \A i \in 1 .. Len(q) - n : SubSeq(q, n + 1, Len(q))[i] = q[i + n]
<1>1. /\ SubSeq(q, 1, n) \in Seq(S) /\ Len(SubSeq(q, 1, n)) = n
      /\ \A i \in 1 .. n : SubSeq(q, 1, n)[i] = q[i]
  OBVIOUS
<1>2. /\ SubSeq(q, n + 1, Len(q)) \in Seq(S) /\ Len(SubSeq(q, n + 1, Len(q))) = Len(q) - n
      /\ \A i \in 1 .. Len(q) - n : SubSeq(q, n + 1, Len(q))[i] = q[i + n]
  OBVIOUS
<1>3. q = SubSeq(q, 1, n) \o SubSeq(q, n + 1, Len(q))
  <2>1. n \in 1 - 1 .. Len(q) /\ Len(q) \in n .. Len(q) /\ 1 \in 1 .. Len(q) + 1
    OBVIOUS
  <2>2. SubSeq(q, 1, n) \o SubSeq(q, n + 1, Len(q)) = SubSeq(q, 1, Len(q))
    BY <2>1, ConcatAdjacentSubSeq
  <2>3. SubSeq(q, 1, Len(q)) = q
    BY SubSeqFull
  <2> QED
    BY <2>2, <2>3
<1> QED
  BY <1>1, <1>2, <1>3

\* mlx5_gather_completions takes the oldest replies off the send ring.
LEMMA ReapCuts ==
  ASSUME Shape, Reap
  PROVE  \E n \in 0 .. done, freed \in Seq(ReplySet) :
           /\ queue' \in Seq(ReplySet) /\ queue = freed \o queue'
           /\ n <= Len(queue) /\ Len(freed) = n /\ Len(queue') = Len(queue) - n /\ done' = done - n
           /\ \A i \in DOMAIN queue' : i + n \in DOMAIN queue /\ queue'[i] = queue[i + n]
           /\ mbuf_pool' = mbuf_pool \cup Chains(freed)
           /\ tx_pool' = tx_pool \cup DataBufs(freed)
           /\ rx_pool' = rx_pool \cup Echoed(freed)
           /\ refcnt' = [s \in Segments |-> (refcnt[s] - RefsOf(freed, s)) % RefcntMod]
<1>1. queue \in Seq(ReplySet) /\ Len(queue) \in Nat /\ done \in 0 .. Len(queue)
  BY DEF Shape, TypeOK, RepliesInv
<1>2. PICK n : n = IF done < SQ_CLEAN_MAX THEN done ELSE SQ_CLEAN_MAX
  OBVIOUS
<1>3. n \in 0 .. done /\ n \in 0 .. Len(queue)
  BY <1>1, <1>2, Consts
<1>4. PICK freed : freed = SubSeq(queue, 1, n)
  OBVIOUS
<1>5. /\ queue' = SubSeq(queue, n + 1, Len(queue)) /\ done' = done - n
      /\ mbuf_pool' = mbuf_pool \cup Chains(freed)
      /\ tx_pool' = tx_pool \cup DataBufs(freed)
      /\ rx_pool' = rx_pool \cup Echoed(freed)
      /\ refcnt' = [s \in Segments |-> (refcnt[s] - RefsOf(freed, s)) % RefcntMod]
  BY <1>2, <1>4 DEF Reap
<1>6. /\ freed \in Seq(ReplySet) /\ Len(freed) = n
      /\ queue' \in Seq(ReplySet) /\ Len(queue') = Len(queue) - n
      /\ queue = freed \o queue'
      /\ \A i \in 1 .. Len(queue) - n : queue'[i] = queue[i + n]
  BY <1>1, <1>3, <1>4, <1>5, Cut, ZenonT(40)
<1>7. \A i \in DOMAIN queue' : i + n \in DOMAIN queue /\ queue'[i] = queue[i + n]
  BY <1>1, <1>3, <1>6
<1>8. n \in 0 .. done /\ freed \in Seq(ReplySet) /\ n <= Len(queue)
  BY <1>1, <1>3, <1>6
<1> QED
  BY <1>5, <1>6, <1>7, <1>8, Zenon

\* What a sequence of replies holds comes from the pools.
LEMMA HoldsFromPools ==
  ASSUME NEW q \in Seq(ReplySet)
  PROVE  Chains(q) \subseteq Mbufs /\ DataBufs(q) \subseteq TxBufs /\ Echoed(q) \subseteq RxBufs
<1>1. \A i \in DOMAIN q : q[i] \in ReplySet
  OBVIOUS
<1>2. \A i \in DOMAIN q : q[i].rx \subseteq RxBufs /\ q[i].chain \subseteq Mbufs /\ q[i].buf \subseteq TxBufs
  BY <1>1, ReplyFields
<1>3. Chains(q) \subseteq Mbufs
  BY <1>2, Holder
<1>4. DataBufs(q) \subseteq TxBufs
  BY <1>2, Holder
<1>5. Echoed(q) \subseteq RxBufs
  BY <1>2, Holder
<1> QED
  BY <1>3, <1>4, <1>5

\* More replies take more blocks.
LEMMA BlocksGrow ==
  ASSUME NEW a \in Nat, NEW b \in Nat, NEW R \in Nat, a <= b
  PROVE  a * R <= b * R /\ (a + 1) * R = a * R + R
<1>1. a * R <= b * R
  BY Z3
<1>2. (a + 1) * R = a * R + R
  BY Z3
<1> QED
  BY <1>1, <1>2

\* A count wraps into its range.
LEMMA Wraps ==
  ASSUME NEW f, \A s \in Segments : f[s] \in Int
  PROVE  [s \in Segments |-> f[s] % RefcntMod] \in [Segments -> 0 .. RefcntMod - 1]
<1>1. ASSUME NEW s \in Segments PROVE f[s] % RefcntMod \in 0 .. RefcntMod - 1
  BY Consts, DivMod
<1> QED
  BY <1>1

\* The loop starts in shape.
LEMMA InitShape == Init => Shape
<1> SUFFICES ASSUME Init PROVE Shape
  OBVIOUS
<1>1. IsFiniteSet(RxBufs) /\ RxWqeCnt \in Nat /\ RxWqeCnt <= Cardinality(RxBufs)
  BY ServerAssumption, FS_CardinalityType
<1>2. rx_ring \subseteq RxBufs /\ Cardinality(rx_ring) = RxWqeCnt
  BY <1>1, TakeFinds DEF Init
<1>3. refcnt \in [Segments -> 0 .. RefcntMod - 1]
  BY Consts DEF Init
<1>4. Used <= Capacity
  BY Consts DEF Init, Used
<1>5. TypeOK
  BY <1>2, <1>3, <1>4, Consts DEF Init, TypeOK
<1>6. RepliesInv
  BY DEF Init, RepliesInv
<1>7. ~Forgotten
  BY DEF Init, Forgotten, Range
<1>8. PhaseInv
  BY <1>7, Consts DEF Init, PhaseInv
<1>9. RxApart
  <2>1. Waiting = {} /\ Held = {} /\ Echoed(queue) = {}
    BY DEF Init, Waiting, Held, Echoed
  <2>2. rx_ring \cap rx_pool = {}
    BY DEF Init
  <2>3. Disjoint5(rx_ring, rx_pool, Waiting, Held, Echoed(queue))
    BY <2>1, <2>2 DEF Disjoint5
  <2> QED
    BY <1>2, <2>3 DEF Init, RxApart
<1> QED
  BY <1>5, <1>6, <1>8, <1>9 DEF Shape

\* The types of the sequences.
LEMMA ShapeTypes ==
  ASSUME Shape
  PROVE  /\ mode \in Modes /\ mode \in {"echo", "copy", "zero_copy"}
         /\ recv \in Seq([b : RxBufs, status : {"valid", "invalid"}])
         /\ Len(recv) \in Nat /\ DOMAIN recv = 1 .. Len(recv)
         /\ batch \in Seq(RxBufs \cup {NULL}) /\ Len(batch) \in Nat /\ DOMAIN batch = 1 .. Len(batch)
         /\ sends \in Seq(ReplySet) /\ Len(sends) \in Nat /\ DOMAIN sends = 1 .. Len(sends)
         /\ queue \in Seq(ReplySet) /\ Len(queue) \in Nat /\ DOMAIN queue = 1 .. Len(queue)
         /\ sent \in 0 .. Len(sends) /\ done \in 0 .. Len(queue)
         /\ rx_ring \subseteq RxBufs /\ IsFiniteSet(rx_ring)
         /\ rx_pool \subseteq RxBufs /\ IsFiniteSet(rx_pool)
         /\ mbuf_pool \subseteq Mbufs /\ IsFiniteSet(mbuf_pool) /\ Cardinality(mbuf_pool) \in Nat
         /\ tx_pool \subseteq TxBufs /\ IsFiniteSet(tx_pool) /\ Cardinality(tx_pool) \in Nat
<1>1. /\ mode \in Modes /\ mode \in {"echo", "copy", "zero_copy"}
      /\ recv \in Seq([b : RxBufs, status : {"valid", "invalid"}])
      /\ batch \in Seq(RxBufs \cup {NULL})
      /\ sends \in Seq(ReplySet) /\ queue \in Seq(ReplySet)
      /\ sent \in 0 .. Len(sends) /\ done \in 0 .. Len(queue)
      /\ rx_ring \subseteq RxBufs /\ rx_pool \subseteq RxBufs
      /\ mbuf_pool \subseteq Mbufs /\ tx_pool \subseteq TxBufs
  BY Consts DEF Shape, TypeOK, RepliesInv
<1>2. /\ Len(recv) \in Nat /\ DOMAIN recv = 1 .. Len(recv)
      /\ Len(batch) \in Nat /\ DOMAIN batch = 1 .. Len(batch)
      /\ Len(sends) \in Nat /\ DOMAIN sends = 1 .. Len(sends)
      /\ Len(queue) \in Nat /\ DOMAIN queue = 1 .. Len(queue)
  BY <1>1, LenProperties
<1>3. IsFiniteSet(rx_ring) /\ IsFiniteSet(rx_pool) /\ IsFiniteSet(mbuf_pool) /\ IsFiniteSet(tx_pool)
  BY <1>1, ServerAssumption, FS_Subset
<1>4. Cardinality(mbuf_pool) \in Nat /\ Cardinality(tx_pool) \in Nat
  BY <1>3, FS_CardinalityType
<1> QED
  BY <1>1, <1>2, <1>3, <1>4

\* What a poll that finds its buffers does to the receive buffers.
LEMMA PollMoves ==
  ASSUME Shape, NEW burst \in Bursts, Poll(burst), pc' # "crash"
  PROVE  \E got \in SUBSET rx_ring, new \in SUBSET rx_pool :
           /\ IsFiniteSet(got) /\ Cardinality(got) = Len(burst)
           /\ IsFiniteSet(new) /\ Cardinality(new) = Len(burst)
           /\ pc = "poll" /\ pc' = "scan" /\ batch' = <<>>
           /\ rx_ring' = (rx_ring \ got) \cup new /\ rx_pool' = rx_pool \ new
           /\ recv' \in Seq([b : RxBufs, status : {"valid", "invalid"}]) /\ Len(recv') = Len(burst)
           /\ \A i \in 1 .. Len(burst) : recv'[i].b \in got /\ recv'[i].status = burst[i]
           /\ \A i, j \in 1 .. Len(burst) : recv'[i].b = recv'[j].b => i = j
           /\ \A x \in got : \E i \in 1 .. Len(burst) : recv'[i].b = x
           /\ UNCHANGED <<sends, sent, mbuf_pool, tx_pool, refcnt, queue, done, mode>>
<1> DEFINE n == Len(burst)
<1>2. burst \in Seq({"valid", "invalid"}) /\ n \in 1 .. RxWqeCnt /\ RxWqeCnt \in Nat
  BY ServerAssumption
<1>3. PICK got, new, order : got = Take(rx_ring, n) /\ new = Take(rx_pool, n) /\ order = SetToSeq(got)
  OBVIOUS
<1>4. /\ pc = "poll" /\ pc' = "scan" /\ batch' = <<>> /\ ~(Cardinality(rx_pool) < n)
      /\ recv' = [i \in 1 .. n |-> [b |-> order[i], status |-> burst[i]]]
      /\ rx_ring' = (rx_ring \ got) \cup new /\ rx_pool' = rx_pool \ new
      /\ UNCHANGED <<sends, sent, mbuf_pool, tx_pool, refcnt, queue, done, mode>>
  BY <1>3 DEF Poll, txVars
<1>5. IsFiniteSet(rx_ring) /\ IsFiniteSet(rx_pool) /\ rx_ring \subseteq RxBufs
  BY ShapeTypes
<1>6. Cardinality(rx_ring) = RxWqeCnt /\ Cardinality(rx_pool) \in Nat
  BY <1>5, FS_CardinalityType DEF Shape, RxApart
<1>7. got \subseteq rx_ring /\ IsFiniteSet(got) /\ Cardinality(got) = n
  BY <1>2, <1>3, <1>5, <1>6, TakeFinds
<1>8. new \subseteq rx_pool /\ IsFiniteSet(new) /\ Cardinality(new) = n
  BY <1>2, <1>3, <1>4, <1>5, <1>6, TakeFinds
<1>9. /\ order \in [1 .. n -> got]
      /\ \A i, j \in 1 .. n : order[i] = order[j] => i = j
      /\ \A x \in got : \E i \in 1 .. n : order[i] = x
  BY <1>3, <1>7, ListsAll
<1>10. \A i \in 1 .. n : order[i] \in RxBufs /\ burst[i] \in {"valid", "invalid"}
  BY <1>2, <1>5, <1>7, <1>9
<1>11. recv' \in Seq([b : RxBufs, status : {"valid", "invalid"}]) /\ Len(recv') = n
  <2>1. recv' \in [1 .. n -> [b : RxBufs, status : {"valid", "invalid"}]]
    BY <1>4, <1>10
  <2>2. n \in Nat
    BY <1>2
  <2> QED
    BY <2>1, <2>2, ListIsSeq
<1>12. \A i \in 1 .. n : recv'[i].b = order[i] /\ recv'[i].status = burst[i]
  BY <1>4
<1>13. /\ \A i \in 1 .. n : recv'[i].b \in got /\ recv'[i].status = burst[i]
       /\ \A i, j \in 1 .. n : recv'[i].b = recv'[j].b => i = j
       /\ \A x \in got : \E i \in 1 .. n : recv'[i].b = x
  BY <1>9, <1>12
<1>14. got \in SUBSET rx_ring /\ new \in SUBSET rx_pool
  BY <1>7, <1>8
<1> QED
  BY <1>4, <1>7, <1>8, <1>11, <1>13, <1>14, Zenon

\* do_server polls.
LEMMA PollShape ==
  ASSUME Shape, NEW burst \in Bursts, Poll(burst)
  PROVE  Shape'
<1>1. CASE pc' = "crash"
  <2>1. UNCHANGED <<recv, rx_ring, rx_pool, batch, sends, sent, mbuf_pool, tx_pool, refcnt, queue, done, mode>>
    BY <1>1 DEF Poll, rxVars, txVars
  <2>2. TypeOK'
    BY <1>1, <2>1 DEF Shape, TypeOK, Used
  <2>3. RepliesInv'
    BY <2>1 DEF Shape, RepliesInv, OfMode
  <2>4. PhaseInv'
    BY <1>1, <2>1 DEF Poll, Shape, PhaseInv, Forgotten
  <2>5. RxApart'
    BY <2>1 DEF Shape, RxApart, Waiting, Held
  <2> QED
    BY <2>2, <2>3, <2>4, <2>5 DEF Shape
<1>2. CASE pc' # "crash"
  <2>1. PICK got \in SUBSET rx_ring, new \in SUBSET rx_pool :
           /\ IsFiniteSet(got) /\ Cardinality(got) = Len(burst)
           /\ IsFiniteSet(new) /\ Cardinality(new) = Len(burst)
           /\ pc = "poll" /\ pc' = "scan" /\ batch' = <<>>
           /\ rx_ring' = (rx_ring \ got) \cup new /\ rx_pool' = rx_pool \ new
           /\ recv' \in Seq([b : RxBufs, status : {"valid", "invalid"}]) /\ Len(recv') = Len(burst)
           /\ \A i \in 1 .. Len(burst) : recv'[i].b \in got /\ recv'[i].status = burst[i]
           /\ \A i, j \in 1 .. Len(burst) : recv'[i].b = recv'[j].b => i = j
           /\ \A x \in got : \E i \in 1 .. Len(burst) : recv'[i].b = x
           /\ UNCHANGED <<sends, sent, mbuf_pool, tx_pool, refcnt, queue, done, mode>>
    BY <1>2, PollMoves, Zenon
  <2>2. sends = <<>> /\ sent = 0
    BY <2>1 DEF Shape, PhaseInv
  <2>3. TypeOK'
    BY <2>1, <2>2, Consts DEF Shape, TypeOK, Used
  <2>4. RepliesInv'
    BY <2>1, <2>2 DEF Shape, RepliesInv, OfMode
  <2>5. ~Forgotten'
    BY <2>1 DEF Forgotten, Range
  <2>6. PhaseInv'
    BY <2>1, <2>2, <2>5, Consts DEF Shape, PhaseInv
  <2>7. RxApart'
    <3>1. Cardinality(rx_ring') = RxWqeCnt
      <4>1. rx_ring \cap new = {} /\ IsFiniteSet(rx_ring)
        BY ShapeTypes DEF Shape, RxApart, Disjoint5
      <4>2. rx_ring \cap got = got /\ (rx_ring \ got) \cap new = {}
        BY <4>1
      <4>3. Cardinality(rx_ring) = RxWqeCnt
        BY DEF Shape, RxApart
      <4>4. /\ IsFiniteSet(rx_ring \ got)
            /\ Cardinality(rx_ring \ got) = Cardinality(rx_ring) - Cardinality(rx_ring \cap got)
        BY <4>1, FS_Difference
      <4>5. /\ Cardinality((rx_ring \ got) \cup new) = Cardinality(rx_ring \ got) + Cardinality(new)
            /\ Cardinality(new) \in Nat
        BY <2>1, <4>2, <4>4, DisjointSize
      <4>6. Cardinality(got) = Cardinality(new) /\ rx_ring' = (rx_ring \ got) \cup new
        BY <2>1
      <4>7. Cardinality(rx_ring \ got) = RxWqeCnt - Cardinality(new)
        BY <4>2, <4>3, <4>4, <4>6
      <4>8. RxWqeCnt \in Nat
        BY Consts
      <4>9. Cardinality(rx_ring') = (RxWqeCnt - Cardinality(new)) + Cardinality(new)
        BY <4>5, <4>6, <4>7
      <4> QED
        BY <4>5, <4>8, <4>9
    <3>2. Waiting' = got /\ Held' = {} /\ Echoed(queue') = Echoed(queue)
      <4>1. DOMAIN recv' = 1 .. Len(burst)
        BY <2>1
      <4>2. Waiting' = got
        BY <2>1, <4>1 DEF Waiting
      <4> QED
        BY <2>1, <4>2 DEF Held
    <3>3. Disjoint5(rx_ring', rx_pool', Waiting', Held', Echoed(queue'))
      BY <2>1, <3>2 DEF Shape, RxApart, Disjoint5
    <3>4. \A i, j \in DOMAIN recv' : i # j => recv'[i].b # recv'[j].b
      BY <2>1
    <3> QED
      BY <2>1, <3>1, <3>3, <3>4 DEF Shape, RxApart
  <2> QED
    BY <2>3, <2>4, <2>6, <2>7 DEF Shape
<1> QED
  BY <1>1, <1>2

\* The first packet of the burst leaves it.
LEMMA PopRecv ==
  ASSUME Shape, recv # <<>>, recv' = Tail(recv)
  PROVE  /\ Head(recv) \in [b : RxBufs, status : {"valid", "invalid"}] /\ Head(recv) = recv[1]
         /\ recv' \in Seq([b : RxBufs, status : {"valid", "invalid"}])
         /\ Len(recv) >= 1 /\ Len(recv') = Len(recv) - 1
         /\ \A i \in 1 .. Len(recv') : i + 1 \in 1 .. Len(recv) /\ recv'[i] = recv[i + 1]
         /\ Waiting = Waiting' \cup {Head(recv).b} /\ Head(recv).b \notin Waiting'
         /\ \A i, j \in DOMAIN recv' : i # j => recv'[i].b # recv'[j].b
<1>1. recv \in Seq([b : RxBufs, status : {"valid", "invalid"}])
  BY ShapeTypes
<1>2. /\ Head(recv) \in [b : RxBufs, status : {"valid", "invalid"}] /\ Head(recv) = recv[1]
      /\ recv' \in Seq([b : RxBufs, status : {"valid", "invalid"}])
      /\ Len(recv) >= 1 /\ Len(recv') = Len(recv) - 1
      /\ \A i \in 1 .. Len(recv') : i + 1 \in 1 .. Len(recv) /\ recv'[i] = recv[i + 1]
      /\ Len(recv) \in Nat /\ DOMAIN recv = 1 .. Len(recv) /\ DOMAIN recv' = 1 .. Len(recv')
  <2>1. /\ Head(recv) \in [b : RxBufs, status : {"valid", "invalid"}]
        /\ recv' \in Seq([b : RxBufs, status : {"valid", "invalid"}]) /\ Len(recv') = Len(recv) - 1
        /\ \A i \in 1 .. Len(recv') : recv'[i] = recv[i + 1]
    BY <1>1, HeadTailProperties
  <2>2. Len(recv) \in Nat \ {0} /\ DOMAIN recv = 1 .. Len(recv) /\ DOMAIN recv' = 1 .. Len(recv')
    BY <1>1, <2>1, EmptySeq, LenProperties
  <2>3. Head(recv) = recv[1]
    BY <1>1
  <2> QED
    BY <2>1, <2>2, <2>3
<1>3. \A i, j \in DOMAIN recv : i # j => recv[i].b # recv[j].b
  BY DEF Shape, RxApart
<1>4. \A i \in 1 .. Len(recv) : i = 1 \/ (i - 1 \in 1 .. Len(recv') /\ recv[i] = recv'[i - 1])
  BY <1>2
<1>5. \A x : x \in Waiting <=> \E i \in DOMAIN recv : recv[i].b = x
  BY DEF Waiting
<1>6. \A x : x \in Waiting' <=> \E i \in DOMAIN recv' : recv'[i].b = x
  BY DEF Waiting
<1>7. Waiting = Waiting' \cup {Head(recv).b}
  <2>1. ASSUME NEW x \in Waiting PROVE x \in Waiting' \cup {Head(recv).b}
    <3>1. PICK i \in 1 .. Len(recv) : recv[i].b = x
      BY <1>2, <1>5
    <3>2. CASE i = 1
      BY <1>2, <3>1, <3>2
    <3>3. CASE i - 1 \in 1 .. Len(recv') /\ recv[i] = recv'[i - 1]
      BY <1>2, <1>6, <3>1, <3>3
    <3> QED
      BY <1>4, <3>2, <3>3
  <2>2. Waiting' \subseteq Waiting
    BY <1>2, <1>5, <1>6
  <2>3. Head(recv).b \in Waiting
    BY <1>2, <1>5
  <2> QED
    BY <2>1, <2>2, <2>3
<1>8. Head(recv).b \notin Waiting'
  <2> SUFFICES ASSUME NEW i \in 1 .. Len(recv'), recv'[i].b = recv[1].b PROVE FALSE
    BY <1>2, <1>6
  <2>1. i + 1 \in DOMAIN recv /\ 1 \in DOMAIN recv /\ i + 1 # 1 /\ recv[i + 1].b = recv[1].b
    BY <1>2
  <2> QED
    BY <1>3, <2>1
<1>9. \A i, j \in DOMAIN recv' : i # j => recv'[i].b # recv'[j].b
  <2> SUFFICES ASSUME NEW i \in 1 .. Len(recv'), NEW j \in 1 .. Len(recv'), i # j
               PROVE  recv'[i].b # recv'[j].b
    BY <1>2
  <2>1. i + 1 \in DOMAIN recv /\ j + 1 \in DOMAIN recv /\ i + 1 # j + 1
    BY <1>2
  <2> QED
    BY <1>2, <1>3, <2>1
<1> QED
  BY <1>2, <1>7, <1>8, <1>9

\* Outside echo mode, and before the first post, all packets are held.
LEMMA HeldAll ==
  ASSUME Shape, ~Forgotten, mode = "echo" => sent = 0
  PROVE  Held = Range(batch) /\ Range(batch) \subseteq RxBufs
<1>1. batch \in Seq(RxBufs \cup {NULL}) /\ DOMAIN batch = 1 .. Len(batch) /\ Len(batch) \in Nat
  BY ShapeTypes
<1>2. \A i \in DOMAIN batch : batch[i] # NULL /\ batch[i] \in RxBufs /\ i > 0
  BY <1>1 DEF Forgotten, Range
<1> QED
  BY <1>1, <1>2 DEF Held, Range

\* check_valid_packet refuses the packet.
LEMMA SkipShape ==
  ASSUME Shape, SkipInvalid
  PROVE  Shape'
<1>1. /\ pc = "scan" /\ recv # <<>> /\ recv' = Tail(recv) /\ rx_pool' = rx_pool \cup {Head(recv).b}
      /\ UNCHANGED <<pc, batch, rx_ring, sends, sent, mbuf_pool, tx_pool, refcnt, queue, done, mode>>
  BY DEF SkipInvalid, Scanning, txVars
<1>2. /\ Head(recv).b \in RxBufs
      /\ recv' \in Seq([b : RxBufs, status : {"valid", "invalid"}])
      /\ Waiting = Waiting' \cup {Head(recv).b} /\ Head(recv).b \notin Waiting'
      /\ \A i, j \in DOMAIN recv' : i # j => recv'[i].b # recv'[j].b
  BY <1>1, PopRecv
<1>3. TypeOK'
  BY <1>1, <1>2 DEF Shape, TypeOK, Used
<1>4. RepliesInv'
  BY <1>1 DEF Shape, RepliesInv, OfMode
<1>5. PhaseInv'
  BY <1>1 DEF Shape, PhaseInv, Forgotten
<1>6. RxApart'
  <2>1. Held' = Held
    BY <1>1 DEF Held
  <2>2. Disjoint5(rx_ring', rx_pool', Waiting', Held', Echoed(queue'))
    BY <1>1, <1>2, <2>1 DEF Shape, RxApart, Disjoint5
  <2> QED
    BY <1>1, <1>2, <2>2 DEF Shape, RxApart
<1> QED
  BY <1>3, <1>4, <1>5, <1>6 DEF Shape

\* A valid packet joins the batch.
LEMMA TakeShape ==
  ASSUME Shape, TakeValid
  PROVE  Shape' /\ Held' = Held \cup {Head(recv).b} /\ ~Forgotten'
<1>1. /\ pc = "scan" /\ recv # <<>> /\ recv' = Tail(recv) /\ batch' = Append(batch, Head(recv).b)
      /\ pc' = (IF Len(batch') = BATCH_SIZE \/ recv' = <<>> THEN "build" ELSE "scan")
      /\ UNCHANGED <<rx_ring, rx_pool, sends, sent, mbuf_pool, tx_pool, refcnt, queue, done, mode>>
  BY DEF TakeValid, Scanning, txVars
<1>2. /\ Head(recv).b \in RxBufs
      /\ recv' \in Seq([b : RxBufs, status : {"valid", "invalid"}])
      /\ Waiting = Waiting' \cup {Head(recv).b} /\ Head(recv).b \notin Waiting'
      /\ \A i, j \in DOMAIN recv' : i # j => recv'[i].b # recv'[j].b
  BY <1>1, PopRecv
<1>3. sends = <<>> /\ sent = 0 /\ Len(batch) < BATCH_SIZE /\ ~Forgotten
  BY <1>1 DEF Shape, PhaseInv
<1>4. PICK x : x = Head(recv).b
  OBVIOUS
<1>5. /\ batch \in Seq(RxBufs \cup {NULL}) /\ Len(batch) \in Nat /\ DOMAIN batch = 1 .. Len(batch)
      /\ batch' \in Seq(RxBufs \cup {NULL}) /\ Len(batch') = Len(batch) + 1
      /\ DOMAIN batch' = 1 .. Len(batch) + 1
      /\ \A i \in 1 .. Len(batch) : batch'[i] = batch[i]
      /\ batch'[Len(batch) + 1] = x /\ x \in RxBufs /\ x # NULL
  BY <1>1, <1>2, <1>4, ShapeTypes, Consts
<1>6. TypeOK'
  BY <1>1, <1>2, <1>3, <1>5, Consts DEF Shape, TypeOK, Used
<1>7. RepliesInv'
  BY <1>1, <1>3 DEF Shape, RepliesInv, OfMode
<1>8. \A i \in DOMAIN batch' : batch'[i] = x \/ (i \in DOMAIN batch /\ batch'[i] = batch[i])
  BY <1>5
<1>9. Range(batch') = Range(batch) \cup {x}
  BY <1>5, <1>8 DEF Range
<1>10. ~Forgotten'
  BY <1>3, <1>5, <1>9 DEF Forgotten
<1>11. PhaseInv'
  BY <1>1, <1>3, <1>5, <1>10, Consts DEF Shape, PhaseInv
<1>12. Held' = Held \cup {x}
  <2>1. Held = Range(batch)
    BY <1>3, HeldAll
  <2>2. \A i \in DOMAIN batch' : batch'[i] # NULL /\ i > sent'
    BY <1>1, <1>3, <1>5, <1>10 DEF Forgotten, Range
  <2>3. Held' = Range(batch')
    BY <2>2 DEF Held, Range
  <2> QED
    BY <1>9, <2>1, <2>3
<1>13. RxApart'
  <2>1. Disjoint5(rx_ring', rx_pool', Waiting', Held', Echoed(queue'))
    BY <1>1, <1>2, <1>4, <1>12 DEF Shape, RxApart, Disjoint5
  <2>2. x \in Waiting /\ Waiting \cap Held = {} /\ Held = Range(batch)
    BY <1>2, <1>3, <1>4, HeldAll DEF Shape, RxApart, Disjoint5
  <2>3. \A i \in DOMAIN batch : batch[i] # x
    BY <2>2 DEF Range
  <2>4. \A i, j \in DOMAIN batch' : i # j /\ batch'[i] # NULL => batch'[i] # batch'[j]
    <3> SUFFICES ASSUME NEW i \in DOMAIN batch', NEW j \in DOMAIN batch', i # j, batch'[i] # NULL
                 PROVE  batch'[i] # batch'[j]
      OBVIOUS
    <3>1. CASE i \in DOMAIN batch /\ j \in DOMAIN batch
      BY <1>5, <3>1 DEF Shape, RxApart
    <3>2. CASE i \notin DOMAIN batch \/ j \notin DOMAIN batch
      BY <1>5, <2>3, <3>2
    <3> QED
      BY <3>1, <3>2
  <2> QED
    BY <1>1, <1>2, <2>1, <2>4 DEF Shape, RxApart
<1> QED
  BY <1>4, <1>6, <1>7, <1>10, <1>11, <1>12, <1>13 DEF Shape

\* The receive buffers stay where they are.
LEMMA RxFrame ==
  ASSUME Shape, UNCHANGED <<recv, rx_ring, rx_pool, batch, sent, queue, mode>>
  PROVE  RxApart' /\ Held' = Held /\ (Forgotten' <=> Forgotten)
<1>1. Held' = Held /\ Waiting' = Waiting /\ (Forgotten' <=> Forgotten)
  BY DEF Held, Waiting, Forgotten
<1>2. RxApart'
  BY <1>1 DEF Shape, RxApart
<1> QED
  BY <1>1, <1>2

\* The burst is used up.
LEMMA ScanDoneShape ==
  ASSUME Shape, ScanDone
  PROVE  Shape' /\ Held' = Held
<1>1. /\ pc = "scan" /\ recv = <<>> /\ pc' = "poll"
      /\ UNCHANGED <<recv, rx_ring, rx_pool, batch, sends, sent, mbuf_pool, tx_pool, refcnt, queue, done, mode>>
  BY DEF ScanDone, rxVars, txVars
<1>2. RxApart' /\ Held' = Held /\ (Forgotten' <=> Forgotten)
  BY <1>1, RxFrame
<1>3. TypeOK'
  BY <1>1 DEF Shape, TypeOK, Used
<1>4. RepliesInv'
  BY <1>1 DEF Shape, RepliesInv, OfMode
<1>5. PhaseInv'
  BY <1>1, <1>2 DEF Shape, PhaseInv
<1> QED
  BY <1>2, <1>3, <1>4, <1>5 DEF Shape

\* A reply joins send_mbufs.
LEMMA AppendShape ==
  ASSUME Shape, Building, NEW r \in ReplySet, OfMode(r),
         mode = "echo" => EchoFits /\ r.rx = {Request},
         sends' = Append(sends, r),
         UNCHANGED <<pc, recv, rx_ring, rx_pool, batch, sent, queue, done, mode>>,
         mbuf_pool' \subseteq Mbufs, tx_pool' \subseteq TxBufs,
         refcnt' \in [Segments -> 0 .. RefcntMod - 1]
  PROVE  Shape'
<1>1. pc = "build" /\ Len(sends) < Len(batch) /\ Len(batch) <= BATCH_SIZE /\ sent = 0
  BY DEF Building, Shape, PhaseInv, TypeOK
<1>2. /\ sends \in Seq(ReplySet) /\ Len(sends) \in Nat /\ Len(batch) \in Nat
      /\ sends' \in Seq(ReplySet) /\ Len(sends') = Len(sends) + 1
      /\ DOMAIN sends' = 1 .. Len(sends) + 1 /\ DOMAIN sends = 1 .. Len(sends)
      /\ \A i \in 1 .. Len(sends) : sends'[i] = sends[i]
      /\ sends'[Len(sends) + 1] = r
  BY ShapeTypes, AppendProperties
<1>3. TypeOK'
  BY <1>1, <1>2, Consts DEF Shape, TypeOK, Used
<1>4. RepliesInv'
  <2>1. \A i \in DOMAIN sends' : OfMode(sends'[i])
    BY <1>2 DEF Shape, RepliesInv
  <2>2. \A q : OfMode(q)' <=> OfMode(q)
    BY DEF OfMode
  <2>3. mode = "echo" => \A i \in DOMAIN sends' : sends'[i].rx = {batch[i]}
    BY <1>2 DEF Shape, RepliesInv, Request
  <2>4. \A i \in DOMAIN sends' : OfMode(sends[i])'
    BY <2>1 DEF OfMode
  <2> QED
    BY <1>2, <2>3, <2>4 DEF Shape, RepliesInv, OfMode
<1>5. RxApart' /\ (Forgotten' <=> Forgotten)
  BY RxFrame
<1>6. PhaseInv'
  BY <1>1, <1>2, <1>5 DEF Shape, PhaseInv
<1> QED
  BY <1>3, <1>4, <1>5, <1>6 DEF Shape

\* A reply built in echo mode.
LEMMA EchoReply ==
  ASSUME NEW x \in RxBufs
  PROVE  [rx |-> {x}, chain |-> {}, buf |-> {}, segs |-> <<>>] \in ReplySet
<1>1. Cardinality({x}) = 1 /\ Cardinality({}) = 0
  BY FS_Singleton, FS_EmptySet
<1>2. <<>> \in Seq(Segments) /\ Len(<<>>) = 0
  BY EmptySeq
<1>3. PICK r : r = [rx |-> {x}, chain |-> {}, buf |-> {}, segs |-> <<>>]
  OBVIOUS
<1>4. r.rx = {x} /\ r.chain = {} /\ r.buf = {} /\ r.segs = <<>>
  BY <1>3
<1>5. r \in [rx : SUBSET RxBufs, chain : SUBSET Mbufs, buf : SUBSET TxBufs, segs : Seq(Segments)]
  BY <1>2, <1>3
<1>6. /\ Cardinality(r.rx) <= 1 /\ Cardinality(r.buf) <= 1
      /\ Cardinality(r.chain) <= num_segments /\ Len(r.segs) <= num_segments
  BY <1>1, <1>2, <1>4, Consts
<1> QED
  BY <1>3, <1>5, <1>6 DEF ReplySet

\* A reply built in another mode.
LEMMA BuiltReply ==
  ASSUME NEW c \in SUBSET Mbufs, NEW d \in SUBSET TxBufs, NEW segs \in Seq(Segments),
         Cardinality(c) <= num_segments, Cardinality(d) <= 1, Len(segs) <= num_segments
  PROVE  [rx |-> {}, chain |-> c, buf |-> d, segs |-> segs] \in ReplySet
<1>1. PICK r : r = [rx |-> {}, chain |-> c, buf |-> d, segs |-> segs]
  OBVIOUS
<1>2. r.rx = {} /\ r.chain = c /\ r.buf = d /\ r.segs = segs
  BY <1>1
<1>3. r \in [rx : SUBSET RxBufs, chain : SUBSET Mbufs, buf : SUBSET TxBufs, segs : Seq(Segments)]
  BY <1>1
<1>4. Cardinality(r.rx) <= 1
  BY <1>2, FS_EmptySet
<1> QED
  BY <1>1, <1>2, <1>3, <1>4 DEF ReplySet

\* process_echo_requests
LEMMA BuildEchoShape ==
  ASSUME Shape, BuildEcho
  PROVE  Shape'
<1>1. PICK r : r = [rx |-> {Request}, chain |-> {}, buf |-> {}, segs |-> <<>>]
  OBVIOUS
<1>2. /\ Building /\ mode = "echo" /\ EchoFits /\ sends' = Append(sends, r)
      /\ UNCHANGED <<pc, recv, rx_ring, rx_pool, batch, sent, mbuf_pool, tx_pool, refcnt, queue, done, mode>>
  BY <1>1 DEF BuildEcho, rxVars, txVars
<1>3. Request \in RxBufs
  <2>1. pc = "build" /\ Len(sends) < Len(batch) /\ ~Forgotten
    BY <1>2 DEF Building, Shape, PhaseInv
  <2>2. Len(sends) + 1 \in DOMAIN batch /\ batch[Len(sends) + 1] \in RxBufs \cup {NULL}
    BY <2>1, ShapeTypes
  <2> QED
    BY <2>1, <2>2 DEF Forgotten, Range, Request
<1>4. r \in ReplySet
  BY <1>1, <1>3, EchoReply
<1>5. OfMode(r) /\ r.rx = {Request}
  BY <1>1, <1>2 DEF OfMode
<1>6. /\ mbuf_pool' \subseteq Mbufs /\ tx_pool' \subseteq TxBufs
      /\ refcnt' \in [Segments -> 0 .. RefcntMod - 1]
  BY <1>2 DEF Shape, TypeOK
<1> QED
  BY <1>2, <1>4, <1>5, <1>6, AppendShape

\* process_server_requests, copying
LEMMA BuildCopyShape ==
  ASSUME Shape, BuildCopy
  PROVE  /\ Shape'
         /\ \E c \in SUBSET mbuf_pool, d \in SUBSET tx_pool, r \in ReplySet :
              /\ r = [rx |-> {}, chain |-> c, buf |-> d, segs |-> <<>>]
              /\ sends' = Append(sends, r)
              /\ mbuf_pool' = mbuf_pool \ c /\ tx_pool' = tx_pool \ d
<1>1. PICK c, d : c = Take(mbuf_pool, 1) /\ d = Take(tx_pool, 1)
  OBVIOUS
<1>2. PICK r : r = [rx |-> {}, chain |-> c, buf |-> d, segs |-> <<>>]
  OBVIOUS
<1>3. /\ Building /\ mode = "copy" /\ mbuf_pool # {} /\ tx_pool # {} /\ sends' = Append(sends, r)
      /\ mbuf_pool' = mbuf_pool \ c /\ tx_pool' = tx_pool \ d
      /\ UNCHANGED <<pc, recv, rx_ring, rx_pool, batch, sent, refcnt, queue, done, mode>>
  BY <1>1, <1>2 DEF BuildCopy, rxVars
<1>4. /\ mbuf_pool \subseteq Mbufs /\ IsFiniteSet(mbuf_pool) /\ Cardinality(mbuf_pool) \in Nat
      /\ tx_pool \subseteq TxBufs /\ IsFiniteSet(tx_pool) /\ Cardinality(tx_pool) \in Nat
  BY ShapeTypes
<1>5. Cardinality(mbuf_pool) # 0 /\ Cardinality(tx_pool) # 0
  BY <1>3, <1>4, FS_EmptySet
<1>6. 1 <= Cardinality(mbuf_pool) /\ 1 <= Cardinality(tx_pool)
  BY <1>4, <1>5
<1>7. c \subseteq mbuf_pool /\ Cardinality(c) = 1 /\ d \subseteq tx_pool /\ Cardinality(d) = 1
  BY <1>1, <1>4, <1>6, TakeFinds
<1>8. r \in ReplySet
  <2>1. <<>> \in Seq(Segments) /\ Len(<<>>) = 0
    BY EmptySeq
  <2>2. /\ c \in SUBSET Mbufs /\ d \in SUBSET TxBufs
        /\ Cardinality(c) <= num_segments /\ Cardinality(d) <= 1
    BY <1>4, <1>7, Consts
  <2>3. Len(<<>>) <= num_segments
    BY <2>1, Consts
  <2>4. PICK segs : segs = <<>>
    OBVIOUS
  <2> QED
    BY <1>2, <2>1, <2>2, <2>3, <2>4, BuiltReply
<1>9. OfMode(r)
  BY <1>2, <1>3 DEF OfMode
<1>10. /\ mbuf_pool' \subseteq Mbufs /\ tx_pool' \subseteq TxBufs
       /\ refcnt' \in [Segments -> 0 .. RefcntMod - 1]
  BY <1>3 DEF Shape, TypeOK
<1>11. Shape'
  BY <1>3, <1>8, <1>9, <1>10, AppendShape
<1>12. c \in SUBSET mbuf_pool /\ d \in SUBSET tx_pool
  BY <1>7
<1> QED
  BY <1>2, <1>3, <1>8, <1>11, <1>12, Zenon

\* process_server_requests, pointing into the working set
LEMMA BuildZeroCopyShape ==
  ASSUME Shape, NEW segs \in SegmentLists, BuildZeroCopy(segs)
  PROVE  /\ Shape'
         /\ \E c \in SUBSET mbuf_pool, r \in ReplySet :
              /\ r = [rx |-> {}, chain |-> c, buf |-> {}, segs |-> segs]
              /\ sends' = Append(sends, r)
              /\ mbuf_pool' = mbuf_pool \ c
<1>1. PICK c : c = Take(mbuf_pool, num_segments)
  OBVIOUS
<1>2. PICK r : r = [rx |-> {}, chain |-> c, buf |-> {}, segs |-> segs]
  OBVIOUS
<1>3. /\ Building /\ mode = "zero_copy" /\ Cardinality(mbuf_pool) >= num_segments
      /\ sends' = Append(sends, r) /\ mbuf_pool' = mbuf_pool \ c
      /\ refcnt' = [s \in Segments |-> (refcnt[s] + Refs(segs, s)) % RefcntMod]
      /\ UNCHANGED <<pc, recv, rx_ring, rx_pool, batch, sent, tx_pool, queue, done, mode>>
  BY <1>1, <1>2 DEF BuildZeroCopy, rxVars
<1>4. /\ mbuf_pool \subseteq Mbufs /\ IsFiniteSet(mbuf_pool) /\ Cardinality(mbuf_pool) \in Nat
  BY ShapeTypes
<1>5. c \subseteq mbuf_pool /\ Cardinality(c) = num_segments
  BY <1>1, <1>3, <1>4, TakeFinds, Consts
<1>6. segs \in Seq(Segments) /\ Len(segs) = num_segments
  BY ListIsSeq, Consts DEF SegmentLists
<1>7. r \in ReplySet
  <2>1. {} \in SUBSET TxBufs /\ Cardinality({}) = 0 /\ c \in SUBSET Mbufs
    BY <1>4, <1>5, FS_EmptySet
  <2>2. Cardinality(c) <= num_segments /\ Len(segs) <= num_segments
    BY <1>5, <1>6, Consts
  <2>3. PICK d : d = {}
    OBVIOUS
  <2>4. d \in SUBSET TxBufs /\ Cardinality(d) <= 1
    BY <2>1, <2>3
  <2> QED
    BY <1>2, <1>6, <2>1, <2>2, <2>3, <2>4, BuiltReply
<1>8. OfMode(r)
  BY <1>2, <1>3 DEF OfMode
<1>9. refcnt' \in [Segments -> 0 .. RefcntMod - 1]
  <2>1. PICK f : f = [s \in Segments |-> refcnt[s] + Refs(segs, s)]
    OBVIOUS
  <2>2. \A s \in Segments : refcnt[s] \in Int /\ Refs(segs, s) \in Int
    BY <1>6, RefsType, Consts DEF Shape, TypeOK
  <2>3. \A s \in Segments : f[s] \in Int /\ f[s] = refcnt[s] + Refs(segs, s)
    BY <2>1, <2>2
  <2>4. refcnt' = [s \in Segments |-> f[s] % RefcntMod]
    BY <1>3, <2>3
  <2> QED
    BY <2>3, <2>4, Wraps
<1>10. mbuf_pool' \subseteq Mbufs /\ tx_pool' \subseteq TxBufs
  BY <1>3 DEF Shape, TypeOK
<1>11. Shape'
  BY <1>3, <1>7, <1>8, <1>9, <1>10, AppendShape
<1>12. c \in SUBSET mbuf_pool
  BY <1>5
<1> QED
  BY <1>2, <1>3, <1>7, <1>11, <1>12, Zenon

\* A reply cannot be built.
LEMMA FailShape ==
  ASSUME Shape, Building, pc' \in {"failed", "crash"}, mode = "echo" => ~EchoFits,
         UNCHANGED <<recv, rx_ring, rx_pool, batch, sends, sent, queue, done, mode>>,
         mbuf_pool' \subseteq Mbufs, tx_pool' \subseteq TxBufs,
         refcnt' \in [Segments -> 0 .. RefcntMod - 1]
  PROVE  Shape'
<1>1. pc = "build"
  BY DEF Building
<1>2. TypeOK'
  BY DEF Shape, TypeOK, Used
<1>3. RepliesInv'
  BY DEF Shape, RepliesInv, OfMode
<1>4. RxApart' /\ (Forgotten' <=> Forgotten)
  BY RxFrame
<1>5. PhaseInv'
  BY <1>1, <1>4 DEF Shape, PhaseInv
<1> QED
  BY <1>2, <1>3, <1>4, <1>5 DEF Shape

\* The three ways a batch fails.
LEMMA FailsShape ==
  ASSUME Shape,
         BuildEchoFails \/ BuildFailsNoBuffer \/ \E segs \in SegmentLists : BuildFails(segs)
  PROVE  Shape' /\ UNCHANGED <<recv, rx_ring, rx_pool, batch, sent, queue, mode>>
<1>1. CASE BuildEchoFails
  <2>1. /\ Building /\ mode = "echo" /\ ~EchoFits /\ pc' = "failed"
        /\ UNCHANGED <<recv, rx_ring, rx_pool, batch, sends, sent, mbuf_pool, tx_pool, refcnt, queue, done, mode>>
    BY <1>1 DEF BuildEchoFails, rxVars, txVars
  <2>2. /\ mbuf_pool' \subseteq Mbufs /\ tx_pool' \subseteq TxBufs
        /\ refcnt' \in [Segments -> 0 .. RefcntMod - 1]
    BY <2>1 DEF Shape, TypeOK
  <2>3. Shape'
    BY <2>1, <2>2, FailShape
  <2> QED
    BY <2>1, <2>3
<1>2. CASE BuildFailsNoBuffer
  <2>1. /\ Building /\ mode = "copy" /\ pc' \in {"failed", "crash"}
        /\ tx_pool' = tx_pool \/ \E t \in TxBufs : tx_pool' = {t}
        /\ UNCHANGED <<recv, rx_ring, rx_pool, batch, sends, sent, mbuf_pool, refcnt, queue, done, mode>>
    BY <1>2 DEF BuildFailsNoBuffer, rxVars
  <2>2. /\ mbuf_pool' \subseteq Mbufs /\ tx_pool' \subseteq TxBufs
        /\ refcnt' \in [Segments -> 0 .. RefcntMod - 1]
    BY <2>1 DEF Shape, TypeOK
  <2>3. Shape'
    BY <2>1, <2>2, FailShape
  <2> QED
    BY <2>1, <2>3
<1>3. ASSUME NEW segs \in SegmentLists, BuildFails(segs)
      PROVE  Shape' /\ UNCHANGED <<recv, rx_ring, rx_pool, batch, sent, queue, mode>>
  <2>1. PICK freed, got : /\ freed = SubSeq(sends, 1, Len(sends) - 1)
                          /\ got = SubSeq(segs, 1, Cardinality(mbuf_pool))
    OBVIOUS
  <2>2. /\ Building /\ Cardinality(mbuf_pool) < MbufsPerReply
        /\ mbuf_pool' = Chains(freed) /\ tx_pool' = tx_pool \cup DataBufs(freed)
        /\ refcnt' = [s \in Segments |-> (refcnt[s] + Refs(got, s) - RefsOf(freed, s)) % RefcntMod]
        /\ pc' = (IF sends = <<>> THEN "crash" ELSE "failed")
        /\ UNCHANGED <<recv, rx_ring, rx_pool, batch, sends, sent, queue, done, mode>>
    BY <1>3, <2>1 DEF BuildFails, rxVars
  <2>3. sends \in Seq(ReplySet) /\ Len(sends) \in Nat /\ Cardinality(mbuf_pool) \in Nat
    BY ShapeTypes
  <2>4. mode # "echo"
    BY <2>2, <2>3 DEF MbufsPerReply
  <2>5. Cardinality(mbuf_pool) \in 0 .. num_segments
    BY <2>2, <2>3, Consts DEF MbufsPerReply
  <2>6. freed \in Seq(ReplySet)
    <3>1. CASE sends = <<>>
      <4>1. freed = <<>>
        BY <2>1, <2>3, <3>1, SubSeqEmpty
      <4> QED
        BY <4>1
    <3>2. CASE sends # <<>>
      <4>1. Len(sends) - 1 \in 0 .. Len(sends)
        BY <2>3, <3>2, EmptySeq
      <4> QED
        BY <2>1, <2>3, <4>1, Cut
    <3> QED
      BY <3>1, <3>2
  <2>7. got \in Seq(Segments)
    <3>1. segs \in Seq(Segments) /\ Len(segs) = num_segments
      BY ListIsSeq, Consts DEF SegmentLists
    <3> QED
      BY <2>1, <2>5, <3>1, Cut
  <2>8. mbuf_pool' \subseteq Mbufs /\ tx_pool' \subseteq TxBufs
    BY <2>2, <2>6, HoldsFromPools, ShapeTypes
  <2>9. refcnt' \in [Segments -> 0 .. RefcntMod - 1]
    <3>1. PICK f : f = [s \in Segments |-> refcnt[s] + Refs(got, s) - RefsOf(freed, s)]
      OBVIOUS
    <3>2. \A s \in Segments : refcnt[s] \in Int /\ Refs(got, s) \in Int /\ RefsOf(freed, s) \in Int
      BY <2>6, <2>7, RefsType, Consts DEF Shape, TypeOK
    <3>3. \A s \in Segments : f[s] \in Int /\ f[s] = refcnt[s] + Refs(got, s) - RefsOf(freed, s)
      BY <3>1, <3>2
    <3>4. refcnt' = [s \in Segments |-> f[s] % RefcntMod]
      BY <2>2, <3>3
    <3> QED
      BY <3>3, <3>4, Wraps
  <2>10. Shape'
    BY <2>2, <2>4, <2>8, <2>9, FailShape
  <2> QED
    BY <2>2, <2>10
<1> QED
  BY <1>1, <1>2, <1>3

\* All replies of the batch are built.
LEMMA BuildDoneShape ==
  ASSUME Shape, BuildDone
  PROVE  Shape' /\ Held' = Held
<1>1. /\ pc = "build" /\ Len(sends) = Len(batch) /\ pc' = "post"
      /\ UNCHANGED <<recv, rx_ring, rx_pool, batch, sends, sent, mbuf_pool, tx_pool, refcnt, queue, done, mode>>
  BY DEF BuildDone, rxVars, txVars
<1>2. RxApart' /\ Held' = Held /\ (Forgotten' <=> Forgotten)
  BY <1>1, RxFrame
<1>3. TypeOK'
  BY <1>1 DEF Shape, TypeOK, Used
<1>4. RepliesInv'
  BY <1>1 DEF Shape, RepliesInv, OfMode
<1>5. PhaseInv'
  BY <1>1, <1>2 DEF Shape, PhaseInv
<1> QED
  BY <1>2, <1>3, <1>4, <1>5 DEF Shape

\* No packet is in two replies of the ring, so that what is reaped leaves it.
LEMMA EchoedApart ==
  ASSUME Shape, NEW s \in Seq(ReplySet), NEW t \in Seq(ReplySet), queue = s \o t
  PROVE  Echoed(s) \cap Echoed(t) = {}
<1>1. /\ \A i \in DOMAIN s : i \in DOMAIN queue /\ queue[i] = s[i]
      /\ \A i \in DOMAIN t : i + Len(s) \in DOMAIN queue /\ queue[i + Len(s)] = t[i]
      /\ \A i \in DOMAIN s, j \in DOMAIN t : i # j + Len(s)
  OBVIOUS
<1>2. \A i, j \in DOMAIN queue : i # j => queue[i].rx \cap queue[j].rx = {}
  BY DEF Shape, RxApart
<1>3. \A i \in DOMAIN s, j \in DOMAIN t : s[i].rx \cap t[j].rx = {}
  BY <1>1, <1>2
<1> QED
  BY <1>3 DEF Echoed

\* Completed replies are freed.
LEMMA ReapShape ==
  ASSUME Shape, Reap, pc \in {"post", "clean"}, pc' = "post",
         UNCHANGED <<recv, rx_ring, batch, sends, sent, mode>>
  PROVE  Shape'
<1>1. PICK n \in 0 .. done, freed \in Seq(ReplySet) :
           /\ queue' \in Seq(ReplySet) /\ queue = freed \o queue'
           /\ n <= Len(queue) /\ Len(freed) = n /\ Len(queue') = Len(queue) - n /\ done' = done - n
           /\ \A i \in DOMAIN queue' : i + n \in DOMAIN queue /\ queue'[i] = queue[i + n]
           /\ mbuf_pool' = mbuf_pool \cup Chains(freed)
           /\ tx_pool' = tx_pool \cup DataBufs(freed)
           /\ rx_pool' = rx_pool \cup Echoed(freed)
           /\ refcnt' = [s \in Segments |-> (refcnt[s] - RefsOf(freed, s)) % RefcntMod]
  BY ReapCuts
<1>2. /\ Len(queue) \in Nat /\ done \in 0 .. Len(queue) /\ Len(queue') \in 0 .. Len(queue)
      /\ done' \in 0 .. Len(queue')
  BY <1>1, ShapeTypes
<1>3. Used' <= Capacity
  <2>1. Len(queue') * ReplyBlocks <= Len(queue) * ReplyBlocks
    BY <1>2, BlocksGrow, Consts
  <2>2. Len(queue) * ReplyBlocks <= Capacity /\ Len(queue) * ReplyBlocks \in Nat
    BY <1>2, Consts DEF Shape, TypeOK, Used
  <2>3. Len(queue') * ReplyBlocks \in Nat
    BY <1>2, Consts
  <2> QED
    BY <2>1, <2>2, <2>3, Consts DEF Used
<1>4. /\ mbuf_pool' \subseteq Mbufs /\ tx_pool' \subseteq TxBufs /\ rx_pool' \subseteq RxBufs
  BY <1>1, HoldsFromPools, ShapeTypes
<1>5. refcnt' \in [Segments -> 0 .. RefcntMod - 1]
  <2>1. PICK f : f = [s \in Segments |-> refcnt[s] - RefsOf(freed, s)]
    OBVIOUS
  <2>2. \A s \in Segments : refcnt[s] \in Int /\ RefsOf(freed, s) \in Int
    BY <1>1, RefsType, Consts DEF Shape, TypeOK
  <2>3. \A s \in Segments : f[s] \in Int /\ f[s] = refcnt[s] - RefsOf(freed, s)
    BY <2>1, <2>2
  <2>4. refcnt' = [s \in Segments |-> f[s] % RefcntMod]
    BY <1>1, <2>3
  <2> QED
    BY <2>3, <2>4, Wraps
<1>6. TypeOK'
  BY <1>2, <1>3, <1>4, <1>5 DEF Shape, TypeOK
<1>7. RepliesInv'
  <2>1. \A i \in DOMAIN queue' : OfMode(queue'[i])
    BY <1>1 DEF Shape, RepliesInv
  <2> QED
    BY <1>1, <2>1 DEF Shape, RepliesInv, OfMode
<1>8. Held' = Held /\ Waiting' = Waiting /\ (Forgotten' <=> Forgotten)
  BY DEF Held, Waiting, Forgotten
<1>9. PhaseInv'
  BY <1>8 DEF Shape, PhaseInv
<1>10. RxApart'
  <2>1. Echoed(queue) = Echoed(freed) \cup Echoed(queue') /\ Echoed(freed) \cap Echoed(queue') = {}
    BY <1>1, ConcatHolds, EchoedApart
  <2>2. Disjoint5(rx_ring', rx_pool', Waiting', Held', Echoed(queue'))
    BY <1>1, <1>8, <2>1 DEF Shape, RxApart, Disjoint5
  <2>3. \A i, j \in DOMAIN queue' : i # j => queue'[i].rx \cap queue'[j].rx = {}
    <3> SUFFICES ASSUME NEW i \in DOMAIN queue', NEW j \in DOMAIN queue', i # j
                 PROVE  queue'[i].rx \cap queue'[j].rx = {}
      OBVIOUS
    <3>1. i \in Int /\ j \in Int /\ n \in Int
      BY <1>1, ShapeTypes, SMTT(30)
    <3>2. i + n \in DOMAIN queue /\ j + n \in DOMAIN queue /\ i + n # j + n
      BY <1>1, <3>1
    <3> QED
      BY <1>1, <3>2 DEF Shape, RxApart
  <2> QED
    BY <2>2, <2>3 DEF Shape, RxApart
<1> QED
  BY <1>6, <1>7, <1>9, <1>10 DEF Shape

\* What posting a reply moves: in echo mode its packet, from the batch to the
\* send ring.
LEMMA PostMoves ==
  ASSUME Shape, PostOne
  PROVE  /\ sent < Len(sends) /\ sent + 1 \in DOMAIN sends /\ sends[sent + 1] \in ReplySet
         /\ sent' = sent + 1 /\ queue' = Append(queue, sends[sent + 1])
         /\ Len(queue') = Len(queue) + 1
         /\ \A i \in DOMAIN queue : i \in DOMAIN queue' /\ queue'[i] = queue[i]
         /\ \A i \in DOMAIN queue' : i \in DOMAIN queue \/ (i = Len(queue) + 1 /\ queue'[i] = sends[sent + 1])
         /\ queue' \in Seq(ReplySet)
         /\ Echoed(queue') = Echoed(queue) \cup sends[sent + 1].rx
         /\ Held = Held' \cup sends[sent + 1].rx /\ Held' \cap sends[sent + 1].rx = {}
         /\ UNCHANGED <<recv, rx_ring, rx_pool, batch, sends, mbuf_pool, tx_pool, refcnt, done, mode>>
<1>1. /\ pc = "post" /\ sent < Len(sends) /\ sent' = sent + 1
      /\ queue' = Append(queue, sends[sent + 1])
      /\ UNCHANGED <<recv, rx_ring, rx_pool, batch, sends, mbuf_pool, tx_pool, refcnt, done, mode>>
  BY DEF PostOne, Posting, rxVars, txVars
<1>2. /\ sends \in Seq(ReplySet) /\ Len(sends) \in Nat /\ sent \in 0 .. Len(sends)
      /\ DOMAIN sends = 1 .. Len(sends) /\ queue \in Seq(ReplySet) /\ Len(queue) \in Nat
      /\ DOMAIN queue = 1 .. Len(queue)
      /\ Len(batch) \in Nat /\ DOMAIN batch = 1 .. Len(batch)
  BY ShapeTypes
<1>3. sent + 1 \in DOMAIN sends /\ sends[sent + 1] \in ReplySet
  BY <1>1, <1>2
<1>4. PICK r \in ReplySet : r = sends[sent + 1]
  BY <1>3
<1>5. /\ queue' \in Seq(ReplySet) /\ Len(queue') = Len(queue) + 1
      /\ DOMAIN queue' = 1 .. Len(queue) + 1
      /\ \A i \in 1 .. Len(queue) : queue'[i] = queue[i]
      /\ queue'[Len(queue) + 1] = r
  BY <1>1, <1>2, <1>4, AppendProperties
<1>6. /\ \A i \in DOMAIN queue : i \in DOMAIN queue' /\ queue'[i] = queue[i]
      /\ \A i \in DOMAIN queue' : i \in DOMAIN queue \/ (i = Len(queue) + 1 /\ queue'[i] = r)
  BY <1>2, <1>5
<1>7. Echoed(queue') = Echoed(queue) \cup r.rx
  BY <1>1, <1>2, <1>4, AppendHolds
<1>8. ~Forgotten /\ Len(sends) = Len(batch)
  BY <1>1 DEF Shape, PhaseInv
<1>9. Held = Held' \cup r.rx /\ Held' \cap r.rx = {}
  <2>1. CASE mode = "echo"
    <3>1. PICK x : x = batch[sent + 1]
      OBVIOUS
    <3>2. r.rx = {x} /\ sent + 1 \in DOMAIN batch
      BY <1>2, <1>3, <1>4, <1>8, <2>1, <3>1 DEF Shape, RepliesInv
    <3>3. \A i \in DOMAIN batch : batch[i] # NULL
      BY <1>8 DEF Forgotten, Range
    <3>4. \A y : y \in Held <=> \E i \in DOMAIN batch : i > sent /\ batch[i] = y
      BY <2>1, <3>3 DEF Held
    <3>5. \A y : y \in Held' <=> \E i \in DOMAIN batch : i > sent + 1 /\ batch[i] = y
      BY <1>1, <2>1, <3>3 DEF Held
    <3>6. \A i \in DOMAIN batch : i > sent <=> i > sent + 1 \/ i = sent + 1
      BY <1>2
    <3>7. \A i \in DOMAIN batch : i > sent + 1 => batch[i] # x
      <4>1. \A i \in DOMAIN batch : i > sent + 1 => i # sent + 1
        BY <1>2
      <4> QED
        BY <3>1, <3>2, <3>3, <4>1 DEF Shape, RxApart
    <3>8. Held = Held' \cup {x}
      BY <3>1, <3>2, <3>4, <3>5, <3>6
    <3>9. x \notin Held'
      BY <3>5, <3>7
    <3> QED
      BY <3>2, <3>8, <3>9
  <2>2. CASE mode # "echo"
    <3>1. r.rx = {}
      BY <1>3, <1>4, <2>2 DEF Shape, RepliesInv, OfMode
    <3>2. Held' = Held
      BY <1>1, <2>2 DEF Held
    <3> QED
      BY <3>1, <3>2
  <2> QED
    BY <2>1, <2>2
<1> QED
  BY <1>1, <1>3, <1>4, <1>5, <1>6, <1>7, <1>9

\* mlx5_transmit_one posts a reply.
LEMMA PostOneShape ==
  ASSUME Shape, PostOne
  PROVE  Shape'
<1>1. PICK r : r = sends[sent + 1]
  OBVIOUS
<1>2. /\ sent < Len(sends) /\ sent + 1 \in DOMAIN sends /\ r \in ReplySet
      /\ sent' = sent + 1
      /\ Len(queue') = Len(queue) + 1
      /\ \A i \in DOMAIN queue : i \in DOMAIN queue' /\ queue'[i] = queue[i]
      /\ \A i \in DOMAIN queue' : i \in DOMAIN queue \/ (i = Len(queue) + 1 /\ queue'[i] = r)
      /\ queue' \in Seq(ReplySet)
      /\ Echoed(queue') = Echoed(queue) \cup r.rx
      /\ Held = Held' \cup r.rx /\ Held' \cap r.rx = {}
      /\ UNCHANGED <<recv, rx_ring, rx_pool, batch, sends, mbuf_pool, tx_pool, refcnt, done, mode>>
  BY <1>1, PostMoves
<1>3. pc = "post" /\ pc' \in {"clean", "post"} /\ Used + ReplyBlocks <= Capacity
  BY DEF PostOne, Posting
<1>4. /\ Len(sends) \in Nat /\ sent \in 0 .. Len(sends) /\ Len(queue) \in Nat /\ done \in 0 .. Len(queue)
      /\ DOMAIN queue = 1 .. Len(queue)
  BY ShapeTypes
<1>5. Used' <= Capacity
  <2>1. (Len(queue) + 1) * ReplyBlocks = Len(queue) * ReplyBlocks + ReplyBlocks
    BY <1>4, BlocksGrow, Consts
  <2> QED
    BY <1>2, <1>3, <2>1 DEF Used
<1>6. TypeOK'
  <2>1. sent' \in 0 .. Len(sends') /\ done' \in 0 .. Len(queue')
    BY <1>2, <1>4
  <2> QED
    BY <1>2, <1>3, <1>5, <2>1 DEF Shape, TypeOK
<1>7. RepliesInv'
  <2>1. \A i \in DOMAIN sends : OfMode(sends[i])
    BY DEF Shape, RepliesInv
  <2>2. \A i \in DOMAIN queue' : OfMode(queue'[i])
    BY <1>1, <1>2, <2>1 DEF Shape, RepliesInv
  <2> QED
    BY <1>2, <2>2 DEF Shape, RepliesInv, OfMode
<1>8. Waiting' = Waiting /\ (Forgotten' <=> Forgotten)
  BY <1>2 DEF Waiting, Forgotten
<1>9. PhaseInv'
  BY <1>2, <1>3, <1>8 DEF Shape, PhaseInv
<1>10. RxApart'
  <2>1. Disjoint5(rx_ring', rx_pool', Waiting', Held', Echoed(queue'))
    BY <1>2, <1>8 DEF Shape, RxApart, Disjoint5
  <2>2. r.rx \cap Echoed(queue) = {}
    BY <1>2 DEF Shape, RxApart, Disjoint5
  <2>3. \A i \in DOMAIN queue : queue[i].rx \cap r.rx = {} /\ r.rx \cap queue[i].rx = {}
    BY <2>2 DEF Echoed
  <2>4. \A i, j \in DOMAIN queue' : i # j => queue'[i].rx \cap queue'[j].rx = {}
    <3> SUFFICES ASSUME NEW i \in DOMAIN queue', NEW j \in DOMAIN queue', i # j
                 PROVE  queue'[i].rx \cap queue'[j].rx = {}
      OBVIOUS
    <3>1. CASE i \in DOMAIN queue /\ j \in DOMAIN queue
      BY <1>2, <3>1 DEF Shape, RxApart
    <3>2. CASE i \notin DOMAIN queue
      BY <1>2, <2>3, <3>2
    <3>3. CASE j \notin DOMAIN queue
      BY <1>2, <2>3, <3>3
    <3> QED
      BY <3>1, <3>2, <3>3
  <2> QED
    BY <1>2, <2>1, <2>4 DEF Shape, RxApart
<1> QED
  BY <1>6, <1>7, <1>9, <1>10 DEF Shape

\* Everything is posted.
LEMMA PostDoneShape ==
  ASSUME Shape, PostDone
  PROVE  Shape' /\ Held' = Held
<1>1. /\ pc = "post" /\ sent = Len(sends)
      /\ UNCHANGED <<recv, rx_ring, rx_pool, mbuf_pool, tx_pool, refcnt, queue, done, mode>>
      /\ \/ mode = "echo" /\ pc' = "scan" /\ batch' = <<>> /\ sends' = <<>> /\ sent' = 0
         \/ mode # "echo" /\ pc' = "free" /\ UNCHANGED <<batch, sends, sent>>
  BY DEF PostDone, EndBatch, rxVars, txVars
<1>2. Len(sends) = Len(batch) /\ ~Forgotten
  BY <1>1 DEF Shape, PhaseInv
<1>3. CASE mode = "echo"
  <2>1. pc' = "scan" /\ batch' = <<>> /\ sends' = <<>> /\ sent' = 0
    BY <1>1, <1>3
  <2>2. Held = {} /\ Held' = {} /\ Waiting' = Waiting
    <3>1. \A i \in DOMAIN batch : ~(i > sent)
      BY <1>1, <1>2, ShapeTypes
    <3>2. Held = {}
      BY <1>3, <3>1 DEF Held
    <3> QED
      BY <1>1, <2>1, <3>2 DEF Held, Waiting
  <2>3. ~Forgotten'
    BY <2>1 DEF Forgotten, Range
  <2>4. TypeOK'
    BY <1>1, <2>1, Consts DEF Shape, TypeOK, Used
  <2>5. RepliesInv'
    BY <1>1, <2>1 DEF Shape, RepliesInv, OfMode
  <2>6. PhaseInv'
    BY <1>1, <2>1, <2>3, Consts DEF Shape, PhaseInv
  <2>7. RxApart'
    BY <1>1, <2>1, <2>2 DEF Shape, RxApart
  <2> QED
    BY <2>2, <2>4, <2>5, <2>6, <2>7 DEF Shape
<1>4. CASE mode # "echo"
  <2>1. pc' = "free" /\ UNCHANGED <<batch, sends, sent>>
    BY <1>1, <1>4
  <2>2. RxApart' /\ Held' = Held /\ (Forgotten' <=> Forgotten)
    BY <1>1, <2>1, RxFrame
  <2>3. TypeOK'
    BY <1>1, <2>1 DEF Shape, TypeOK, Used
  <2>4. RepliesInv'
    BY <1>1, <2>1 DEF Shape, RepliesInv, OfMode
  <2>5. PhaseInv'
    BY <1>1, <1>2, <1>4, <2>1, <2>2 DEF Shape, PhaseInv
  <2> QED
    BY <2>2, <2>3, <2>4, <2>5 DEF Shape
<1> QED
  BY <1>3, <1>4

\* The batch is freed and over.
LEMMA EndShape ==
  ASSUME Shape, pc' = "scan", rx_pool' = rx_pool \cup Range(batch), EndBatch, ~Forgotten,
         mode = "echo" => sent = 0,
         UNCHANGED <<recv, rx_ring, mbuf_pool, tx_pool, refcnt, queue, done, mode>>
  PROVE  Shape' /\ Held' = {} /\ rx_pool' = rx_pool \cup Held
<1>1. batch' = <<>> /\ sends' = <<>> /\ sent' = 0
  BY DEF EndBatch
<1>2. Held = Range(batch) /\ Range(batch) \subseteq RxBufs /\ Held' = {} /\ Waiting' = Waiting
  BY <1>1, HeldAll DEF Held, Waiting
<1>3. ~Forgotten'
  BY <1>1 DEF Forgotten, Range
<1>4. TypeOK'
  BY <1>1, <1>2, Consts DEF Shape, TypeOK, Used
<1>5. RepliesInv'
  BY <1>1 DEF Shape, RepliesInv, OfMode
<1>6. PhaseInv'
  BY <1>1, <1>3, Consts DEF Shape, PhaseInv
<1>7. RxApart'
  <2>1. Disjoint5(rx_ring', rx_pool', Waiting', Held', Echoed(queue'))
    BY <1>2 DEF Shape, RxApart, Disjoint5
  <2> QED
    BY <1>1, <2>1 DEF Shape, RxApart
<1> QED
  BY <1>2, <1>4, <1>5, <1>6, <1>7 DEF Shape

\* do_server frees the packets of a failed batch.
LEMMA FreeFailedShape ==
  ASSUME Shape, FreeFailed
  PROVE  /\ Shape' /\ Held' = {} /\ rx_pool' = rx_pool \cup Held
         /\ mode # "echo" => Forgotten'
<1>1. /\ pc = "failed" /\ rx_pool' = rx_pool \cup Range(batch)
      /\ UNCHANGED <<recv, rx_ring, mbuf_pool, tx_pool, refcnt, queue, done, mode>>
      /\ \/ mode = "echo" /\ pc' = "scan" /\ EndBatch
         \/ /\ mode # "echo" /\ pc' = "free"
            /\ batch' = [i \in DOMAIN batch |-> NULL]
            /\ UNCHANGED <<sends, sent>>
  BY DEF FreeFailed, rxVars, txVars
<1>2. sent = 0 /\ ~Forgotten /\ batch # <<>>
  BY <1>1 DEF Shape, PhaseInv
<1>3. CASE mode = "echo"
  BY <1>1, <1>2, <1>3, EndShape
<1>4. CASE mode # "echo"
  <2>1. pc' = "free" /\ batch' = [i \in DOMAIN batch |-> NULL] /\ UNCHANGED <<sends, sent>>
    BY <1>1, <1>4
  <2>2. Held = Range(batch) /\ Range(batch) \subseteq RxBufs
    BY <1>2, HeldAll
  <2>3. batch \in Seq(RxBufs \cup {NULL}) /\ Len(batch) \in Nat \ {0} /\ DOMAIN batch = 1 .. Len(batch)
    BY <1>2, ShapeTypes, EmptySeq
  <2>4. batch' \in Seq(RxBufs \cup {NULL}) /\ Len(batch') = Len(batch)
    <3>1. batch' \in [1 .. Len(batch) -> RxBufs \cup {NULL}]
      BY <2>1, <2>3
    <3> QED
      BY <2>3, <3>1, ListIsSeq
  <2>5. Forgotten'
    <3>1. 1 \in DOMAIN batch' /\ batch'[1] = NULL
      BY <2>1, <2>3
    <3> QED
      BY <3>1 DEF Forgotten, Range
  <2>6. Held' = {} /\ Waiting' = Waiting
    BY <1>1, <2>1 DEF Held, Waiting
  <2>7. TypeOK'
    BY <1>1, <2>1, <2>2, <2>4 DEF Shape, TypeOK, Used
  <2>8. RepliesInv'
    BY <1>1, <1>4, <2>1 DEF Shape, RepliesInv, OfMode
  <2>9. PhaseInv'
    BY <1>1, <1>2, <1>4, <2>1, <2>4, <2>5 DEF Shape, PhaseInv
  <2>10. RxApart'
    <3>1. Disjoint5(rx_ring', rx_pool', Waiting', Held', Echoed(queue'))
      BY <1>1, <2>2, <2>6 DEF Shape, RxApart, Disjoint5
    <3> QED
      BY <1>1, <2>1, <3>1 DEF Shape, RxApart
  <2> QED
    BY <1>1, <2>2, <2>5, <2>6, <2>7, <2>8, <2>9, <2>10 DEF Shape
<1> QED
  BY <1>3, <1>4

\* do_server frees the packets of a batch that was answered.
LEMMA FreeBatchShape ==
  ASSUME Shape, FreeBatch
  PROVE  /\ Shape'
         /\ \/ pc' = "crash" /\ Forgotten /\ UNCHANGED <<recv, rx_ring, rx_pool, batch, sends, sent, queue, mode>>
            \/ pc' = "scan" /\ ~Forgotten /\ Held' = {} /\ rx_pool' = rx_pool \cup Held
<1>1. /\ pc = "free"
      /\ UNCHANGED <<recv, rx_ring, mbuf_pool, tx_pool, refcnt, queue, done, mode>>
      /\ \/ Forgotten /\ pc' = "crash" /\ UNCHANGED <<rx_pool, batch, sends, sent>>
         \/ ~Forgotten /\ pc' = "scan" /\ rx_pool' = rx_pool \cup Range(batch) /\ EndBatch
  BY DEF FreeBatch, Forgotten, rxVars, txVars
<1>2. mode # "echo"
  BY <1>1 DEF Shape, PhaseInv
<1>3. CASE Forgotten
  <2>1. pc' = "crash" /\ UNCHANGED <<rx_pool, batch, sends, sent>>
    BY <1>1, <1>3
  <2>2. RxApart' /\ (Forgotten' <=> Forgotten)
    BY <1>1, <2>1, RxFrame
  <2>3. TypeOK'
    BY <1>1, <2>1 DEF Shape, TypeOK, Used
  <2>4. RepliesInv'
    BY <1>1, <2>1 DEF Shape, RepliesInv, OfMode
  <2>5. PhaseInv'
    BY <1>1, <2>1, <2>2 DEF Shape, PhaseInv
  <2> QED
    BY <1>1, <1>3, <2>1, <2>2, <2>3, <2>4, <2>5 DEF Shape
<1>4. CASE ~Forgotten
  BY <1>1, <1>2, <1>4, EndShape
<1> QED
  BY <1>3, <1>4

\* The NIC finishes a reply.
LEMMA NicShape ==
  ASSUME Shape, NicComplete
  PROVE  Shape' /\ Held' = Held
<1>1. /\ done < Len(queue) /\ done' = done + 1
      /\ UNCHANGED <<pc, recv, rx_ring, rx_pool, batch, sends, sent, mbuf_pool, tx_pool, refcnt, queue, mode>>
  BY DEF NicComplete, rxVars, txVars
<1>2. RxApart' /\ Held' = Held /\ (Forgotten' <=> Forgotten)
  BY <1>1, RxFrame
<1>3. TypeOK'
  <2>1. done' \in 0 .. Len(queue')
    BY <1>1, ShapeTypes
  <2> QED
    BY <1>1, <2>1 DEF Shape, TypeOK, Used
<1>4. RepliesInv'
  BY <1>1 DEF Shape, RepliesInv, OfMode
<1>5. PhaseInv'
  BY <1>1, <1>2 DEF Shape, PhaseInv
<1> QED
  BY <1>2, <1>3, <1>4, <1>5 DEF Shape

\* Every step of the loop and of the NIC keeps the shape.
LEMMA NextShape == Shape /\ [Next]_vars => Shape'
<1> SUFFICES ASSUME Shape, [Next]_vars PROVE Shape'
  OBVIOUS
<1>1. ASSUME NEW burst \in Bursts, Poll(burst) PROVE Shape'
  BY <1>1, PollShape
<1>2. CASE SkipInvalid
  BY <1>2, SkipShape
<1>3. CASE TakeValid
  BY <1>3, TakeShape
<1>4. CASE ScanDone
  BY <1>4, ScanDoneShape
<1>5. CASE BuildEcho
  BY <1>5, BuildEchoShape
<1>6. CASE BuildCopy
  BY <1>6, BuildCopyShape
<1>7. ASSUME NEW segs \in SegmentLists, BuildZeroCopy(segs) PROVE Shape'
  BY <1>7, BuildZeroCopyShape
<1>8. CASE BuildEchoFails \/ BuildFailsNoBuffer \/ \E segs \in SegmentLists : BuildFails(segs)
  BY <1>8, FailsShape
<1>9. CASE BuildDone
  BY <1>9, BuildDoneShape
<1>10. CASE PostFull
  BY <1>10, ReapShape DEF PostFull, Posting, rxVars
<1>11. CASE PostOne
  BY <1>11, PostOneShape
<1>12. CASE Clean
  BY <1>12, ReapShape DEF Clean, rxVars
<1>13. CASE PostDone
  BY <1>13, PostDoneShape
<1>14. CASE FreeFailed
  BY <1>14, FreeFailedShape
<1>15. CASE FreeBatch
  BY <1>15, FreeBatchShape
<1>16. CASE NicComplete
  BY <1>16, NicShape
<1>17. CASE UNCHANGED vars
  <2>1. UNCHANGED <<mode, pc, recv, rx_ring, rx_pool, batch, sends, sent, mbuf_pool, tx_pool, refcnt, queue, done>>
    BY <1>17 DEF vars, rxVars, txVars
  <2>2. RxApart' /\ (Forgotten' <=> Forgotten)
    BY <2>1, RxFrame
  <2>3. TypeOK'
    BY <2>1 DEF Shape, TypeOK, Used
  <2>4. RepliesInv'
    BY <2>1 DEF Shape, RepliesInv, OfMode
  <2>5. PhaseInv'
    BY <2>1, <2>2 DEF Shape, PhaseInv
  <2> QED
    BY <2>2, <2>3, <2>4, <2>5 DEF Shape
<1> QED
  BY <1>1, <1>2, <1>3, <1>4, <1>5, <1>6, <1>7, <1>8, <1>9, <1>10, <1>11, <1>12, <1>13, <1>14,
     <1>15, <1>16, <1>17 DEF Next, CpuStep

\* Types, replies, phases and one place for every receive buffer, however
\* the bursts look and whatever runs out.
THEOREM ShapeHolds == Spec => []Shape
  BY InitShape, NextShape, PTL DEF Spec

\* Every variable of the server loop keeps its type: batches and send_mbufs
\* stay within their arrays, counts within 16 bits, the ring within capacity.
THEOREM TypeHolds == Spec => []TypeOK
<1>1. Shape => TypeOK
  BY DEF Shape
<1> QED
  BY <1>1, ShapeHolds, PTL

---------------------------------------------------------------------------
\* Bursts that leave nothing behind: FlushInv and RxAll.

\* Counting the valid packets of a burst.
LEMMA ValidType ==
  ASSUME NEW S, NEW q \in Seq(S)
  PROVE  IsFiniteSet(ValidAt(q)) /\ Cardinality(ValidAt(q)) \in Nat
<1>1. Len(q) \in Nat /\ DOMAIN q = 1 .. Len(q)
  BY LenProperties
<1>2. IsFiniteSet(1 .. Len(q)) /\ ValidAt(q) \in SUBSET (1 .. Len(q))
  BY <1>1, FS_Interval DEF ValidAt
<1>3. IsFiniteSet(ValidAt(q))
  BY <1>2, FS_Subset
<1> QED
  BY <1>3, FS_CardinalityType

\* Taking a packet from the burst takes it from the count.
LEMMA ValidPop ==
  ASSUME Shape, recv # <<>>, recv' = Tail(recv)
  PROVE  Cardinality(ValidAt(recv)) =
           Cardinality(ValidAt(recv')) + (IF Head(recv).status = "valid" THEN 1 ELSE 0)
<1> DEFINE V == ValidAt(recv)
           W == ValidAt(recv')
           X == {i + 1 : i \in W}
           g == [i \in W |-> i + 1]
<1>1. /\ Head(recv) = recv[1]
      /\ recv' \in Seq([b : RxBufs, status : {"valid", "invalid"}])
      /\ Len(recv) >= 1 /\ Len(recv') = Len(recv) - 1
      /\ \A i \in 1 .. Len(recv') : i + 1 \in 1 .. Len(recv) /\ recv'[i] = recv[i + 1]
  BY PopRecv
<1>2. /\ Len(recv) \in Nat /\ DOMAIN recv = 1 .. Len(recv)
      /\ Len(recv') \in Nat /\ DOMAIN recv' = 1 .. Len(recv')
  BY <1>1, ShapeTypes, LenProperties
<1>3. IsFiniteSet(W) /\ Cardinality(W) \in Nat
  BY <1>1, ValidType
<1>4. \A i \in W : i \in 1 .. Len(recv') /\ recv'[i].status = "valid"
  BY <1>2 DEF ValidAt
<1>5. \A i \in 1 .. Len(recv') : recv'[i].status = "valid" => i \in W
  BY <1>2 DEF ValidAt
<1>6. \A i : i \in V <=> i \in 1 .. Len(recv) /\ recv[i].status = "valid"
  BY <1>2 DEF ValidAt
<1> HIDE DEF V, W
<1>7. g \in Bijection(W, X)
  <2>1. \A i, j \in W : i + 1 = j + 1 => i = j
    BY <1>4
  <2> QED
    BY <2>1 DEF Bijection, Injection, Surjection, IsInjective
<1>8. IsFiniteSet(X) /\ Cardinality(X) = Cardinality(W)
  BY <1>3, <1>7, FS_Bijection DEF ExistsBijection
<1>9. \A i \in X : i \in V /\ i # 1
  BY <1>1, <1>2, <1>4, <1>6
<1>10. \A i \in V : i # 1 => i \in X
  <2> SUFFICES ASSUME NEW i \in V, i # 1 PROVE i \in X
    OBVIOUS
  <2>1. i - 1 \in 1 .. Len(recv') /\ i = (i - 1) + 1
    BY <1>1, <1>2, <1>6
  <2>2. recv'[i - 1] = recv[i]
    BY <1>1, <2>1
  <2>3. i - 1 \in W
    BY <1>5, <1>6, <2>1, <2>2
  <2> QED
    BY <2>1, <2>3
<1> HIDE DEF X
<1>11. CASE Head(recv).status = "valid"
  <2>1. 1 \in V /\ 1 \notin X
    BY <1>1, <1>2, <1>6, <1>9, <1>11
  <2>2. V = X \cup {1}
    BY <1>9, <1>10, <2>1
  <2>3. Cardinality(X \cup {1}) = Cardinality(X) + 1
    BY <1>8, <2>1, FS_AddElement
  <2> QED
    BY <1>8, <1>11, <2>2, <2>3 DEF V, W
<1>12. CASE Head(recv).status # "valid"
  <2>1. 1 \notin V
    BY <1>1, <1>6, <1>12
  <2>2. V = X
    BY <1>9, <1>10, <2>1
  <2> QED
    BY <1>3, <1>8, <1>12, <2>2 DEF V, W
<1> QED
  BY <1>11, <1>12

\* An empty burst needs nothing.
LEMMA EmptyCompletes ==
  ASSUME recv = <<>>
  PROVE  Completes(0)
<1>1. Cardinality(ValidAt(recv)) = 0
  BY FS_EmptySet DEF ValidAt
<1>2. 0 % BATCH_SIZE = 0
  BY Consts, ModNear
<1> QED
  BY <1>1, <1>2 DEF Completes

\* Steps that leave the burst alone.
LEMMA FlushFrame ==
  ASSUME FlushInv, recv' = recv, pc' # "poll",
         \/ pc' = pc /\ batch' = batch
         \/ pc # "scan" /\ (pc' = "scan" => batch' = <<>>)
  PROVE  FlushInv'
<1>1. \A n : Completes(n)' <=> Completes(n)
  BY DEF Completes
<1>2. CASE pc' = pc /\ batch' = batch
  BY <1>1, <1>2 DEF FlushInv, Completes
<1>3. CASE pc # "scan" /\ (pc' = "scan" => batch' = <<>>)
  <2>1. Completes(0)
    BY <1>3 DEF FlushInv
  <2>2. (IF pc' = "scan" THEN Len(batch') ELSE 0) = 0
    BY <1>3
  <2> QED
    BY <2>1, <2>2 DEF FlushInv, Completes
<1> QED
  BY <1>2, <1>3

\* A packet is taken from the burst: what follows it still ends the same way.
LEMMA PopCompletes ==
  ASSUME Shape, recv # <<>>, recv' = Tail(recv), NEW n \in Nat, Completes(n)
  PROVE  /\ Head(recv).status = "valid" =>
              \/ recv' = <<>>
              \/ recv' # <<>> /\ recv'[Len(recv')].status = "valid"
              \/ ((n + 1) + Cardinality(ValidAt(recv'))) % BATCH_SIZE = 0
         /\ Head(recv).status = "invalid" =>
              \/ recv' # <<>> /\ recv'[Len(recv')].status = "valid"
              \/ (n + Cardinality(ValidAt(recv'))) % BATCH_SIZE = 0
<1>1. /\ Head(recv) = recv[1]
      /\ recv' \in Seq([b : RxBufs, status : {"valid", "invalid"}])
      /\ Len(recv) >= 1 /\ Len(recv') = Len(recv) - 1
      /\ \A i \in 1 .. Len(recv') : i + 1 \in 1 .. Len(recv) /\ recv'[i] = recv[i + 1]
      /\ Len(recv) \in Nat /\ Len(recv') \in Nat
  BY PopRecv, ShapeTypes
<1>2. PICK v \in Nat, w \in Nat : v = Cardinality(ValidAt(recv)) /\ w = Cardinality(ValidAt(recv'))
  BY <1>1, ShapeTypes, ValidType
<1>3. v = w + (IF Head(recv).status = "valid" THEN 1 ELSE 0)
  BY <1>2, ValidPop
<1>4. CASE recv[Len(recv)].status = "valid"
  <2>1. CASE Len(recv) = 1
    <3>1. recv' = <<>>
      BY <1>1, <2>1, EmptySeq
    <3>2. recv[1] = recv[Len(recv)]
      BY <2>1
    <3>3. Head(recv).status = "valid"
      BY <1>1, <1>4, <3>2
    <3>4. Head(recv).status # "invalid"
      BY <3>3
    <3> QED
      BY <3>1, <3>4, Zenon
  <2>2. CASE Len(recv) # 1
    <3>1. Len(recv') \in 1 .. Len(recv') /\ Len(recv') + 1 = Len(recv)
      BY <1>1, <2>2
    <3>2. recv'[Len(recv')] = recv[Len(recv') + 1]
      BY <1>1, <3>1
    <3>3. recv'[Len(recv')] = recv[Len(recv)]
      BY <3>1, <3>2
    <3>4. recv' # <<>>
      <4>1. Len(recv') # 0
        BY <1>1, <2>2
      <4>2. Len(<<>>) = 0
        OBVIOUS
      <4> QED
        BY <4>1, <4>2, Zenon
    <3> QED
      BY <1>4, <3>3, <3>4
  <2> QED
    BY <2>1, <2>2
<1>5. CASE (n + v) % BATCH_SIZE = 0
  <2>1. Head(recv).status = "valid" => (n + 1) + w = n + v
    BY <1>3
  <2>2. Head(recv).status = "invalid" => w = v
    BY <1>3
  <2> QED
    BY <1>2, <1>5, <2>1, <2>2
<1> QED
  BY <1>2, <1>4, <1>5 DEF Completes

\* Whole batches leave nothing behind.
LEMMA NextFlush ==
  ASSUME AllFlushed, Shape, FlushInv, [Next]_vars
  PROVE  FlushInv'
<1>1. ASSUME NEW burst \in Bursts, Poll(burst) PROVE FlushInv'
  <2>1. pc = "poll"
    BY <1>1 DEF Poll
  <2>2. CASE pc' = "crash"
    <3>1. recv' = recv
      BY <1>1, <2>2 DEF Poll, rxVars
    <3> QED
      BY <2>1, <2>2, <3>1, FlushFrame
  <2>3. CASE pc' # "crash"
    <3>1. /\ pc' = "scan" /\ batch' = <<>> /\ Len(recv') = Len(burst)
          /\ recv' \in Seq([b : RxBufs, status : {"valid", "invalid"}])
          /\ \A i \in 1 .. Len(burst) : recv'[i].status = burst[i]
      BY <1>1, <2>3, PollMoves, ZenonT(40)
    <3>2. burst \in Seq({"valid", "invalid"}) /\ Len(burst) \in Nat \ {0} /\ DOMAIN burst = 1 .. Len(burst)
      BY ServerAssumption
    <3>3. DOMAIN recv' = 1 .. Len(burst)
      BY <3>1, LenProperties
    <3>4. CASE burst[Len(burst)] = "valid"
      <4>1. recv' # <<>> /\ recv'[Len(recv')].status = "valid"
        BY <3>1, <3>2, <3>3, <3>4
      <4> QED
        BY <3>1, <4>1 DEF FlushInv, Completes
    <3>5. CASE Cardinality({i \in DOMAIN burst : burst[i] = "valid"}) % BATCH_SIZE = 0
      <4>1. ValidAt(recv') = {i \in DOMAIN burst : burst[i] = "valid"}
        BY <3>1, <3>2, <3>3 DEF ValidAt
      <4>2. Cardinality(ValidAt(recv')) \in Nat
        BY <3>1, ValidType
      <4>3. (0 + Cardinality(ValidAt(recv'))) % BATCH_SIZE = 0
        BY <3>5, <4>1, <4>2
      <4>4. Len(batch') = 0
        BY <3>1
      <4> QED
        BY <3>1, <4>3, <4>4 DEF FlushInv, Completes
    <3> QED
      BY <3>4, <3>5 DEF AllFlushed, Flushed
  <2> QED
    BY <2>2, <2>3
<1>2. CASE SkipInvalid
  <2>1. /\ pc = "scan" /\ recv # <<>> /\ Head(recv).status = "invalid" /\ recv' = Tail(recv)
        /\ UNCHANGED <<pc, batch>>
    BY <1>2 DEF SkipInvalid, Scanning
  <2>2. Completes(Len(batch)) /\ Len(batch) \in Nat
    BY <2>1, ShapeTypes DEF FlushInv
  <2>3. \/ recv' # <<>> /\ recv'[Len(recv')].status = "valid"
        \/ (Len(batch) + Cardinality(ValidAt(recv'))) % BATCH_SIZE = 0
    BY <2>1, <2>2, PopCompletes
  <2> QED
    BY <2>1, <2>3 DEF FlushInv, Completes
<1>3. CASE TakeValid
  <2>1. /\ pc = "scan" /\ recv # <<>> /\ Head(recv).status = "valid" /\ recv' = Tail(recv)
        /\ batch' = Append(batch, Head(recv).b)
        /\ pc' = (IF Len(batch') = BATCH_SIZE \/ recv' = <<>> THEN "build" ELSE "scan")
    BY <1>3 DEF TakeValid, Scanning
  <2>2. Completes(Len(batch)) /\ Len(batch) \in Nat /\ Len(batch') = Len(batch) + 1
    BY <2>1, ShapeTypes DEF FlushInv
  <2>3. \/ recv' = <<>>
        \/ recv' # <<>> /\ recv'[Len(recv')].status = "valid"
        \/ (Len(batch') + Cardinality(ValidAt(recv'))) % BATCH_SIZE = 0
    BY <2>1, <2>2, PopCompletes
  <2>4. CASE recv' = <<>>
    <3>1. Completes(0)'
      <4>1. Cardinality(ValidAt(recv')) = 0
        BY <2>4, FS_EmptySet DEF ValidAt
      <4>2. 0 % BATCH_SIZE = 0
        BY Consts, ModNear
      <4> QED
        BY <4>1, <4>2 DEF Completes
    <3> QED
      BY <2>1, <2>4, <3>1 DEF FlushInv
  <2>5. CASE recv' # <<>> /\ recv'[Len(recv')].status = "valid"
    BY <2>1, <2>5 DEF FlushInv, Completes
  <2>6. CASE /\ recv' # <<>>
             /\ (Len(batch') + Cardinality(ValidAt(recv'))) % BATCH_SIZE = 0
    <3>1. CASE Len(batch') = BATCH_SIZE
      <4>1. PICK w \in Nat : w = Cardinality(ValidAt(recv'))
        BY <2>1, PopRecv, ValidType
      <4>2. BATCH_SIZE \in Nat \ {0} /\ w \in Int
        BY Consts
      <4>3. (w + BATCH_SIZE) % BATCH_SIZE = w % BATCH_SIZE
        BY <4>2, DivLap
      <4>4. Len(batch') + Cardinality(ValidAt(recv')) = w + BATCH_SIZE
        BY <3>1, <4>1, <4>2
      <4>5. (w + BATCH_SIZE) % BATCH_SIZE = 0
        BY <2>6, <4>4
      <4>6. (0 + Cardinality(ValidAt(recv'))) % BATCH_SIZE = 0
        BY <4>1, <4>3, <4>5
      <4> QED
        BY <2>1, <3>1, <4>6 DEF FlushInv, Completes
    <3>2. CASE Len(batch') # BATCH_SIZE
      BY <2>1, <2>6, <3>2 DEF FlushInv, Completes
    <3> QED
      BY <3>1, <3>2
  <2> QED
    BY <2>3, <2>4, <2>5, <2>6
<1>4. CASE ScanDone
  <2>1. /\ pc = "scan" /\ recv = <<>> /\ pc' = "poll" /\ recv' = recv /\ batch' = batch
    BY <1>4 DEF ScanDone, rxVars
  <2>2. /\ batch \in Seq(RxBufs \cup {NULL}) /\ Len(batch) \in Nat /\ Len(batch) < BATCH_SIZE
    BY <2>1, ShapeTypes DEF Shape, PhaseInv
  <2>3. Cardinality(ValidAt(recv)) = 0
    BY <2>1, FS_EmptySet DEF ValidAt
  <2>4. Len(batch) % BATCH_SIZE = 0
    BY <2>1, <2>2, <2>3 DEF FlushInv, Completes
  <2>5. Len(batch) % BATCH_SIZE = Len(batch)
    BY <2>2, ModNear, Consts
  <2>6. batch = <<>>
    BY <2>2, <2>4, <2>5, EmptySeq
  <2>7. Completes(0)'
    BY <2>1, EmptyCompletes DEF Completes
  <2> QED
    BY <2>1, <2>6, <2>7 DEF FlushInv
<1>5. CASE BuildEcho \/ BuildCopy \/ \E segs \in SegmentLists : BuildZeroCopy(segs)
  <2>1. pc = "build" /\ UNCHANGED <<pc, recv, batch>>
    BY <1>5 DEF BuildEcho, BuildCopy, BuildZeroCopy, Building, rxVars
  <2> QED
    BY <2>1, FlushFrame
<1>6. CASE BuildEchoFails \/ BuildFailsNoBuffer \/ \E segs \in SegmentLists : BuildFails(segs)
  <2>1. pc = "build" /\ pc' \in {"crash", "failed"} /\ recv' = recv
    BY <1>6 DEF BuildEchoFails, BuildFailsNoBuffer, BuildFails, Building, rxVars
  <2> QED
    BY <2>1, FlushFrame
<1>7. CASE BuildDone \/ PostFull \/ PostOne \/ Clean
  <2>1. pc \in {"build", "post", "clean"} /\ pc' \in {"post", "clean"} /\ recv' = recv
    BY <1>7 DEF BuildDone, PostFull, PostOne, Posting, Clean, rxVars
  <2> QED
    BY <2>1, FlushFrame
<1>8. CASE PostDone \/ FreeFailed \/ FreeBatch
  <2>1. /\ pc \in {"post", "failed", "free"} /\ pc' \in {"scan", "free", "crash"} /\ recv' = recv
        /\ pc' = "scan" => batch' = <<>>
    BY <1>8 DEF PostDone, FreeFailed, FreeBatch, EndBatch, rxVars
  <2> QED
    BY <2>1, FlushFrame
<1>9. CASE NicComplete \/ UNCHANGED vars
  BY <1>9 DEF NicComplete, vars, rxVars, FlushInv, Completes
<1> QED
  BY <1>1, <1>2, <1>3, <1>4, <1>5, <1>6, <1>7, <1>8, <1>9 DEF Next, CpuStep

\* Steps that move no receive buffer.
LEMMA AllFrame ==
  ASSUME RxAll, UNCHANGED <<recv, queue, rx_ring, rx_pool>>, Held' = Held
  PROVE  RxAll'
<1>1. Waiting' = Waiting /\ Echoed(queue') = Echoed(queue)
  BY DEF Waiting
<1> QED
  BY <1>1 DEF RxAll

\* The packets of a batch go to the pool when it ends.
LEMMA AllFreed ==
  ASSUME RxAll, UNCHANGED <<recv, queue, rx_ring>>, Held' = {}, rx_pool' = rx_pool \cup Held
  PROVE  RxAll'
<1>1. Waiting' = Waiting /\ Echoed(queue') = Echoed(queue)
  BY DEF Waiting
<1> QED
  BY <1>1 DEF RxAll

\* No step loses a receive buffer.
LEMMA NextRxAll ==
  ASSUME Shape, FlushInv, RxAll, [Next]_vars
  PROVE  RxAll'
<1>1. ASSUME NEW burst \in Bursts, Poll(burst) PROVE RxAll'
  <2>1. CASE pc' = "crash"
    <3>1. UNCHANGED <<recv, rx_ring, rx_pool, batch, sent, queue, mode>>
      BY <1>1, <2>1 DEF Poll, rxVars
    <3> QED
      BY <3>1, AllFrame, RxFrame
  <2>2. CASE pc' # "crash"
    <3>1. PICK got \in SUBSET rx_ring, new \in SUBSET rx_pool :
            /\ pc = "poll" /\ batch' = <<>>
            /\ rx_ring' = (rx_ring \ got) \cup new /\ rx_pool' = rx_pool \ new
            /\ recv' \in Seq([b : RxBufs, status : {"valid", "invalid"}]) /\ Len(recv') = Len(burst)
            /\ \A i \in 1 .. Len(burst) : recv'[i].b \in got
            /\ \A x \in got : \E i \in 1 .. Len(burst) : recv'[i].b = x
            /\ queue' = queue
      BY <1>1, <2>2, PollMoves, ZenonT(30)
    <3>2. DOMAIN recv' = 1 .. Len(burst)
      BY <3>1, LenProperties
    <3>3. Waiting' = got
      BY <3>1, <3>2 DEF Waiting
    <3>4. recv = <<>> /\ batch = <<>>
      BY <3>1 DEF FlushInv, Shape, PhaseInv
    <3>5. Waiting = {} /\ Held = {} /\ Held' = {}
      BY <3>1, <3>4 DEF Waiting, Held
    <3>6. Echoed(queue') = Echoed(queue)
      BY <3>1
    <3> QED
      BY <3>1, <3>3, <3>5, <3>6 DEF RxAll
  <2> QED
    BY <2>1, <2>2
<1>2. CASE SkipInvalid
  <2>1. /\ recv # <<>> /\ recv' = Tail(recv) /\ rx_pool' = rx_pool \cup {Head(recv).b}
        /\ UNCHANGED <<rx_ring, batch, sent, queue, mode>>
    BY <1>2 DEF SkipInvalid, Scanning
  <2>2. Waiting = Waiting' \cup {Head(recv).b}
    BY <2>1, PopRecv
  <2>3. Held' = Held /\ Echoed(queue') = Echoed(queue)
    BY <2>1 DEF Held
  <2> QED
    BY <2>1, <2>2, <2>3 DEF RxAll
<1>3. CASE TakeValid
  <2>1. /\ recv # <<>> /\ recv' = Tail(recv)
        /\ UNCHANGED <<rx_ring, rx_pool, queue>>
    BY <1>3 DEF TakeValid, Scanning
  <2>2. Waiting = Waiting' \cup {Head(recv).b}
    BY <2>1, PopRecv
  <2>3. Held' = Held \cup {Head(recv).b} /\ Echoed(queue') = Echoed(queue)
    BY <1>3, <2>1, TakeShape
  <2> QED
    BY <2>1, <2>2, <2>3 DEF RxAll
<1>4. CASE ScanDone \/ BuildEcho \/ BuildCopy \/ (\E segs \in SegmentLists : BuildZeroCopy(segs)) \/ BuildDone
  <2>1. UNCHANGED <<recv, rx_ring, rx_pool, batch, sent, queue, mode>>
    BY <1>4 DEF ScanDone, BuildEcho, BuildCopy, BuildZeroCopy, BuildDone, rxVars
  <2> QED
    BY <2>1, AllFrame, RxFrame
<1>5. CASE BuildEchoFails \/ BuildFailsNoBuffer \/ \E segs \in SegmentLists : BuildFails(segs)
  BY <1>5, FailsShape, AllFrame, RxFrame
<1>6. CASE PostFull \/ Clean
  <2>1. Reap /\ UNCHANGED <<recv, rx_ring, batch, sent, mode>>
    BY <1>6 DEF PostFull, Clean, rxVars
  <2>2. PICK freed \in Seq(ReplySet) :
          /\ queue' \in Seq(ReplySet) /\ queue = freed \o queue'
          /\ rx_pool' = rx_pool \cup Echoed(freed)
    BY <2>1, ReapCuts
  <2>3. Echoed(queue) = Echoed(freed) \cup Echoed(queue')
    BY <2>2, ConcatHolds
  <2>4. Held' = Held /\ Waiting' = Waiting
    BY <2>1 DEF Held, Waiting
  <2> QED
    BY <2>1, <2>2, <2>3, <2>4 DEF RxAll
<1>7. CASE PostOne
  <2>1. /\ Echoed(queue') = Echoed(queue) \cup sends[sent + 1].rx
        /\ Held = Held' \cup sends[sent + 1].rx
        /\ UNCHANGED <<recv, rx_ring, rx_pool>>
    BY <1>7, PostMoves
  <2>2. Waiting' = Waiting
    BY <2>1 DEF Waiting
  <2> QED
    BY <2>1, <2>2 DEF RxAll
<1>8. CASE PostDone
  <2>1. UNCHANGED <<recv, rx_ring, rx_pool, queue>>
    BY <1>8 DEF PostDone, rxVars
  <2> QED
    BY <1>8, <2>1, PostDoneShape, AllFrame
<1>9. CASE FreeFailed
  <2>1. UNCHANGED <<recv, rx_ring, queue>>
    BY <1>9 DEF FreeFailed, rxVars
  <2> QED
    BY <1>9, <2>1, FreeFailedShape, AllFreed
<1>10. CASE FreeBatch
  <2>1. UNCHANGED <<recv, rx_ring, queue>>
    BY <1>10 DEF FreeBatch, rxVars
  <2>2. CASE pc' = "scan" /\ ~Forgotten /\ Held' = {} /\ rx_pool' = rx_pool \cup Held
    BY <2>1, <2>2, AllFreed
  <2>3. CASE UNCHANGED <<recv, rx_ring, rx_pool, batch, sends, sent, queue, mode>>
    BY <2>3, AllFrame, RxFrame
  <2> QED
    BY <1>10, <2>2, <2>3, FreeBatchShape
<1>11. CASE NicComplete \/ UNCHANGED vars
  <2>1. UNCHANGED <<recv, rx_ring, rx_pool, batch, sent, queue, mode>>
    BY <1>11 DEF NicComplete, vars, rxVars
  <2> QED
    BY <2>1, AllFrame, RxFrame
<1> QED
  BY <1>1, <1>2, <1>3, <1>4, <1>5, <1>6, <1>7, <1>8, <1>9, <1>10, <1>11 DEF Next, CpuStep

\* At first every buffer is in the ring or in the pool.
LEMMA InitRxAll == Init => FlushInv /\ RxAll
<1> SUFFICES ASSUME Init PROVE FlushInv /\ RxAll
  OBVIOUS
<1>1. Shape
  BY InitShape
<1>2. pc = "poll" /\ recv = <<>> /\ batch = <<>> /\ queue = <<>> /\ rx_pool = RxBufs \ rx_ring
  BY DEF Init
<1>3. FlushInv
  BY <1>2, EmptyCompletes DEF FlushInv
<1>4. rx_ring \subseteq RxBufs
  BY <1>1, ShapeTypes
<1>5. Waiting = {} /\ Held = {} /\ Echoed(queue) = {}
  BY <1>2 DEF Waiting, Held, Echoed
<1> QED
  BY <1>2, <1>3, <1>4, <1>5 DEF RxAll

\* Five owners as a sequence.
LEMMA FiveOwners ==
  ASSUME NEW a, NEW b, NEW c, NEW d, NEW e
  PROVE  LET R == <<a, b, c, d, e>>
         IN  /\ UNION Range(R) = a \cup b \cup c \cup d \cup e
             /\ Disjoint5(a, b, c, d, e) => \A i, j \in DOMAIN R : i # j => R[i] \cap R[j] = {}
<1> DEFINE R == <<a, b, c, d, e>>
<1>1. /\ R[1] = a /\ R[2] = b /\ R[3] = c /\ R[4] = d /\ R[5] = e
      /\ DOMAIN R = 1 .. 5 /\ \A i \in 1 .. 5 : i \in {1, 2, 3, 4, 5}
  OBVIOUS
<1> HIDE DEF R
<1>2. Range(R) = {a, b, c, d, e}
  <2>1. \A i : i \in DOMAIN R <=> i \in {1, 2, 3, 4, 5}
    BY <1>1
  <2> QED
    BY <1>1, <2>1 DEF Range
<1>3. UNION {a, b, c, d, e} = a \cup b \cup c \cup d \cup e
  OBVIOUS
<1>4. ASSUME Disjoint5(a, b, c, d, e), NEW i \in DOMAIN R, NEW j \in DOMAIN R, i # j
      PROVE  R[i] \cap R[j] = {}
  BY <1>1, <1>4 DEF Disjoint5
<1> QED
  BY <1>2, <1>3, <1>4 DEF R

\* What the batch still owns, said with the replies that were posted.
LEMMA HeldIsInBatch ==
  ASSUME Shape
  PROVE  InBatch = Held
<1>1. /\ Len(batch) \in Nat /\ DOMAIN batch = 1 .. Len(batch)
      /\ sends \in Seq(ReplySet) /\ Len(sends) \in Nat /\ DOMAIN sends = 1 .. Len(sends)
      /\ sent \in 0 .. Len(sends) /\ Len(sends) <= Len(batch)
  BY ShapeTypes DEF Shape, PhaseInv
<1> DEFINE p == SubSeq(sends, 1, sent)
<1>2. p \in Seq(ReplySet) /\ Len(p) = sent /\ \A i \in 1 .. sent : p[i] = sends[i]
  BY <1>1, Cut
<1> HIDE DEF p
<1>3. DOMAIN p = 1 .. sent /\ \A i \in 1 .. sent : i \in DOMAIN sends /\ i \in DOMAIN batch
  BY <1>1, <1>2, LenProperties
<1>4. InBatch = {x \in Range(batch) : x # NULL /\ x \notin Echoed(p)}
  BY DEF InBatch, p
<1>5. CASE mode = "echo"
  <2>1. \A i \in 1 .. sent : p[i].rx = {batch[i]}
    BY <1>2, <1>3, <1>5 DEF Shape, RepliesInv
  <2>2. \A x : x \in Echoed(p) <=> \E i \in 1 .. sent : x = batch[i]
    <3>1. \A x : x \in Echoed(p) <=> \E i \in 1 .. sent : x \in p[i].rx
      BY <1>3, Holder
    <3> QED
      BY <2>1, <3>1
  <2>3. \A i, j \in DOMAIN batch : i # j /\ batch[i] # NULL => batch[i] # batch[j]
    BY DEF Shape, RxApart
  <2>4. ASSUME NEW x \in InBatch PROVE x \in Held
    <3>1. PICK k \in DOMAIN batch : batch[k] = x
      BY <1>4, <2>4 DEF Range
    <3>2. x # NULL /\ ~(k \in 1 .. sent)
      BY <1>4, <2>2, <2>4, <3>1
    <3>3. k > sent
      BY <1>1, <3>1, <3>2
    <3> QED
      BY <3>1, <3>2, <3>3 DEF Held
  <2>5. ASSUME NEW x \in Held PROVE x \in InBatch
    <3>1. PICK k \in DOMAIN batch : batch[k] = x /\ batch[k] # NULL /\ k > sent
      BY <1>5, <2>5 DEF Held
    <3>2. \A i \in 1 .. sent : i \in DOMAIN batch /\ i # k
      BY <1>1, <1>3, <3>1
    <3>3. x \notin Echoed(p)
      BY <2>2, <2>3, <3>1, <3>2
    <3> QED
      BY <1>4, <3>1, <3>3 DEF Range
  <2> QED
    BY <2>4, <2>5
<1>6. CASE mode # "echo"
  <2>1. \A i \in 1 .. sent : p[i].rx = {}
    BY <1>2, <1>3, <1>6 DEF Shape, RepliesInv, OfMode
  <2>2. Echoed(p) = {}
    BY <1>3, <2>1, Holder
  <2> QED
    BY <1>4, <1>6, <2>2 DEF Held, Range
<1> QED
  BY <1>5, <1>6

\* No receive buffer is in two places, whatever the bursts are: a packet is
\* freed once, and never while the ring, the burst, the batch or an echoed
\* reply still has it.
THEOREM NeverTwoOwners == Spec => [](\A i, j \in DOMAIN Receivers : i # j => Receivers[i] \cap Receivers[j] = {})
<1>1. Shape => \A i, j \in DOMAIN Receivers : i # j => Receivers[i] \cap Receivers[j] = {}
  BY HeldIsInBatch, FiveOwners DEF Shape, RxApart, Receivers
<1> QED
  BY <1>1, ShapeHolds, PTL

\* Every receive buffer always has exactly one owner (ring, pool, burst,
\* batch or echoed reply), provided no burst ends on an invalid packet that
\* leaves a part-filled batch behind.
THEOREM OwnersHold ==
  ASSUME AllFlushed
  PROVE  Spec => []RxBufferOwners
<1>1. Init => Shape /\ FlushInv /\ RxAll
  BY InitShape, InitRxAll
<1>2. Shape /\ FlushInv /\ RxAll /\ [Next]_vars => (Shape /\ FlushInv /\ RxAll)'
  BY NextShape, NextFlush, NextRxAll
<1>3. Shape /\ FlushInv /\ RxAll => RxBufferOwners
  BY HeldIsInBatch, FiveOwners DEF Shape, RxApart, RxAll, Receivers, RxBufferOwners
<1> QED
  BY <1>1, <1>2, <1>3, PTL DEF Spec

---------------------------------------------------------------------------
\* Replies: ReplyInv and CountInv.

\* What a step does to the replies: nothing, build one, post the first, free
\* those that the NIC has finished; or it is fatal.
Still ==
    /\ Broken => Broken'
    /\ UNCHANGED <<mbuf_pool, tx_pool, refcnt, queue>> /\ Pending' = Pending
Built(c, d, r) ==
    /\ r.chain = c /\ mbuf_pool' = mbuf_pool \ c
    /\ r.buf = d /\ tx_pool' = tx_pool \ d
    /\ \A s \in Segments : refcnt'[s] = (refcnt[s] + Refs(r.segs, s)) % RefcntMod
    /\ Pending' = Append(Pending, r) /\ queue' = queue
Posted(r) ==
    /\ Pending = <<r>> \o Pending' /\ queue' = Append(queue, r)
    /\ UNCHANGED <<mbuf_pool, tx_pool, refcnt>>
Reaped(freed) ==
    /\ queue' \in Seq(ReplySet) /\ queue = freed \o queue' /\ Pending' = Pending
    /\ mbuf_pool' = mbuf_pool \cup Chains(freed)
    /\ tx_pool' = tx_pool \cup DataBufs(freed)
    /\ \A s \in Segments : refcnt'[s] = (refcnt[s] - RefsOf(freed, s)) % RefcntMod
ReplyStep ==
    \/ Still
    \/ Broken'
    \/ /\ ~Broken
       /\ \/ \E c \in SUBSET mbuf_pool, d \in SUBSET tx_pool, r \in ReplySet : Built(c, d, r)
          \/ \E r \in ReplySet : Posted(r)
          \/ \E freed \in Seq(ReplySet) : Reaped(freed)

\* The replies after the first k.
LEMMA Rest ==
  ASSUME NEW q \in Seq(ReplySet), NEW k \in 0 .. Len(q)
  PROVE  /\ SubSeq(q, k + 1, Len(q)) \in Seq(ReplySet)
         /\ Len(SubSeq(q, k + 1, Len(q))) = Len(q) - k
         /\ k = 0 => SubSeq(q, k + 1, Len(q)) = q
         /\ k = Len(q) => SubSeq(q, k + 1, Len(q)) = <<>>
         /\ k < Len(q) => SubSeq(q, k + 1, Len(q)) = <<q[k + 1]>> \o SubSeq(q, k + 2, Len(q))
<1>1. Len(q) \in Nat
  BY LenProperties
<1>2. /\ SubSeq(q, k + 1, Len(q)) \in Seq(ReplySet)
      /\ Len(SubSeq(q, k + 1, Len(q))) = Len(q) - k
  BY Cut
<1>3. ASSUME k = 0 PROVE SubSeq(q, k + 1, Len(q)) = q
  <2>1. k + 1 = 1
    BY <1>3
  <2>2. SubSeq(q, 1, Len(q)) = q
    BY SubSeqFull
  <2> QED
    BY <2>1, <2>2, Zenon
<1>4. ASSUME k = Len(q) PROVE SubSeq(q, k + 1, Len(q)) = <<>>
  BY <1>1, <1>4, SubSeqEmpty
<1>5. ASSUME k < Len(q) PROVE SubSeq(q, k + 1, Len(q)) = <<q[k + 1]>> \o SubSeq(q, k + 2, Len(q))
  <2>1. PICK m \in 1 .. Len(q) : m = k + 1
    BY <1>1, <1>5
  <2>2. Len(q) \in m .. Len(q) /\ m + 1 = k + 2
    BY <1>1, <2>1
  <2>3. SubSeq(q, m, Len(q)) = <<q[m]>> \o SubSeq(q, m + 1, Len(q))
    BY <2>2, SubSeqRecursiveFirst
  <2> QED
    BY <2>1, <2>2, <2>3, Zenon
<1> QED
  BY <1>2, <1>3, <1>4, <1>5, Zenon

\* The replies still to be posted, at the points that matter.
LEMMA PendingFacts ==
  ASSUME Shape
  PROVE  /\ Pending \in Seq(ReplySet) /\ Len(Pending) = Len(sends) - sent
         /\ sent = 0 => Pending = sends
         /\ sent = Len(sends) => Pending = <<>>
  BY ShapeTypes, Rest DEF Pending

\* Where the loop is, something is not broken.
LEMMA Whole ==
  ASSUME Shape, pc \in {"poll", "scan", "build", "post", "clean"}
  PROVE  ~Broken
  BY DEF Shape, PhaseInv, Broken

\* No reply is built or pending when a batch begins or ends.
LEMMA EmptyPending ==
  ASSUME EndBatch
  PROVE  Pending' = <<>>
<1>1. sends' = <<>> /\ sent' = 0
  BY DEF EndBatch
<1>2. Len(<<>>) = 0 /\ SubSeq(<<>>, 1, 0) = <<>>
  OBVIOUS
<1> QED
  BY <1>1, <1>2 DEF Pending

\* A batch that ends with every reply posted leaves the replies alone.
LEMMA EndStill ==
  ASSUME Shape, ~Broken, sent = Len(sends), EndBatch,
         UNCHANGED <<mbuf_pool, tx_pool, refcnt, queue>>
  PROVE  Still
  BY PendingFacts, EmptyPending DEF Still

\* Building a reply.
LEMMA BuiltStep ==
  ASSUME Shape, Building,
         NEW c \in SUBSET mbuf_pool, NEW d \in SUBSET tx_pool, NEW r \in ReplySet,
         r.chain = c, r.buf = d, sends' = Append(sends, r), UNCHANGED <<sent, queue>>,
         mbuf_pool' = mbuf_pool \ c, tx_pool' = tx_pool \ d,
         \A s \in Segments : refcnt'[s] = (refcnt[s] + Refs(r.segs, s)) % RefcntMod
  PROVE  ReplyStep
<1>1. ~Broken /\ sent = 0 /\ sent' = 0
  BY Whole DEF Building, Shape, PhaseInv
<1>2. Pending = sends
  BY <1>1, PendingFacts
<1>3. sends' \in Seq(ReplySet)
  BY ShapeTypes, AppendProperties
<1>4. Len(sends') \in Nat
  BY <1>3, LenProperties
<1>5. sent' \in 0 .. Len(sends')
  BY <1>1, <1>4
<1>6. SubSeq(sends', sent' + 1, Len(sends')) = sends'
  BY <1>1, <1>3, <1>5, Rest
<1>7. Pending' = Append(Pending, r)
  BY <1>2, <1>6 DEF Pending
<1>8. Built(c, d, r)
  BY <1>7 DEF Built
<1> QED
  BY <1>1, <1>8, Zenon DEF ReplyStep

\* A reply without segments counts nothing.
LEMMA NothingCounted ==
  ASSUME Shape, refcnt' = refcnt
  PROVE  \A s \in Segments : refcnt'[s] = (refcnt[s] + Refs(<<>>, s)) % RefcntMod
<1> SUFFICES ASSUME NEW s \in Segments
             PROVE  refcnt'[s] = (refcnt[s] + Refs(<<>>, s)) % RefcntMod
  OBVIOUS
<1>1. Places(<<>>, s) = {}
  BY DEF Places
<1>2. Refs(<<>>, s) = 0
  BY <1>1, FS_EmptySet DEF Refs
<1>3. refcnt[s] \in 0 .. RefcntMod - 1
  BY DEF Shape, TypeOK
<1>4. RefcntMod \in Nat \ {0}
  BY Consts
<1>5. refcnt[s] \in Int /\ refcnt[s] + 0 = refcnt[s]
  BY <1>3, <1>4
<1>6. refcnt[s] % RefcntMod = refcnt[s]
  BY <1>3, <1>4, <1>5, ModNear
<1> QED
  BY <1>2, <1>5, <1>6

\* Every step does one of five things to the replies.
LEMMA NextReplyStep ==
  ASSUME Shape, [Next]_vars
  PROVE  ReplyStep
<1>1. CASE (\E burst \in Bursts : Poll(burst)) \/ SkipInvalid \/ TakeValid \/ ScanDone \/ BuildDone
  <2>1. /\ pc \in {"poll", "scan", "build"}
        /\ UNCHANGED <<mbuf_pool, tx_pool, refcnt, queue, sends, sent>>
    BY <1>1 DEF Poll, SkipInvalid, TakeValid, ScanDone, BuildDone, Scanning, txVars
  <2>2. ~Broken
    BY <2>1, Whole
  <2> QED
    BY <2>1, <2>2 DEF ReplyStep, Still, Pending
<1>2. CASE BuildEcho
  <2>1. PICK r : /\ r = [rx |-> {Request}, chain |-> {}, buf |-> {}, segs |-> <<>>]
                 /\ sends' = Append(sends, r)
    BY <1>2 DEF BuildEcho
  <2>2. /\ Building /\ mode = "echo"
        /\ UNCHANGED <<mbuf_pool, tx_pool, refcnt, queue, sent>>
    BY <1>2 DEF BuildEcho, txVars
  <2>3. Request \in RxBufs
    <3>1. Range(batch) \subseteq RxBufs
      BY <2>2, HeldAll DEF Shape, PhaseInv, Building
    <3>2. Len(sends) + 1 \in DOMAIN batch
      BY <2>2, ShapeTypes DEF Building
    <3> QED
      BY <3>1, <3>2 DEF Request, Range
  <2>4. r \in ReplySet
    BY <2>1, <2>3, EchoReply
  <2>5. r.chain = {} /\ r.buf = {} /\ r.segs = <<>>
    BY <2>1
  <2>6. \A s \in Segments : refcnt'[s] = (refcnt[s] + Refs(r.segs, s)) % RefcntMod
    BY <2>2, <2>5, NothingCounted
  <2>7. PICK c \in SUBSET mbuf_pool, d \in SUBSET tx_pool : c = {} /\ d = {}
    OBVIOUS
  <2>8. r.chain = c /\ r.buf = d /\ mbuf_pool' = mbuf_pool \ c /\ tx_pool' = tx_pool \ d
    BY <2>2, <2>5, <2>7
  <2> QED
    BY <2>1, <2>2, <2>4, <2>6, <2>8, BuiltStep, ZenonT(40)
<1>3. CASE BuildCopy
  <2>1. PICK c \in SUBSET mbuf_pool, d \in SUBSET tx_pool, r \in ReplySet :
          /\ r = [rx |-> {}, chain |-> c, buf |-> d, segs |-> <<>>]
          /\ sends' = Append(sends, r)
          /\ mbuf_pool' = mbuf_pool \ c /\ tx_pool' = tx_pool \ d
    BY <1>3, BuildCopyShape, Zenon
  <2>2. Building /\ UNCHANGED <<sent, queue, refcnt>>
    BY <1>3 DEF BuildCopy
  <2>3. r.chain = c /\ r.buf = d /\ r.segs = <<>>
    BY <2>1
  <2>4. \A s \in Segments : refcnt'[s] = (refcnt[s] + Refs(r.segs, s)) % RefcntMod
    BY <2>2, <2>3, NothingCounted
  <2> QED
    BY <2>1, <2>2, <2>3, <2>4, BuiltStep
<1>4. ASSUME NEW segs \in SegmentLists, BuildZeroCopy(segs) PROVE ReplyStep
  <2>1. PICK c \in SUBSET mbuf_pool, r \in ReplySet :
          /\ r = [rx |-> {}, chain |-> c, buf |-> {}, segs |-> segs]
          /\ sends' = Append(sends, r)
          /\ mbuf_pool' = mbuf_pool \ c
    BY <1>4, BuildZeroCopyShape, Zenon
  <2>2. /\ Building /\ UNCHANGED <<sent, queue, tx_pool>>
        /\ refcnt' = [s \in Segments |-> (refcnt[s] + Refs(segs, s)) % RefcntMod]
    BY <1>4 DEF BuildZeroCopy
  <2>3. r.chain = c /\ r.buf = {} /\ r.segs = segs
    BY <2>1
  <2>4. \A s \in Segments : refcnt'[s] = (refcnt[s] + Refs(r.segs, s)) % RefcntMod
    BY <2>2, <2>3
  <2>5. PICK d \in SUBSET tx_pool : d = {}
    OBVIOUS
  <2>6. r.buf = d /\ tx_pool' = tx_pool \ d
    BY <2>2, <2>3, <2>5
  <2> QED
    BY <2>1, <2>2, <2>3, <2>4, <2>6, BuiltStep
<1>5. CASE BuildEchoFails
  <2>1. /\ pc = "build" /\ UNCHANGED <<mbuf_pool, tx_pool, refcnt, queue, sends, sent>>
    BY <1>5 DEF BuildEchoFails, Building, txVars
  <2>2. ~Broken
    BY <2>1, Whole
  <2> QED
    BY <2>1, <2>2 DEF ReplyStep, Still, Pending
<1>6. CASE BuildFailsNoBuffer
  <2>1. mode' = "copy" /\ pc' \in {"crash", "failed"}
    BY <1>6 DEF BuildFailsNoBuffer
  <2> QED
    BY <2>1 DEF ReplyStep, Broken
<1>7. ASSUME NEW segs \in SegmentLists, BuildFails(segs) PROVE ReplyStep
  <2>1. mode' = mode /\ pc' \in {"crash", "failed"} /\ Cardinality(mbuf_pool) < MbufsPerReply
    BY <1>7 DEF BuildFails
  <2>2. mode # "echo"
    <3>1. Cardinality(mbuf_pool) \in Nat
      BY ShapeTypes
    <3>2. ~(Cardinality(mbuf_pool) < 0)
      BY <3>1
    <3> QED
      BY <2>1, <3>2 DEF MbufsPerReply
  <2> QED
    BY <2>1, <2>2 DEF ReplyStep, Broken
<1>8. CASE PostFull \/ Clean
  <2>1. Reap /\ pc \in {"post", "clean"} /\ UNCHANGED <<sends, sent>>
    BY <1>8 DEF PostFull, Clean, Posting
  <2>2. ~Broken
    BY <2>1, Whole
  <2>3. PICK freed \in Seq(ReplySet) :
          /\ queue' \in Seq(ReplySet) /\ queue = freed \o queue'
          /\ mbuf_pool' = mbuf_pool \cup Chains(freed)
          /\ tx_pool' = tx_pool \cup DataBufs(freed)
          /\ refcnt' = [s \in Segments |-> (refcnt[s] - RefsOf(freed, s)) % RefcntMod]
    BY <2>1, ReapCuts, Zenon
  <2>4. Pending' = Pending
    BY <2>1 DEF Pending
  <2>5. \A s \in Segments : refcnt'[s] = (refcnt[s] - RefsOf(freed, s)) % RefcntMod
    BY <2>3
  <2>6. Reaped(freed)
    BY <2>3, <2>4, <2>5 DEF Reaped
  <2> QED
    BY <2>2, <2>6, Zenon DEF ReplyStep
<1>9. CASE PostOne
  <2>1. pc = "post" /\ ~Broken
    BY <1>9, Whole DEF PostOne, Posting
  <2>2. /\ sent < Len(sends) /\ sends[sent + 1] \in ReplySet
        /\ sent' = sent + 1 /\ queue' = Append(queue, sends[sent + 1])
        /\ UNCHANGED <<sends, mbuf_pool, tx_pool, refcnt>>
    BY <1>9, PostMoves
  <2>3. PICK r \in ReplySet : r = sends[sent + 1]
    BY <2>2
  <2>4. SubSeq(sends, sent + 1, Len(sends)) = <<sends[sent + 1]>> \o SubSeq(sends, sent + 2, Len(sends))
    BY <2>2, ShapeTypes, Rest
  <2>5. sent' + 1 = sent + 2
    BY <2>2, ShapeTypes
  <2>6. Pending' = SubSeq(sends, sent + 2, Len(sends))
    BY <2>2, <2>5 DEF Pending
  <2>7. Pending = <<r>> \o Pending'
    BY <2>3, <2>4, <2>6, Zenon DEF Pending
  <2>8. Posted(r)
    BY <2>2, <2>3, <2>7 DEF Posted
  <2> QED
    BY <2>1, <2>8, Zenon DEF ReplyStep
<1>10. CASE PostDone
  <2>1. /\ pc = "post" /\ sent = Len(sends) /\ UNCHANGED <<mbuf_pool, tx_pool, refcnt, queue>>
        /\ EndBatch \/ UNCHANGED <<sends, sent>>
    BY <1>10 DEF PostDone, txVars
  <2>2. ~Broken
    BY <2>1, Whole
  <2>3. CASE EndBatch
    BY <2>1, <2>2, <2>3, EndStill DEF ReplyStep
  <2>4. CASE UNCHANGED <<sends, sent>>
    BY <2>1, <2>2, <2>4 DEF ReplyStep, Still, Pending
  <2> QED
    BY <2>1, <2>3, <2>4
<1>11. CASE FreeFailed
  <2>1. /\ pc = "failed" /\ UNCHANGED <<mbuf_pool, tx_pool, refcnt, queue, mode>>
        /\ mode = "echo" => EndBatch
    BY <1>11 DEF FreeFailed, txVars
  <2>2. CASE mode = "echo"
    <3>1. ~Broken /\ sent = 0 /\ sends = <<>>
      BY <2>1, <2>2, Consts DEF Shape, PhaseInv, Broken
    <3>2. sent = Len(sends)
      BY <3>1
    <3> QED
      BY <2>1, <2>2, <3>1, <3>2, EndStill DEF ReplyStep
  <2>3. CASE mode # "echo"
    BY <1>11, <2>3, FreeFailedShape DEF ReplyStep, Broken
  <2> QED
    BY <2>2, <2>3
<1>12. CASE FreeBatch
  <2>1. CASE pc' = "crash"
    BY <2>1 DEF ReplyStep, Broken
  <2>2. CASE pc' # "crash"
    <3>1. /\ pc = "free" /\ NULL \notin Range(batch) /\ EndBatch
          /\ UNCHANGED <<mbuf_pool, tx_pool, refcnt, queue>>
      BY <1>12, <2>2 DEF FreeBatch, txVars
    <3>2. ~Broken /\ sent = Len(batch) /\ Len(sends) <= Len(batch)
      BY <3>1 DEF Shape, PhaseInv, Broken, Forgotten
    <3>3. sent = Len(sends)
      BY <3>2, ShapeTypes
    <3> QED
      BY <3>1, <3>2, <3>3, EndStill DEF ReplyStep
  <2> QED
    BY <2>1, <2>2
<1>13. CASE NicComplete \/ UNCHANGED vars
  <2>1. UNCHANGED <<pc, batch, mode, mbuf_pool, tx_pool, refcnt, queue, sends, sent>>
    BY <1>13 DEF NicComplete, vars, txVars
  <2> QED
    BY <2>1 DEF ReplyStep, Still, Broken, Forgotten, Pending
<1> QED
  BY <1>1, <1>2, <1>3, <1>4, <1>5, <1>6, <1>7, <1>8, <1>9, <1>10, <1>11, <1>12, <1>13
     DEF Next, CpuStep

\* PendingFacts after a step.
LEMMA PendingNext ==
  ASSUME Shape'
  PROVE  Pending' \in Seq(ReplySet)
<1>1. sends' \in Seq(ReplySet) /\ sent' \in 0 .. Len(sends')
  BY DEF Shape, RepliesInv, TypeOK
<1>2. SubSeq(sends', sent' + 1, Len(sends')) \in Seq(ReplySet)
  BY <1>1, Rest
<1> QED
  BY <1>2 DEF Pending

\* What a posted reply was to the replies before it.
LEMMA FirstHolds ==
  ASSUME NEW r \in ReplySet, NEW p \in Seq(ReplySet), NEW q \in Seq(ReplySet), q = <<r>> \o p
  PROVE  /\ Chains(q) = r.chain \cup Chains(p) /\ DataBufs(q) = r.buf \cup DataBufs(p)
         /\ Apart(q) => Apart(p) /\ r.chain \cap Chains(p) = {} /\ r.buf \cap DataBufs(p) = {}
<1>1. PICK s \in Seq(ReplySet) : s = <<r>>
  BY SingleHolds
<1>2. q = s \o p
  BY <1>1
<1>3. Chains(s) = r.chain /\ DataBufs(s) = r.buf
  BY <1>1, SingleHolds
<1>4. Chains(q) = Chains(s) \cup Chains(p) /\ DataBufs(q) = DataBufs(s) \cup DataBufs(p)
  BY <1>2, ConcatHolds, ZenonT(40)
<1>5. Apart(q) => Apart(p) /\ Chains(s) \cap Chains(p) = {} /\ DataBufs(s) \cap DataBufs(p) = {}
  BY <1>2, ConcatApart, SMTT(30)
<1> QED
  BY <1>3, <1>4, <1>5

\* And to their count.
LEMMA FirstCounts ==
  ASSUME NEW r \in ReplySet, NEW p \in Seq(ReplySet), NEW x
  PROVE  RefsOf(<<r>> \o p, x) = Refs(r.segs, x) + RefsOf(p, x)
<1>1. PICK s \in Seq(ReplySet) : s = <<r>>
  BY SingleHolds
<1>2. RefsOf(s, x) = Refs(r.segs, x)
  BY <1>1, RefsSingle
<1>3. RefsOf(s \o p, x) = RefsOf(s, x) + RefsOf(p, x)
  BY RefsConcat
<1> QED
  BY <1>1, <1>2, <1>3, Zenon

\* No step loses an mbuf or a data buffer, or gives one out twice.
LEMMA NextReply ==
  ASSUME Shape, Shape', ReplyInv, [Next]_vars
  PROVE  ReplyInv'
<1>1. ReplyStep
  BY NextReplyStep
<1>2. CASE Broken'
  BY <1>2 DEF ReplyInv
<1>3. CASE Still
  <2>1. /\ UNCHANGED <<mbuf_pool, tx_pool, queue>> /\ Pending' = Pending /\ (~Broken' => ~Broken)
    BY <1>3 DEF Still
  <2>2. /\ Chains(Pending') = Chains(Pending) /\ Chains(queue') = Chains(queue)
        /\ DataBufs(Pending') = DataBufs(Pending) /\ DataBufs(queue') = DataBufs(queue)
        /\ Apart(Pending') <=> Apart(Pending)
        /\ Apart(queue') <=> Apart(queue)
    BY <2>1
  <2> QED
    BY <2>1, <2>2 DEF ReplyInv, ThreeParts
<1>4. CASE /\ ~Broken
           /\ \/ \E c \in SUBSET mbuf_pool, d \in SUBSET tx_pool, r \in ReplySet : Built(c, d, r)
              \/ \E r \in ReplySet : Posted(r)
              \/ \E freed \in Seq(ReplySet) : Reaped(freed)
  <2>1. /\ Pending \in Seq(ReplySet) /\ Pending' \in Seq(ReplySet) /\ queue \in Seq(ReplySet)
    BY PendingFacts, PendingNext, ShapeTypes
  <2>2. /\ ThreeParts(Mbufs, mbuf_pool, Chains(Pending), Chains(queue))
        /\ ThreeParts(TxBufs, tx_pool, DataBufs(Pending), DataBufs(queue))
        /\ Apart(Pending) /\ Apart(queue)
    BY <1>4 DEF ReplyInv
  <2> SUFFICES /\ ThreeParts(Mbufs, mbuf_pool', Chains(Pending'), Chains(queue'))
               /\ ThreeParts(TxBufs, tx_pool', DataBufs(Pending'), DataBufs(queue'))
               /\ Apart(Pending') /\ Apart(queue')
    BY DEF ReplyInv, ThreeParts
  <2>3. ASSUME NEW c \in SUBSET mbuf_pool, NEW d \in SUBSET tx_pool, NEW r \in ReplySet,
               Built(c, d, r)
        PROVE  /\ ThreeParts(Mbufs, mbuf_pool', Chains(Pending'), Chains(queue'))
               /\ ThreeParts(TxBufs, tx_pool', DataBufs(Pending'), DataBufs(queue'))
               /\ Apart(Pending') /\ Apart(queue')
    <3>1. /\ r.chain = c /\ mbuf_pool' = mbuf_pool \ c
          /\ r.buf = d /\ tx_pool' = tx_pool \ d
          /\ Pending' = Append(Pending, r) /\ queue' = queue
      BY <2>3 DEF Built
    <3>2. /\ Chains(Pending') = Chains(Pending) \cup c /\ DataBufs(Pending') = DataBufs(Pending) \cup d
          /\ Apart(Pending') <=> /\ Apart(Pending)
                                 /\ Chains(Pending) \cap c = {} /\ DataBufs(Pending) \cap d = {}
      BY <2>1, <3>1, AppendHolds
    <3>3. Chains(queue') = Chains(queue) /\ DataBufs(queue') = DataBufs(queue) /\ Apart(queue')
      BY <2>2, <3>1
    <3>4. Chains(Pending) \cap c = {} /\ DataBufs(Pending) \cap d = {}
      BY <2>2 DEF ThreeParts
    <3> QED
      BY <2>2, <3>1, <3>2, <3>3, <3>4 DEF ThreeParts
  <2>4. ASSUME NEW r \in ReplySet, Posted(r)
        PROVE  /\ ThreeParts(Mbufs, mbuf_pool', Chains(Pending'), Chains(queue'))
               /\ ThreeParts(TxBufs, tx_pool', DataBufs(Pending'), DataBufs(queue'))
               /\ Apart(Pending') /\ Apart(queue')
    <3>1. /\ Pending = <<r>> \o Pending' /\ queue' = Append(queue, r)
          /\ UNCHANGED <<mbuf_pool, tx_pool>>
      BY <2>4 DEF Posted
    <3>2. /\ Chains(Pending) = r.chain \cup Chains(Pending') /\ DataBufs(Pending) = r.buf \cup DataBufs(Pending')
          /\ Apart(Pending') /\ r.chain \cap Chains(Pending') = {} /\ r.buf \cap DataBufs(Pending') = {}
      BY <2>1, <2>2, <3>1, FirstHolds
    <3>3. /\ Chains(queue') = Chains(queue) \cup r.chain /\ DataBufs(queue') = DataBufs(queue) \cup r.buf
          /\ Apart(queue') <=> /\ Apart(queue)
                               /\ Chains(queue) \cap r.chain = {} /\ DataBufs(queue) \cap r.buf = {}
      BY <2>1, <3>1, AppendHolds
    <3>4. Chains(queue) \cap r.chain = {} /\ DataBufs(queue) \cap r.buf = {}
      BY <2>2, <3>2 DEF ThreeParts
    <3> QED
      BY <2>2, <3>1, <3>2, <3>3, <3>4 DEF ThreeParts
  <2>5. ASSUME NEW freed \in Seq(ReplySet), Reaped(freed)
        PROVE  /\ ThreeParts(Mbufs, mbuf_pool', Chains(Pending'), Chains(queue'))
               /\ ThreeParts(TxBufs, tx_pool', DataBufs(Pending'), DataBufs(queue'))
               /\ Apart(Pending') /\ Apart(queue')
    <3>1. /\ queue' \in Seq(ReplySet) /\ queue = freed \o queue' /\ Pending' = Pending
          /\ mbuf_pool' = mbuf_pool \cup Chains(freed)
          /\ tx_pool' = tx_pool \cup DataBufs(freed)
      BY <2>5 DEF Reaped
    <3>2. Chains(queue) = Chains(freed) \cup Chains(queue') /\ DataBufs(queue) = DataBufs(freed) \cup DataBufs(queue')
      BY <3>1, ConcatHolds
    <3>3. Apart(queue') /\ Chains(freed) \cap Chains(queue') = {} /\ DataBufs(freed) \cap DataBufs(queue') = {}
      BY <2>2, <3>1, ConcatApart
    <3>4. Chains(Pending') = Chains(Pending) /\ DataBufs(Pending') = DataBufs(Pending) /\ Apart(Pending')
      BY <2>2, <3>1
    <3> QED
      BY <2>2, <3>1, <3>2, <3>3, <3>4 DEF ThreeParts
  <2> QED
    BY <1>4, <2>3, <2>4, <2>5, Zenon
<1> QED
  BY <1>1, <1>2, <1>3, <1>4, Zenon DEF ReplyStep

\* Nothing is pending at first.
LEMMA InitReply == Init => ReplyInv /\ CountInv
<1> SUFFICES ASSUME Init PROVE ReplyInv /\ CountInv
  OBVIOUS
<1>1. /\ sends = <<>> /\ sent = 0 /\ queue = <<>> /\ mbuf_pool = Mbufs /\ tx_pool = TxBufs
      /\ refcnt = [s \in Segments |-> 1]
  BY DEF Init
<1>2. Pending = <<>>
  <2>1. sent = Len(sends)
    BY <1>1
  <2> QED
    BY <2>1, InitShape, PendingFacts
<1>3. PICK z : z = <<>> /\ DOMAIN z = {} /\ \A x : RefsOf(z, x) = 0
  <2>1. \A x : PlacesOf(<<>>, x) = {}
    BY DEF PlacesOf
  <2>2. \A x : RefsOf(<<>>, x) = 0
    BY <2>1, FS_EmptySet DEF RefsOf
  <2>3. DOMAIN <<>> = {}
    OBVIOUS
  <2> QED
    BY <2>2, <2>3, Zenon
<1>4. Chains(z) = {} /\ DataBufs(z) = {} /\ Apart(z)
  BY <1>3 DEF Chains, DataBufs, Apart
<1>5. Pending = z /\ queue = z
  BY <1>1, <1>2, <1>3
<1>6. ReplyInv
  BY <1>1, <1>4, <1>5 DEF ReplyInv, ThreeParts
<1>7. 1 % RefcntMod = 1
  BY Consts, ModNear
<1>8. CountInv
  BY <1>1, <1>3, <1>5, <1>7 DEF CountInv
<1> QED
  BY <1>6, <1>8

\* No control mbuf and no data buffer is lost or given out twice, whatever
\* the order of replies, completions and reaps.
THEOREM ReplyOwnersHold == Spec => []ReplyOwners
<1>1. Init => Shape /\ ReplyInv
  BY InitShape, InitReply
<1>2. Shape /\ ReplyInv /\ [Next]_vars => (Shape /\ ReplyInv)'
  BY NextShape, NextReply
<1>3. Shape /\ ReplyInv => ReplyOwners
  <2> SUFFICES ASSUME Shape, ReplyInv, Intact, NULL \notin Range(batch)
               PROVE  LET parts == Pending \o queue
                      IN  /\ mbuf_pool \cup Chains(parts) = Mbufs
                          /\ tx_pool \cup DataBufs(parts) = TxBufs
                          /\ mbuf_pool \cap Chains(parts) = {} /\ tx_pool \cap DataBufs(parts) = {}
                          /\ Apart(parts)
    BY DEF ReplyOwners, Apart
  <2>1. ~Broken
    BY DEF Broken, Intact, Forgotten
  <2>2. Pending \in Seq(ReplySet) /\ queue \in Seq(ReplySet)
    BY PendingFacts, ShapeTypes
  <2>3. /\ Chains(Pending \o queue) = Chains(Pending) \cup Chains(queue)
        /\ DataBufs(Pending \o queue) = DataBufs(Pending) \cup DataBufs(queue)
    BY <2>2, ConcatHolds
  <2>4. Apart(Pending \o queue)
    BY <2>1, <2>2, ConcatApart DEF ReplyInv, ThreeParts
  <2> QED
    BY <2>1, <2>3, <2>4 DEF ReplyInv, ThreeParts
<1> QED
  BY <1>1, <1>2, <1>3, PTL DEF Spec

\* Counting modulo 2^16: what is added to a count, or taken from it, is added
\* to or taken from what it counts.
LEMMA CountMoves ==
  ASSUME NEW old \in Int, NEW delta \in Int, NEW new \in Int, new = old + delta
  PROVE  ((old % RefcntMod) + delta) % RefcntMod = new % RefcntMod
<1>1. RefcntMod \in Nat \ {0}
  BY Consts
<1> QED
  BY <1>1, ModAdd

\* Every step keeps the counts in step with the replies.
LEMMA NextCount ==
  ASSUME Shape, Shape', CountInv, [Next]_vars
  PROVE  CountInv'
<1>1. ReplyStep
  BY NextReplyStep
<1>2. CASE Broken'
  BY <1>2 DEF CountInv
<1>3. CASE Still
  <2>1. UNCHANGED <<refcnt, queue>> /\ Pending' = Pending /\ (~Broken' => ~Broken)
    BY <1>3 DEF Still
  <2>2. \A s \in Segments : RefsOf(Pending', s) = RefsOf(Pending, s) /\ RefsOf(queue', s) = RefsOf(queue, s)
    BY <2>1
  <2> QED
    BY <2>1, <2>2 DEF CountInv
<1>4. CASE /\ ~Broken
           /\ \/ \E c \in SUBSET mbuf_pool, d \in SUBSET tx_pool, r \in ReplySet : Built(c, d, r)
              \/ \E r \in ReplySet : Posted(r)
              \/ \E freed \in Seq(ReplySet) : Reaped(freed)
  <2> SUFFICES ASSUME NEW s \in Segments
               PROVE  refcnt'[s] = (1 + RefsOf(Pending', s) + RefsOf(queue', s)) % RefcntMod
    BY DEF CountInv
  <2>1. /\ Pending \in Seq(ReplySet) /\ Pending' \in Seq(ReplySet)
        /\ queue \in Seq(ReplySet) /\ queue' \in Seq(ReplySet)
    BY PendingFacts, PendingNext, ShapeTypes DEF Shape, RepliesInv
  <2>2. refcnt[s] = (1 + RefsOf(Pending, s) + RefsOf(queue, s)) % RefcntMod
    BY <1>4 DEF CountInv
  <2>3. /\ RefsOf(Pending, s) \in Nat /\ RefsOf(Pending', s) \in Nat
        /\ RefsOf(queue, s) \in Nat /\ RefsOf(queue', s) \in Nat
    BY <2>1, RefsType
  <2>4. PICK old \in Int : old = 1 + RefsOf(Pending, s) + RefsOf(queue, s)
    BY <2>3
  <2>5. PICK new \in Int : new = 1 + RefsOf(Pending', s) + RefsOf(queue', s)
    BY <2>3
  <2>6. ASSUME NEW c \in SUBSET mbuf_pool, NEW d \in SUBSET tx_pool, NEW r \in ReplySet,
               Built(c, d, r)
        PROVE  refcnt'[s] = new % RefcntMod
    <3>1. /\ refcnt'[s] = (refcnt[s] + Refs(r.segs, s)) % RefcntMod
          /\ Pending' = Append(Pending, r) /\ queue' = queue
      BY <2>6 DEF Built
    <3>2. PICK delta \in Nat : delta = Refs(r.segs, s)
      BY ReplyFields, RefsType
    <3>3. RefsOf(Append(Pending, r), s) = RefsOf(Pending, s) + Refs(r.segs, s)
      BY <2>1, AppendHolds
    <3>4. RefsOf(Pending', s) = RefsOf(Pending, s) + delta /\ RefsOf(queue', s) = RefsOf(queue, s)
      BY <3>1, <3>2, <3>3
    <3>5. new = old + delta
      BY <2>3, <2>4, <2>5, <3>4
    <3>6. ((old % RefcntMod) + delta) % RefcntMod = new % RefcntMod
      BY <3>5, CountMoves
    <3> QED
      BY <2>2, <2>4, <3>1, <3>2, <3>6
  <2>7. ASSUME NEW r \in ReplySet, Posted(r)
        PROVE  refcnt'[s] = new % RefcntMod
    <3>1. Pending = <<r>> \o Pending' /\ queue' = Append(queue, r) /\ refcnt' = refcnt
      BY <2>7 DEF Posted
    <3>2. PICK delta \in Nat : delta = Refs(r.segs, s)
      BY ReplyFields, RefsType
    <3>3. RefsOf(Pending, s) = Refs(r.segs, s) + RefsOf(Pending', s)
      <4>1. PICK p \in Seq(ReplySet) : p = Pending'
        BY <2>1
      <4>2. RefsOf(<<r>> \o p, s) = Refs(r.segs, s) + RefsOf(p, s)
        BY FirstCounts
      <4> QED
        BY <3>1, <4>1, <4>2, Zenon
    <3>4. RefsOf(Append(queue, r), s) = RefsOf(queue, s) + Refs(r.segs, s)
      BY <2>1, AppendHolds
    <3>5. RefsOf(Pending, s) = delta + RefsOf(Pending', s) /\ RefsOf(queue', s) = RefsOf(queue, s) + delta
      BY <3>1, <3>2, <3>3, <3>4
    <3>6. new = old
      BY <2>3, <2>4, <2>5, <3>5
    <3> QED
      BY <2>2, <2>4, <3>1, <3>6
  <2>8. ASSUME NEW freed \in Seq(ReplySet), Reaped(freed)
        PROVE  refcnt'[s] = new % RefcntMod
    <3>1. /\ queue = freed \o queue' /\ Pending' = Pending
          /\ refcnt'[s] = (refcnt[s] - RefsOf(freed, s)) % RefcntMod
      BY <2>8 DEF Reaped
    <3>2. PICK k \in Nat : k = RefsOf(freed, s)
      BY RefsType
    <3>3. RefsOf(freed \o queue', s) = RefsOf(freed, s) + RefsOf(queue', s)
      BY <2>1, RefsConcat
    <3>4. RefsOf(queue, s) = k + RefsOf(queue', s) /\ RefsOf(Pending', s) = RefsOf(Pending, s)
      BY <3>1, <3>2, <3>3
    <3>5. new = old + (-k) /\ -k \in Int
      BY <2>3, <2>4, <2>5, <3>4, SMTT(30)
    <3>6. ((old % RefcntMod) + (-k)) % RefcntMod = new % RefcntMod
      BY <3>5, CountMoves
    <3>7. old % RefcntMod \in Int /\ (old % RefcntMod) + (-k) = (old % RefcntMod) - k
      BY Consts, DivMod
    <3> QED
      BY <2>2, <2>4, <3>1, <3>2, <3>6, <3>7
  <2>9. refcnt'[s] = new % RefcntMod
    BY <1>4, <2>6, <2>7, <2>8, Zenon
  <2> QED
    BY <2>5, <2>9
<1> QED
  BY <1>1, <1>2, <1>3, <1>4, Zenon DEF ReplyStep

\* How many replies fit in the ring.
LEMMA QueueBound ==
  ASSUME Shape
  PROVE  RingReplies \in Nat /\ Len(queue) <= RingReplies
<1>1. Len(queue) \in Nat /\ Len(queue) * ReplyBlocks <= Capacity
  BY ShapeTypes DEF Shape, TypeOK, Used
<1>2. ReplyBlocks \in Nat \ {0} /\ Capacity \in Nat
  BY Consts
<1>3. PICK d \in Int, r \in 0 .. ReplyBlocks - 1 : /\ Capacity = ReplyBlocks * d + r
                                                   /\ d = Capacity \div ReplyBlocks
  BY <1>2, DivMod
<1>4. d >= 0
  <2> SUFFICES ASSUME d <= -1 PROVE FALSE
    BY <1>3
  <2>1. ReplyBlocks * d <= ReplyBlocks * (-1)
    BY <1>2
  <2> QED
    BY <1>2, <1>3, <2>1
<1>5. Len(queue) <= d
  <2> SUFFICES ASSUME Len(queue) >= d + 1 PROVE FALSE
    BY <1>1, <1>3
  <2>1. d + 1 \in Nat /\ (d + 1) * ReplyBlocks <= Len(queue) * ReplyBlocks
    BY <1>1, <1>2, <1>4, BlocksGrow
  <2>2. (d + 1) * ReplyBlocks = ReplyBlocks * d + ReplyBlocks
    BY <1>2
  <2> QED
    BY <1>1, <1>2, <1>3, <2>1, <2>2
<1> QED
  BY <1>3, <1>4, <1>5 DEF RingReplies

\* How many replies can be unfinished.
LEMMA RepliesBound ==
  ASSUME Shape
  PROVE  /\ RingReplies \in Nat /\ MaxReplies \in Nat
         /\ Len(Pending) \in Nat /\ Len(queue) \in Nat
         /\ Len(Pending) <= Len(sends) /\ Len(sends) <= Len(batch) /\ Len(batch) <= BATCH_SIZE
         /\ Len(queue) <= RingReplies
         /\ Len(Pending) + Len(queue) <= MaxReplies
<1>1. Len(sends) \in Nat /\ sent \in 0 .. Len(sends) /\ Len(queue) \in Nat /\ Len(batch) \in Nat
  BY ShapeTypes
<1>2. Len(sends) <= Len(batch) /\ Len(batch) <= BATCH_SIZE
  BY DEF Shape, TypeOK, PhaseInv
<1>3. Len(Pending) = Len(sends) - sent
  BY PendingFacts
<1>4. RingReplies \in Nat /\ Len(queue) <= RingReplies
  BY QueueBound
<1> QED
  BY <1>1, <1>2, <1>3, <1>4, Consts DEF MaxReplies

\* A segment's reference count is exactly one for itself and one for every
\* mbuf of an unfinished reply that points to it: it neither drifts nor wraps,
\* provided a count can hold what the batch and the send ring can refer to.
THEOREM RefcntHolds ==
  ASSUME CountsFit
  PROVE  Spec => []RefcntExact
<1>1. Init => Shape /\ CountInv
  BY InitShape, InitReply
<1>2. Shape /\ CountInv /\ [Next]_vars => (Shape /\ CountInv)'
  BY NextShape, NextCount
<1>3. Shape /\ CountInv => RefcntExact
  <2> SUFFICES ASSUME Shape, CountInv, Intact, NULL \notin Range(batch), NEW s \in Segments
               PROVE  refcnt[s] = 1 + RefsOf(Pending \o queue, s)
    BY DEF RefcntExact
  <2>1. ~Broken
    BY DEF Broken, Intact, Forgotten
  <2>2. Pending \in Seq(ReplySet) /\ queue \in Seq(ReplySet)
    BY PendingFacts, ShapeTypes
  <2>3. RefsOf(Pending \o queue, s) = RefsOf(Pending, s) + RefsOf(queue, s)
    BY <2>2, RefsConcat
  <2>4. /\ RefsOf(Pending, s) \in Nat /\ RefsOf(Pending, s) <= Len(Pending) * num_segments
        /\ RefsOf(queue, s) \in Nat /\ RefsOf(queue, s) <= Len(queue) * num_segments
    BY <2>2, RefsType
  <2>5. /\ Len(Pending) \in Nat /\ Len(queue) \in Nat /\ MaxReplies \in Nat
        /\ Len(Pending) + Len(queue) <= MaxReplies
    BY RepliesBound
  <2>6. PICK k \in Nat : k = Len(Pending) + Len(queue)
    BY <2>5
  <2>7. num_segments \in Nat /\ RefcntMod \in Nat \ {0}
    BY Consts
  <2>8. k * num_segments <= MaxReplies * num_segments
    BY <2>5, <2>6, <2>7, BlocksGrow
  <2>9. k * num_segments = Len(Pending) * num_segments + Len(queue) * num_segments
    BY <2>5, <2>6, <2>7
  <2>10. PICK n \in Nat : n = 1 + RefsOf(Pending, s) + RefsOf(queue, s)
    BY <2>4
  <2>11. n <= 1 + MaxReplies * num_segments
    <3>1. /\ Len(Pending) * num_segments \in Nat /\ Len(queue) * num_segments \in Nat
          /\ MaxReplies * num_segments \in Nat
      BY <2>5, <2>7
    <3> QED
      BY <2>4, <2>8, <2>9, <2>10, <3>1
  <2>12. n \in 0 .. RefcntMod - 1
    <3>1. MaxReplies * num_segments \in Nat
      BY <2>5, <2>7
    <3> QED
      BY <2>7, <2>11, <3>1 DEF CountsFit
  <2>13. n % RefcntMod = n
    BY <2>7, <2>12, ModNear
  <2>14. refcnt[s] = n % RefcntMod
    BY <2>1, <2>10 DEF CountInv
  <2> QED
    BY <2>3, <2>4, <2>10, <2>13, <2>14
<1> QED
  BY <1>1, <1>2, <1>3, PTL DEF Spec

---------------------------------------------------------------------------
\* Pools that are large enough never run dry.

\* No batch has failed.
Healthy == pc \notin {"failed", "crash"} /\ ~Forgotten

\* What n replies can hold.
LEMMA HoldBound ==
  ASSUME NEW q \in Seq(ReplySet)
  PROVE  /\ IsFiniteSet(Chains(q)) /\ Cardinality(Chains(q)) <= Len(q) * num_segments
         /\ IsFiniteSet(DataBufs(q)) /\ Cardinality(DataBufs(q)) <= Len(q)
         /\ IsFiniteSet(Echoed(q)) /\ Cardinality(Echoed(q)) <= Len(q)
<1>1. Len(q) \in Nat /\ DOMAIN q = 1 .. Len(q) /\ \A i \in 1 .. Len(q) : q[i] \in ReplySet
  BY LenProperties, ElementOfSeq
<1>2. \A i \in 1 .. Len(q) :
        /\ q[i].rx \subseteq RxBufs /\ q[i].chain \subseteq Mbufs /\ q[i].buf \subseteq TxBufs
        /\ Cardinality(q[i].rx) <= 1 /\ Cardinality(q[i].buf) <= 1
        /\ Cardinality(q[i].chain) <= num_segments
  BY <1>1, ReplyFields
<1>3. IsFiniteSet(RxBufs) /\ IsFiniteSet(Mbufs) /\ IsFiniteSet(TxBufs) /\ num_segments \in Nat
  BY ServerAssumption
<1>4. PICK one \in Nat : one = 1
  OBVIOUS
<1>5. IsFiniteSet(Chains(q)) /\ Cardinality(Chains(q)) <= Len(q) * num_segments
  <2>1. PICK F \in [1 .. Len(q) -> SUBSET Mbufs] : F = [i \in 1 .. Len(q) |-> q[i].chain]
    BY <1>2
  <2>2. \A i \in 1 .. Len(q) : F[i] = q[i].chain /\ Cardinality(F[i]) <= num_segments
    BY <1>2, <2>1
  <2>3. IsFiniteSet(UNION {F[i] : i \in 1 .. Len(q)}) /\ Cardinality(UNION {F[i] : i \in 1 .. Len(q)}) <= Len(q) * num_segments
    BY <1>1, <1>3, <2>2, UnionBound
  <2>4. UNION {F[i] : i \in 1 .. Len(q)} = Chains(q)
    BY <1>1, <2>2 DEF Chains
  <2> QED
    BY <2>3, <2>4, Zenon
<1>6. IsFiniteSet(DataBufs(q)) /\ Cardinality(DataBufs(q)) <= Len(q)
  <2>1. PICK F \in [1 .. Len(q) -> SUBSET TxBufs] : F = [i \in 1 .. Len(q) |-> q[i].buf]
    BY <1>2
  <2>2. \A i \in 1 .. Len(q) : F[i] = q[i].buf /\ Cardinality(F[i]) <= one
    BY <1>2, <1>4, <2>1
  <2>3. IsFiniteSet(UNION {F[i] : i \in 1 .. Len(q)}) /\ Cardinality(UNION {F[i] : i \in 1 .. Len(q)}) <= Len(q) * one
    BY <1>1, <1>3, <2>2, UnionBound
  <2>4. UNION {F[i] : i \in 1 .. Len(q)} = DataBufs(q)
    BY <1>1, <2>2 DEF DataBufs
  <2>5. Len(q) * one = Len(q)
    <3>1. \A k \in Nat : k * 1 = k
      OBVIOUS
    <3> QED
      BY <1>1, <1>4, <3>1, Zenon
  <2> QED
    BY <2>3, <2>4, <2>5, Zenon
<1>7. IsFiniteSet(Echoed(q)) /\ Cardinality(Echoed(q)) <= Len(q)
  <2>1. PICK F \in [1 .. Len(q) -> SUBSET RxBufs] : F = [i \in 1 .. Len(q) |-> q[i].rx]
    BY <1>2
  <2>2. \A i \in 1 .. Len(q) : F[i] = q[i].rx /\ Cardinality(F[i]) <= one
    BY <1>2, <1>4, <2>1
  <2>3. IsFiniteSet(UNION {F[i] : i \in 1 .. Len(q)}) /\ Cardinality(UNION {F[i] : i \in 1 .. Len(q)}) <= Len(q) * one
    BY <1>1, <1>3, <2>2, UnionBound
  <2>4. UNION {F[i] : i \in 1 .. Len(q)} = Echoed(q)
    BY <1>1, <2>2 DEF Echoed
  <2>5. Len(q) * one = Len(q)
    <3>1. \A k \in Nat : k * 1 = k
      OBVIOUS
    <3> QED
      BY <1>1, <1>4, <3>1, Zenon
  <2> QED
    BY <2>3, <2>4, <2>5, Zenon
<1> QED
  BY <1>5, <1>6, <1>7

\* The size of a set that three others cover.
LEMMA ThreeCover ==
  ASSUME NEW S, NEW A, NEW B, NEW C, IsFiniteSet(A), IsFiniteSet(B), IsFiniteSet(C),
         A \cup B \cup C = S
  PROVE  /\ Cardinality(A) \in Nat /\ Cardinality(B) \in Nat /\ Cardinality(C) \in Nat
         /\ Cardinality(S) \in Nat
         /\ Cardinality(S) <= Cardinality(A) + Cardinality(B) + Cardinality(C)
<1>1. Cardinality(A) \in Nat /\ Cardinality(B) \in Nat /\ Cardinality(C) \in Nat
  BY FS_CardinalityType
<1>2. /\ IsFiniteSet(A \cup B)
      /\ Cardinality(A \cup B) = Cardinality(A) + Cardinality(B) - Cardinality(A \cap B)
  BY FS_Union
<1>3. PICK X : X = A \cup B
  OBVIOUS
<1>4. /\ IsFiniteSet(X \cup C)
      /\ Cardinality(X \cup C) = Cardinality(X) + Cardinality(C) - Cardinality(X \cap C)
  BY <1>2, <1>3, FS_Union
<1>5. IsFiniteSet(A \cap B) /\ IsFiniteSet(X \cap C)
  BY <1>2, <1>3, FS_Subset
<1>6. Cardinality(A \cap B) \in Nat /\ Cardinality(X \cap C) \in Nat /\ Cardinality(X \cup C) \in Nat
  BY <1>4, <1>5, FS_CardinalityType
<1>7. S = X \cup C
  BY <1>3
<1> QED
  BY <1>1, <1>2, <1>3, <1>4, <1>6, <1>7

\* A poll finds a fresh buffer for every packet.
LEMMA PollRefills ==
  ASSUME Sized, Shape, FlushInv, RxAll, pc = "poll", NEW burst \in Bursts
  PROVE  ~(Cardinality(rx_pool) < Len(burst))
<1>1. recv = <<>> /\ batch = <<>>
  BY DEF Shape, PhaseInv, FlushInv
<1>2. Waiting = {} /\ Held = {}
  BY <1>1 DEF Waiting, Held
<1>3. rx_ring \cup rx_pool \cup Echoed(queue) = RxBufs
  BY <1>2 DEF RxAll
<1>4. IsFiniteSet(Echoed(queue)) /\ Cardinality(Echoed(queue)) <= Len(queue)
  BY ShapeTypes, HoldBound
<1>5. IsFiniteSet(rx_ring) /\ IsFiniteSet(rx_pool) /\ Cardinality(rx_ring) = RxWqeCnt
  BY ShapeTypes DEF Shape, RxApart
<1>6. /\ Cardinality(rx_pool) \in Nat /\ Cardinality(Echoed(queue)) \in Nat /\ Cardinality(RxBufs) \in Nat
      /\ Cardinality(RxBufs) <= Cardinality(rx_ring) + Cardinality(rx_pool) + Cardinality(Echoed(queue))
  BY <1>3, <1>4, <1>5, ThreeCover
<1>7. Len(queue) \in Nat /\ Len(queue) <= RingReplies /\ RingReplies \in Nat
  BY ShapeTypes, QueueBound
<1>8. Cardinality(RxBufs) >= RxWqeCnt + RingReplies + Len(burst) /\ Len(burst) \in Nat /\ RxWqeCnt \in Nat
  BY Consts, ServerAssumption DEF Sized
<1> QED
  BY <1>4, <1>5, <1>6, <1>7, <1>8

\* A reply being built finds its mbufs and its buffer.
LEMMA BuildSupplied ==
  ASSUME Sized, Shape, ReplyInv, Building
  PROVE  ~(Cardinality(mbuf_pool) < num_segments) /\ tx_pool # {}
<1>1. ~Broken
  BY Whole DEF Building
<1>2. /\ mbuf_pool \cup Chains(Pending) \cup Chains(queue) = Mbufs
      /\ tx_pool \cup DataBufs(Pending) \cup DataBufs(queue) = TxBufs
  BY <1>1 DEF ReplyInv, ThreeParts
<1>3. Pending \in Seq(ReplySet) /\ queue \in Seq(ReplySet)
  BY PendingFacts, ShapeTypes
<1>4. /\ IsFiniteSet(Chains(Pending)) /\ Cardinality(Chains(Pending)) <= Len(Pending) * num_segments
      /\ IsFiniteSet(Chains(queue)) /\ Cardinality(Chains(queue)) <= Len(queue) * num_segments
      /\ IsFiniteSet(DataBufs(Pending)) /\ Cardinality(DataBufs(Pending)) <= Len(Pending)
      /\ IsFiniteSet(DataBufs(queue)) /\ Cardinality(DataBufs(queue)) <= Len(queue)
  BY <1>3, HoldBound
<1>5. /\ Len(Pending) \in Nat /\ Len(queue) \in Nat /\ RingReplies \in Nat /\ MaxReplies \in Nat
      /\ Len(Pending) <= Len(sends) /\ Len(batch) <= BATCH_SIZE /\ Len(queue) <= RingReplies
  BY RepliesBound
<1>6. Len(sends) < Len(batch) /\ Len(sends) \in Nat /\ Len(batch) \in Nat /\ BATCH_SIZE \in Nat
  BY ShapeTypes, Consts DEF Building
<1>7. PICK k \in Nat : k = Len(Pending) + Len(queue) /\ k + 1 <= MaxReplies
  BY <1>5, <1>6 DEF MaxReplies
<1>8. num_segments \in Nat \ {0}
  BY Consts
<1>9. IsFiniteSet(mbuf_pool) /\ IsFiniteSet(tx_pool)
  BY ShapeTypes
<1>10. ~(Cardinality(mbuf_pool) < num_segments)
  <2>1. /\ Cardinality(mbuf_pool) \in Nat /\ Cardinality(Mbufs) \in Nat
        /\ Cardinality(Chains(Pending)) \in Nat /\ Cardinality(Chains(queue)) \in Nat
        /\ Cardinality(Mbufs) <= Cardinality(mbuf_pool) + Cardinality(Chains(Pending)) + Cardinality(Chains(queue))
    BY <1>2, <1>4, <1>9, ThreeCover
  <2>2. Len(Pending) * num_segments + Len(queue) * num_segments = k * num_segments
    BY <1>5, <1>7, <1>8
  <2>3. (k + 1) * num_segments <= MaxReplies * num_segments /\ (k + 1) * num_segments = k * num_segments + num_segments
    BY <1>5, <1>7, <1>8, BlocksGrow, SMTT(30)
  <2>4. /\ Len(Pending) * num_segments \in Nat /\ Len(queue) * num_segments \in Nat
        /\ k * num_segments \in Nat /\ MaxReplies * num_segments \in Nat
    BY <1>5, <1>7, <1>8
  <2>5. Cardinality(Mbufs) >= MaxReplies * num_segments
    BY DEF Sized
  <2> QED
    BY <1>4, <1>8, <2>1, <2>2, <2>3, <2>4, <2>5, SMTT(30)
<1>11. tx_pool # {}
  <2>1. /\ Cardinality(tx_pool) \in Nat /\ Cardinality(TxBufs) \in Nat
        /\ Cardinality(DataBufs(Pending)) \in Nat /\ Cardinality(DataBufs(queue)) \in Nat
        /\ Cardinality(TxBufs) <= Cardinality(tx_pool) + Cardinality(DataBufs(Pending)) + Cardinality(DataBufs(queue))
    BY <1>2, <1>4, <1>9, ThreeCover
  <2>2. Cardinality(TxBufs) >= MaxReplies
    BY DEF Sized
  <2>3. Cardinality(tx_pool) >= 1
    BY <1>4, <1>5, <1>7, <2>1, <2>2
  <2>4. Cardinality({}) = 0
    BY FS_EmptySet
  <2>5. ~(0 >= 1)
    OBVIOUS
  <2> QED
    BY <2>3, <2>4, <2>5, Zenon
<1> QED
  BY <1>10, <1>11

\* A batch forgotten by a step that keeps the batch was forgotten before it.
LEMMA StaysHealthy ==
  ASSUME Healthy, Shape', pc' \notin {"failed", "crash"}, batch' = batch \/ pc' # "free"
  PROVE  Healthy'
<1>1. CASE batch' = batch
  BY <1>1 DEF Healthy, Forgotten
<1>2. CASE pc' # "free"
  BY <1>2 DEF Healthy, Shape, PhaseInv
<1> QED
  BY <1>1, <1>2

\* No step of a server with such pools fails.
LEMMA NextHealthy ==
  ASSUME Sized, Shape, Shape', FlushInv, RxAll, ReplyInv, Healthy, [Next]_vars
  PROVE  Healthy'
<1>1. ASSUME NEW burst \in Bursts, Poll(burst) PROVE Healthy'
  <2>1. pc = "poll"
    BY <1>1 DEF Poll
  <2>2. ~(Cardinality(rx_pool) < Len(burst))
    BY <2>1, PollRefills
  <2>3. pc' = "scan"
    BY <1>1, <2>2 DEF Poll
  <2> QED
    BY <2>3, StaysHealthy
<1>2. CASE SkipInvalid \/ TakeValid \/ ScanDone
  <2>1. pc' \in {"scan", "build", "poll"}
    BY <1>2 DEF SkipInvalid, TakeValid, ScanDone, Scanning
  <2> QED
    BY <2>1, StaysHealthy
<1>3. CASE BuildEcho \/ BuildCopy \/ (\E segs \in SegmentLists : BuildZeroCopy(segs)) \/ BuildDone
  <2>1. pc' \in {"build", "post"}
    BY <1>3 DEF BuildEcho, BuildCopy, BuildZeroCopy, BuildDone, Building
  <2> QED
    BY <2>1, StaysHealthy
<1>4. CASE BuildEchoFails
  BY <1>4 DEF BuildEchoFails, Sized
<1>5. ASSUME NEW segs \in SegmentLists, BuildFails(segs) PROVE FALSE
  <2>1. Building /\ Cardinality(mbuf_pool) < MbufsPerReply
    BY <1>5 DEF BuildFails
  <2>2. ~(Cardinality(mbuf_pool) < num_segments)
    BY <2>1, BuildSupplied
  <2>3. MbufsPerReply \in 0 .. num_segments
    BY Consts DEF MbufsPerReply
  <2>4. Cardinality(mbuf_pool) \in Nat /\ num_segments \in Nat
    BY ShapeTypes, Consts
  <2> QED
    BY <2>1, <2>2, <2>3, <2>4
<1>6. CASE BuildFailsNoBuffer
  BY <1>6, BuildSupplied DEF BuildFailsNoBuffer
<1>7. CASE PostFull \/ PostOne \/ Clean
  <2>1. pc' \in {"post", "clean"}
    BY <1>7 DEF PostFull, PostOne, Clean, Posting
  <2> QED
    BY <2>1, StaysHealthy
<1>8. CASE PostDone
  <2>1. pc' = "scan" \/ (pc' = "free" /\ batch' = batch)
    BY <1>8 DEF PostDone
  <2> QED
    BY <2>1, StaysHealthy
<1>9. CASE FreeFailed
  BY <1>9 DEF FreeFailed, Healthy
<1>10. CASE FreeBatch
  <2>1. pc' = "scan"
    BY <1>10 DEF FreeBatch, Healthy, Forgotten
  <2> QED
    BY <2>1, StaysHealthy
<1>11. CASE NicComplete \/ UNCHANGED vars
  <2>1. pc' = pc /\ batch' = batch
    BY <1>11 DEF NicComplete, vars
  <2> QED
    BY <2>1 DEF Healthy, Forgotten
<1> QED
  BY <1>1, <1>2, <1>3, <1>4, <1>5, <1>6, <1>7, <1>8, <1>9, <1>10, <1>11 DEF Next, CpuStep

\* The whole inductive invariant of a server with such pools and bursts.
Sound == Shape /\ FlushInv /\ RxAll /\ ReplyInv /\ Healthy

\* It holds from the first poll on.
LEMMA SoundHolds ==
  ASSUME AllFlushed, Sized
  PROVE  Spec => []Sound
<1>1. Init => Sound
  <2> SUFFICES ASSUME Init PROVE Healthy
    BY InitShape, InitRxAll, InitReply DEF Sound
  <2>1. pc = "poll" /\ batch = <<>>
    BY DEF Init
  <2> QED
    BY <2>1 DEF Healthy, Forgotten, Range
<1>2. Sound /\ [Next]_vars => Sound'
  BY NextShape, NextFlush, NextRxAll, NextReply, NextHealthy DEF Sound
<1> QED
  BY <1>1, <1>2, PTL DEF Spec

\* With pools that cover the ring, a burst, a batch and the send ring, the
\* receive ring is always refilled and a reply always finds its mbufs.
THEOREM PoolsHold ==
  ASSUME AllFlushed, Sized
  PROVE  Spec => []PoolsSuffice
<1>1. Sound => PoolsSuffice
  BY DEF Sound, Healthy, PoolsSuffice
<1> QED
  BY <1>1, SoundHolds, PTL

\* With such pools and bursts a packet that joined a batch leaves it only
\* after its reply was posted.
THEOREM AnsweredHolds ==
  ASSUME AllFlushed, Sized
  PROVE  Spec => AnsweredBeforeForgotten
<1> DEFINE Answered == \A i \in DOMAIN batch : (i \notin DOMAIN batch' \/ batch'[i] # batch[i]) => i <= sent
<1>1. Sound /\ [Next]_vars => [Answered]_vars
  <2> SUFFICES ASSUME Sound, Next, NEW i \in DOMAIN batch, i \notin DOMAIN batch' \/ batch'[i] # batch[i]
               PROVE  i <= sent
    OBVIOUS
  <2>1. batch' # batch /\ batch # <<>> /\ i \in 1 .. Len(batch) /\ Len(batch) \in Nat
    <3>1. DOMAIN batch = 1 .. Len(batch) /\ Len(batch) \in Nat
      BY ShapeTypes DEF Sound
    <3>2. batch # <<>>
      BY <3>1
    <3> QED
      BY <3>1, <3>2
  <2>2. CASE \E burst \in Bursts : Poll(burst)
    BY <2>1, <2>2 DEF Poll, Sound, FlushInv
  <2>3. CASE TakeValid
    <3>1. batch' = Append(batch, Head(recv).b)
      BY <2>3 DEF TakeValid
    <3>2. batch \in Seq(RxBufs \cup {NULL})
      BY ShapeTypes DEF Sound
    <3>3. Len(batch') = Len(batch) + 1 /\ DOMAIN batch' = 1 .. Len(batch) + 1 /\ batch'[i] = batch[i]
      BY <2>1, <3>1, <3>2
    <3>4. i \in DOMAIN batch'
      BY <2>1, <3>3
    <3> QED
      BY <3>3, <3>4
  <2>4. CASE PostDone
    <3>1. pc = "post" /\ sent = Len(sends)
      BY <2>4 DEF PostDone
    <3>2. sent = Len(batch)
      BY <3>1 DEF Sound, Shape, PhaseInv
    <3> QED
      BY <2>1, <3>2
  <2>5. CASE FreeFailed
    BY <2>5 DEF FreeFailed, Sound, Healthy
  <2>6. CASE FreeBatch
    <3>1. pc = "free"
      BY <2>6 DEF FreeBatch
    <3>2. sent = Len(batch)
      BY <3>1 DEF Sound, Shape, PhaseInv, Healthy
    <3> QED
      BY <2>1, <3>2
  <2>7. CASE \/ SkipInvalid \/ ScanDone \/ BuildEcho \/ BuildEchoFails \/ BuildCopy
             \/ \E segs \in SegmentLists : BuildZeroCopy(segs) \/ BuildFails(segs)
             \/ BuildFailsNoBuffer \/ BuildDone \/ PostFull \/ PostOne \/ Clean \/ NicComplete
    <3>1. batch' = batch
      BY <2>7 DEF SkipInvalid, ScanDone, BuildEcho, BuildEchoFails, BuildCopy, BuildZeroCopy, BuildFails,
                  BuildFailsNoBuffer, BuildDone, PostFull, PostOne, Clean, NicComplete
    <3> QED
      BY <2>1, <3>1
  <2> QED
    BY <2>2, <2>3, <2>4, <2>5, <2>6, <2>7 DEF Next, CpuStep
<1> HIDE DEF Answered
<1>2. (Spec => [][Answered]_vars) => (Spec => AnsweredBeforeForgotten)
  BY DEF Answered, AnsweredBeforeForgotten
<1> QED
  BY <1>1, <1>2, SoundHolds, PTL DEF Spec
=============================================================================
